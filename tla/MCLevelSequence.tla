-------------------------- MODULE MCLevelSequence --------------------------
\* Features and models for TLC.
EXTENDS LevelSequence

MCEdgePool ==
  {[from |-> 1, to |-> 2, nr |-> 1], [from |-> 1, to |-> 2, nr |-> 2],
   [from |-> 2, to |-> 1, nr |-> 1]}

\* p is x2 >= c, q is x <= c.  In location 1 the derivative of x comes first, in
\* location 2 x has none.
MCFlow == <<<<"x", "x2">>, <<"x2">>>>

MCPorv ==
  [p |-> [var |-> "x2", above |-> TRUE, begins |-> {"x", "x2"}],
   q |-> [var |-> "x", above |-> FALSE, begins |-> {"x"}]]

T(ctx, preds, first) == [ctx |-> ctx, preds |-> preds, first |-> first]

Event(on, of, type, first) == [on |-> on, of |-> of, type |-> type, first |-> first]

Expr(dnf, event, delay, sets) ==
  [dnf |-> dnf, event |-> event, delay |-> delay, sets |-> sets]

\* First sub-expressions: a state, a predicate, an event, a disjunction.
Firsts ==
  {Expr(<<T(1, {}, FALSE)>>, None, None, <<"t1">>),
   Expr(<<T(None, {"p"}, TRUE)>>, None, None, << >>),
   Expr(<< >>, Event("porv", "p", Posedge, FALSE), None, <<"t1">>),
   Expr(<<T(1, {"p"}, FALSE), T(2, {}, FALSE)>>, Event("state", 2, Posedge, FALSE), None, << >>)}

Dnfs ==
  {<< >>} \union
  {<<T(c, ps, f)>> : c \in {None, 2}, ps \in {{}, {"p"}}, f \in BOOLEAN} \union
  {<<T(1, {"p"}, FALSE), T(2, {"q"}, FALSE)>>,
   <<T(None, {"p"}, TRUE), T(None, {"q"}, TRUE)>>,
   <<T(2, {}, FALSE), T(None, {"q"}, TRUE)>>}

Events ==
  {None} \union
  {Event("state", 2, Posedge, FALSE), Event("state", 1, Anyedge, FALSE),
   Event("state", 2, Negedge, TRUE),
   Event("porv", "q", Posedge, TRUE), Event("porv", "q", Anyedge, FALSE)}

Delay == [type |-> 0, lower |-> 1, upper |-> 1]

\* Neither a window nor an assignment, or both.
Timings == {<<None, << >>>>, <<Delay, <<"t2">>>>}

Seconds ==
  {Expr(d, ev, tm[1], tm[2]) : d \in Dnfs, ev \in Events, tm \in Timings}
    \ {Expr(<< >>, None, tm[1], tm[2]) : tm \in Timings}

MCFeatures ==
  {<<a>> : a \in Firsts} \union {<<a, b>> : a \in Firsts, b \in Seconds}
============================================================================
