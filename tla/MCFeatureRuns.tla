---------------------------- MODULE MCFeatureRuns ----------------------------
\* Features and models for TLC.
EXTENDS FeatureRuns

MCEdgePool ==
  {[from |-> 1, to |-> 2, nr |-> 1], [from |-> 2, to |-> 1, nr |-> 1]}

\* p is x <= c.
MCFlow == <<<<"x">>, <<"x">>>>

MCPorv == [p |-> [var |-> "x", above |-> FALSE, begins |-> {"x"}]]

T(ctx, preds, first) == [ctx |-> ctx, preds |-> preds, first |-> first]

Event(on, of, type, first) == [on |-> on, of |-> of, type |-> type, first |-> first]

Expr(dnf, event, delay, sets) ==
  [dnf |-> dnf, event |-> event, delay |-> delay, sets |-> sets]

Firsts ==
  {Expr(<<T(1, {}, FALSE)>>, None, None, <<"t1">>),
   Expr(<<T(None, {"p"}, TRUE)>>, Event("state", 2, Posedge, FALSE), None, <<"t1">>),
   Expr(<<T(1, {"p"}, FALSE), T(2, {}, TRUE)>>, None, None, << >>),
   Expr(<< >>, Event("porv", "p", Posedge, FALSE), None, << >>)}

Window == [type |-> 0, lower |-> 1, upper |-> 1]

Seconds ==
  {Expr(<<T(2, {"p"}, FALSE), T(1, {}, TRUE)>>, None, Window, <<"t2">>),
   Expr(<< >>, Event("porv", "p", Anyedge, TRUE), Window, <<"t2">>),
   Expr(<< >>, Event("state", 2, Posedge, FALSE), Window, <<"t2">>),
   Expr(<<T(None, {"p"}, TRUE)>>, None, None, <<"t1">>),
   Expr(<<T(None, {"p"}, FALSE)>>, Event("state", 1, Anyedge, FALSE), None, <<"t2">>),
   Expr(<<T(None, {"p"}, TRUE)>>, Event("porv", "p", Posedge, FALSE), [Window EXCEPT !.type = 1], << >>)}

Thirds ==
  {Expr(<<T(None, {}, FALSE)>>, None, [Window EXCEPT !.type = 2], << >>),
   Expr(<<T(None, {"p"}, TRUE)>>, Event("porv", "p", Posedge, FALSE), Window, <<"t3">>)}

MCFeatures ==
  {<<a>> : a \in Firsts} \union {<<a, b>> : a \in Firsts, b \in Seconds}
    \union {<<a, b, c>> : a \in Firsts, b \in Seconds, c \in Thirds}

\* A feature that waits for the negative edge of a predicate.
MCNegedgeFeatures == {<<Expr(<< >>, Event("porv", "p", Negedge, FALSE), None, <<"t1">>)>>}
=============================================================================
