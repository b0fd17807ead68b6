---------------------------- MODULE MCSpaceExFile ----------------------------
\* Models and features for TLC.
EXTENDS SpaceExFile

Edge(from, to, nr) == [from |-> from, to |-> to, nr |-> nr]

\* Location 9 is none of the model's.
MCEdgePool == {Edge(1, 2, 1), Edge(1, 2, 2), Edge(2, 1, 1), Edge(1, 9, 1), Edge(9, 1, 1)}

\* One variable has a name that begins with level, one with time.
Signature == <<"x", "levelx", "timer">>

\* The left side of p has no name of a variable at its beginning, that of q two.
MCFlow == <<<<"level", "x", "levelx">>, <<"levelx", "x", "timer">>>>

MCPorv ==
  [p |-> [var |-> None, above |-> TRUE, begins |-> {}],
   q |-> [var |-> "levelx", above |-> FALSE, begins |-> {"level", "levelx"}]]

MCResets ==
  [e \in MCEdgePool |->
     IF e.nr = 2 THEN <<<<"x", Expression>>, <<"timer", Of("timer")>>>>
     ELSE Identities(Signature)]

Trans(from, to, nr) == [kind |-> "trans", edge |-> Edge(from, to, nr)]

Inv(l, conds) == [kind |-> "inv", loc |-> l, conds |-> conds]

A == <<"a">>

B == <<"b">>

C == <<"c">>

File(properties) ==
  [signature |-> Signature, outputs |-> <<"x">>, modes |-> <<1, 2>>, properties |-> properties,
   initial |-> <<[mode |-> 1, conds |-> <<A, B>>], [mode |-> 2, conds |-> <<C>>]>>]

\* No properties at all; an invariant given twice; all transitions; a transition
\* to no location; one from none.
MCFiles ==
  {File(<< >>),
   File(<<Inv(1, <<A>>), Trans(1, 2, 1), Inv(2, <<A, B>>), Inv(1, <<B, C>>)>>),
   File(<<Inv(1, <<A>>), Trans(1, 2, 1), Trans(1, 2, 2), Trans(2, 1, 1), Inv(2, <<B>>)>>),
   File(<<Inv(2, <<A>>), Trans(2, 1, 1), Trans(1, 9, 1)>>),
   File(<<Inv(2, <<A>>), Trans(9, 1, 1)>>)}

T(ctx, preds, first) == [ctx |-> ctx, preds |-> preds, first |-> first]

Event(on, of, type, first) == [on |-> on, of |-> of, type |-> type, first |-> first]

Expr(dnf, event, delay, sets) ==
  [dnf |-> dnf, event |-> event, delay |-> delay, sets |-> sets]

Firsts ==
  {Expr(<<T(1, {}, FALSE)>>, None, None, <<"t1">>),
   Expr(<<T(None, {"p"}, TRUE)>>, None, None, << >>),
   Expr(<< >>, Event("state", 1, Anyedge, FALSE), None, <<"t1", "t2">>)}

Delay == [type |-> 0, lower |-> 1, upper |-> 1]

Seconds ==
  {Expr(<<T(None, {"p"}, FALSE), T(2, {"q"}, FALSE)>>, None, None, <<"t3">>),
   Expr(<<T(None, {"p"}, FALSE), T(1, {"q"}, TRUE)>>, None, Delay, << >>),
   Expr(<<T(2, {"q"}, FALSE)>>, Event("state", 2, Posedge, FALSE), Delay, <<"t3">>),
   Expr(<<T(1, {}, FALSE)>>, Event("state", 2, Posedge, TRUE), None, <<"t3">>),
   Expr(<< >>, Event("porv", "q", Posedge, TRUE), None, << >>),
   Expr(<<T(None, {}, FALSE)>>, Event("porv", "q", Anyedge, FALSE), None, <<"t3", "t4">>)}

Plain == Expr(<<T(None, {"p"}, TRUE)>>, None, None, << >>)

MCFeatures ==
  {<<a>> : a \in Firsts} \union {<<a, b>> : a \in Firsts, b \in Seconds}
    \union {<<Plain, b, c>> : b \in Seconds, c \in Firsts}

\* Each feature declares what it stores, in order; one on its own also a variable
\* it does not use.
StoredBy(f) ==
  FoldLeft(LAMBDA s, x : s \o SelectSeq(x.sets, LAMBDA y : ~Contains(s, y)), << >>, f)

MCDeclared ==
  [f \in MCFeatures |-> StoredBy(f) \o IF Len(f) = 1 THEN <<"spare">> ELSE << >>]
==============================================================================
