----------------------------- MODULE MCParamEntry -----------------------------
\* Two models.  Their features have two parameters, of two characters and of one,
\* one or none; one has a sub-expression without an event, and one has a
\* variable with the name of a parameter in it.
EXTENDS Session

T1 == <<"T", "T">>

T2 == <<"k">>

V == <<"v">>

Times == <<"*">>

Sub(event, dnf) == [event |-> event, dnf |-> dnf]

Above(x) == <<<<V>>, <<x, Times, V>>>>

MCFeatureLists == <<
  << [params |-> <<T1, T2>>,
      seq |-> <<Sub(Above(T1), << <<T2>> >>), Sub(Above(T2), << >>)>>],
     [params |-> <<T2, T1>>,
      seq |-> <<Sub(<<<<T1, Times, T2, Times, T1>>, <<V>>>>, << <<T1>>, <<T2, Times, T2>> >>)>>] >>,
  << [params |-> <<T1>>, seq |-> <<Sub(Above(T1), << >>), Sub(NoEvent, << <<T1>> >>)>>],
     [params |-> <<T2>>, seq |-> <<Sub(<<<<T1 \o T2>>, <<T2>>>>, << >>)>>],
     [params |-> << >>, seq |-> <<Sub(NoEvent, << <<V>> >>)>>] >> >>

MCFeatures == UNION {ToSet(MCFeatureLists[m]) : m \in DOMAIN MCFeatureLists}

MCIds == 0..3

MCValues == {<<"1">>, <<"2", ".">>}

MCWords == {2}

\* One of them is too small for six decimals.
MCReals == {1, 2}

MCPrinted == [r \in {0} \union MCReals |-> IF r = 1 THEN 0 ELSE r]
===============================================================================
