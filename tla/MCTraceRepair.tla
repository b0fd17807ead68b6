---------------------------- MODULE MCTraceRepair ----------------------------
\* A plain name, one of two words and one with a number; up to four steps.
EXTENDS TraceRepair

Word(n) == [number |-> FALSE, len |-> n]

Digits(n) == [number |-> TRUE, len |-> n]

MCNames == {<<Word(1)>>, <<Word(2), Word(1)>>, <<Word(1), Digits(2)>>}
===============================================================================
