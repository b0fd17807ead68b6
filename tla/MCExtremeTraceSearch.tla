------------------------- MODULE MCExtremeTraceSearch -------------------------
(* Small instances of ExtremeTraceSearch. *)
EXTENDS ExtremeTraceSearch

MCValues == 0..3
===============================================================================
