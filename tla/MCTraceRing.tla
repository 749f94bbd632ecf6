----------------------------- MODULE MCTraceRing -----------------------------
(* Small instances of TraceRing for TLC.                                   *)
EXTENDS TraceRing
=============================================================================
