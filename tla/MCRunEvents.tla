----------------------------- MODULE MCRunEvents -----------------------------
(* RunEvents on small sets, for TLC *)
EXTENDS RunEvents
=============================================================================
