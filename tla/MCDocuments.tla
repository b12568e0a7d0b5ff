----------------------------- MODULE MCDocuments -----------------------------
(* Documents on small sets, for TLC *)
EXTENDS Documents
=============================================================================
