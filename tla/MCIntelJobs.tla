---------------------------- MODULE MCIntelJobs ----------------------------
(* Model values for IntelJobs. *)
EXTENDS IntelJobs

CONSTANTS w1, w2, c1, a1, x, y
=============================================================================
