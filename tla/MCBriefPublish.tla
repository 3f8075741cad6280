--------------------------- MODULE MCBriefPublish ---------------------------
(* Instances of BriefPublish for TLC. *)
EXTENDS BriefPublish

\* The website comes without a directory of weekly digests.
MCInit == Init /\ ~ weekdir

MCSpec == MCInit /\ [][Next]_vars /\ Fairness
=============================================================================
