------------------------- MODULE MCResearchDocuments -------------------------
(* Instances of ResearchDocuments for TLC. *)
EXTENDS ResearchDocuments, FiniteSets, TLC

CONSTANTS i1, i2, r1, d1, d2, x, y

\* Workers and texts are interchangeable.
Symmetry == Permutations({i1, i2}) \cup Permutations({x, y})

\* Every pair of processes meets on the document; no step is taken to a state in
\* which all three are at work.
TwoAtWork == Cardinality({p \in Procs : pc'[p] \notin {"off", "idle"}}) <= 2
=============================================================================
