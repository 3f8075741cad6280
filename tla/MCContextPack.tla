---------------------------- MODULE MCContextPack ----------------------------
(* Instances of ContextPack and EvidenceSearch for TLC: one document with
   several chunks. *)
EXTENDS EvidenceSearch, TLC

CONSTANTS q1, s1, d1, d2, a1, a2, b1

MCDocOf == a1 :> d1 @@ a2 :> d1 @@ b1 :> d2

\* The chunks of the longer document are interchangeable.
Symmetry == Permutations({a1, a2})

\* Queries and searches meet only in the corpus, which changes whether the other
\* is there or not: no step is taken to a state in which both have begun.
OneAtATime ==
    (\A q \in Queries : pc'[q] = "off") \/ (\A s \in Searches : stage'[s] = "off")
=============================================================================
