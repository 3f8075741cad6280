------------------------- MODULE MCSourceBootstrap -------------------------
(* An instance of SourceBootstrap for TLC. *)
EXTENDS SourceBootstrap, TLC

CONSTANTS t1, t2, s1, s2, k1

\* Two payloads under one key, the first with all four kinds of result.
Payloads ==
    {[key |-> k1, suggestions |-> <<s1, BadUrl, s1>>, ingest |-> TRUE],
     [key |-> k1, suggestions |-> <<s1>>, ingest |-> FALSE],
     [key |-> NoKey, suggestions |-> <<s1>>, ingest |-> TRUE]}

Symmetry == Permutations(Threads)
=============================================================================
