---------------------------- MODULE MCAlgorithms ----------------------------
(***************************************************************************)
(* Instances of the two algorithms, Chunking and BriefSelection, that TLC   *)
(* checks over all inputs of a bounded kind: a behaviour runs one of them   *)
(* on one input, and the other is over before it began.                     *)
(***************************************************************************)
EXTENDS Chunking, BriefSelection

CONSTANTS a1, a2, a3, b1, c1

S(n) == [len |-> n, stop |-> TRUE]

\* Sentences shorter and longer than the overlap and than a chunk, and one
\* without a stop.
MCParagraphs ==
    {<<S(2)>>, <<S(9)>>, <<S(12)>>, <<S(4), S(3)>>, <<S(3), S(13), S(2)>>,
     <<[len |-> 3, stop |-> FALSE]>>}

\* Texts of up to four headings and paragraphs.
MCTexts ==
    BoundedSeq({[heading |-> FALSE, sentences |-> s] : s \in MCParagraphs}
                 \union {[heading |-> TRUE, sentences |-> <<>>]}, 4)

\* A source with more documents than its limit, whose third shares its key
\* with one of another source and whose first its URL.
MCSourceOf == [d \in Documents |-> IF d \in {a1, a2, a3} THEN "a" ELSE IF d = b1 THEN "b" ELSE "c"]
MCKeyOf == [d \in Documents |-> IF d \in {a3, c1} THEN {a3, c1} ELSE {d}]
MCUrlOf == [d \in Documents |-> IF d \in {a1, b1} THEN {a1, b1} ELSE {d}]

NoText ==
    /\ doc = <<>> /\ at = 1 /\ todo = <<>> /\ current = <<>> /\ size = 0
    /\ lead = <<>> /\ path = <<>> /\ buckets = <<>> /\ chunked = TRUE

NoDay ==
    /\ readable = {} /\ early = {} /\ score = [d \in Documents |-> 0]
    /\ daily = TRUE /\ lookback = FALSE /\ step = "end" /\ wide = FALSE
    /\ pool = {} /\ left = {} /\ picked = <<>> /\ draft = <<>>
    /\ copy = FALSE /\ verdict = "none"

Init == (ChunkingInit /\ NoDay) \/ (SelectionInit /\ NoText)

Next ==
    \/ ChunkingNext /\ UNCHANGED selectionVars
    \/ SelectionNext /\ UNCHANGED chunkVars

Spec == Init /\ [][Next]_<<chunkVars, selectionVars>>
=============================================================================
