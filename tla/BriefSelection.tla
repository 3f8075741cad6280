--------------------------- MODULE BriefSelection ---------------------------
(***************************************************************************)
(* One day of the brief (app/research/digest_generator.py,                 *)
(* generate_digest_for_day): read the window's documents, pick the best    *)
(* that are distinct, have the language model write them up, judge the     *)
(* result, write the issue.  BriefPublish takes the verdict of a day as a  *)
(* choice; here is how it comes about.                                     *)
(*                                                                         *)
(* Scores are any numbers and equal ones are in any order, since the dates *)
(* that part them are arbitrary too.  Of the prose only counts whether it  *)
(* is complete after the fallbacks.                                        *)
(***************************************************************************)
EXTENDS Integers, SequencesExt, FiniteSetsExt

CONSTANTS
    Documents,      \* research documents (external)
    SourceOf,       \* document -> name of its source
    KeyOf,          \* document -> build_dedupe_key
    UrlOf,          \* document -> canonical URL; two sources may share one
    MaxItems, MinItems, MinSources, SourceLimit,    \* the settings
    MaxScore,       \* bound: scores
    MaxDraft        \* bound: items in the model's answer

ASSUME SelectionAssumption ==
    /\ {MaxItems, MinItems, MinSources, SourceLimit} \subseteq Nat \ {0}
    /\ {MaxScore, MaxDraft} \subseteq Nat

VARIABLES
    readable,   \* the documents that are not suppressed, of low value or late
    early,      \* those of them that only the fallback window reaches
    score,      \* document -> score_candidate
    daily,      \* the mode is daily, else one of the backfills
    lookback,   \* DAILY_DIGEST_BACKFILL_FALLBACK_LOOKBACK_DAYS is not 0
    step,       \* what comes next
    wide,       \* the fallback window is in use
    pool,       \* the documents read
    left,       \* those not looked at yet
    picked,     \* selected
    draft,      \* the documents of the issue's items
    copy,       \* every text of the issue is there
    verdict

selectionVars == <<readable, early, score, daily, lookback, step, wide, pool, left,
                   picked, draft, copy, verdict>>
dayVars == <<readable, early, score, daily, lookback>>

Picked == ToSet(picked)

SelectionInit ==
    /\ readable \in SUBSET Documents
    /\ early \in SUBSET readable
    /\ score \in [Documents -> 0 .. MaxScore]
    /\ daily \in BOOLEAN
    /\ lookback \in BOOLEAN
    /\ step = "load"
    /\ wide = FALSE
    /\ pool = {}
    /\ left = {}
    /\ picked = <<>>
    /\ draft = <<>>
    /\ copy = FALSE
    /\ verdict = "none"

\* load_candidates_for_window
LoadCandidates ==
    /\ step = "load"
    /\ pool' = IF wide THEN readable ELSE readable \ early
    /\ left' = pool'
    /\ picked' = <<>>
    /\ step' = "select"
    /\ UNCHANGED <<dayVars, wide, draft, copy, verdict>>

\* The next of the sorted candidates.
IsNext(d) == d \in left /\ \A e \in left : score[e] <= score[d]

Selecting == step = "select" /\ left # {} /\ Len(picked) < MaxItems

KeyTaken(d) == \E e \in Picked : KeyOf[e] = KeyOf[d]

FromSource(S, d) == {e \in S : SourceOf[e] = SourceOf[d]}

\* Mutant: one more than the limit.
SourceOverfull(d) == Cardinality(FromSource(Picked, d)) > SourceLimit

SourceFull(d) == Cardinality(FromSource(Picked, d)) >= SourceLimit

SkipCandidate(d) ==
    /\ Selecting
    /\ IsNext(d)
    /\ KeyTaken(d) \/ SourceFull(d)
    /\ left' = left \ {d}
    /\ UNCHANGED <<dayVars, step, wide, pool, picked, draft, copy, verdict>>

PickCandidate(d) ==
    /\ Selecting
    /\ IsNext(d)
    /\ ~KeyTaken(d)
    /\ ~SourceFull(d)
    /\ left' = left \ {d}
    /\ picked' = Append(picked, d)
    /\ UNCHANGED <<dayVars, step, wide, pool, draft, copy, verdict>>

\* Too few: a backfill looks further back once, if it is told to.
Judge ==
    /\ step = "select"
    /\ ~Selecting
    /\ \/ /\ Len(picked) >= MinItems
          /\ step' = "draft"
          /\ UNCHANGED <<wide, verdict>>
       \/ /\ Len(picked) < MinItems
          /\ ~daily /\ lookback /\ ~wide
          /\ wide' = TRUE
          /\ step' = "load"
          /\ UNCHANGED verdict
       \/ /\ Len(picked) < MinItems
          /\ daily \/ ~lookback \/ wide
          /\ verdict' = "few"
          /\ step' = "end"
          /\ UNCHANGED wide
    /\ UNCHANGED <<dayVars, pool, left, picked, draft, copy>>

\* The language model answers with items for some documents; what they are is
\* compared as a set, so one may come twice.
WriteDraft ==
    /\ step = "draft"
    /\ \E answer \in BoundedSeq(Picked, MaxDraft) :
         /\ ToSet(answer) = Picked
         /\ draft' = answer
    /\ copy' \in BOOLEAN
    /\ step' = "gate"
    /\ UNCHANGED <<dayVars, wide, pool, left, picked, verdict>>

\* The call fails, or the answer is malformed or about other documents.
DraftFails ==
    /\ step = "draft"
    /\ verdict' = "failed"
    /\ step' = "end"
    /\ UNCHANGED <<dayVars, wide, pool, left, picked, draft, copy>>

Sources(items) == {SourceOf[d] : d \in ToSet(items)}
Urls(items) == {UrlOf[d] : d \in ToSet(items)}

\* Mutant: URLs are not compared.
GateIgnoresUrls ==
    IF Len(draft) < MinItems THEN "few"
    ELSE IF Cardinality(Sources(draft)) < Min({MinSources, Len(draft)}) THEN "diversity"
    ELSE IF ~copy THEN "copy"
    ELSE "generated"

\* quality_gate_digest, in its order
Gate ==
    IF Len(draft) < MinItems THEN "few"
    ELSE IF Cardinality(Sources(draft)) < Min({MinSources, Len(draft)}) THEN "diversity"
    ELSE IF Cardinality(Urls(draft)) # Len(draft) THEN "duplicates"
    ELSE IF ~copy THEN "copy"
    ELSE "generated"

JudgeIssue ==
    /\ step = "gate"
    /\ verdict' = Gate
    /\ step' = "end"
    /\ UNCHANGED <<dayVars, wide, pool, left, picked, draft, copy>>

SelectionNext ==
    \/ LoadCandidates
    \/ \E d \in Documents : SkipCandidate(d) \/ PickCandidate(d)
    \/ Judge
    \/ WriteDraft
    \/ DraftFails
    \/ JudgeIssue

SelectionSpec == SelectionInit /\ [][SelectionNext]_selectionVars

(* ----------------------------- Properties ------------------------------ *)

AtLeast(S, d) == {e \in S : score[e] >= score[d]}

\* What the loop has picked when it ends is what its rules say of the whole
\* pool: a document is left out only for a better one of the same key, for
\* as many better ones as its source may have, or for a full issue of better
\* ones; and those picked are distinct, within the limits and the best first.
SelectionExact ==
    step \in {"draft", "gate", "end"} =>
        /\ Len(picked) <= MaxItems
        /\ \A i, j \in DOMAIN picked : i < j =>
             /\ KeyOf[picked[i]] # KeyOf[picked[j]]
             /\ score[picked[i]] >= score[picked[j]]
        /\ \A d \in Picked : Cardinality(FromSource(Picked, d)) <= SourceLimit
        /\ \A d \in pool \ Picked :
             \/ \E e \in AtLeast(Picked, d) : KeyOf[e] = KeyOf[d]
             \/ Cardinality(FromSource(AtLeast(Picked, d), d)) = SourceLimit
             \/ Len(picked) = MaxItems /\ AtLeast(Picked, d) = Picked

\* An issue that is written has each document and each URL once, enough of
\* them and from enough sources, although the model may repeat a document
\* and two sources may carry one URL.  A day is refused for lack of sources
\* only if no document it read is of another source, but as a duplicate,
\* provided that the items of too few sources cannot fill the issue.
IssueSound ==
    /\ verdict = "generated" =>
        /\ IsInjective(draft)
        /\ ToSet(draft) = Picked
        /\ Len(draft) >= MinItems
        /\ Cardinality(Urls(draft)) = Len(draft)
        /\ Cardinality(Sources(draft)) >= Min({MinSources, Len(draft)})
    /\ verdict = "diversity" /\ MaxItems > SourceLimit * (MinSources - 1) =>
        \A d \in pool : SourceOf[d] \in Sources(picked) \/ KeyTaken(d)

(* ----------- The invariant that the proofs of these rest on ------------ *)

Steps == {"load", "select", "draft", "gate", "end"}

SelectionTypeOK ==
    /\ score \in [Documents -> 0 .. MaxScore]
    /\ step \in Steps
    /\ readable \subseteq Documents
    /\ pool \subseteq Documents
    /\ left \subseteq pool
    /\ picked \in Seq(Documents)
    /\ draft \in Seq(Documents)

\* The candidates are looked at in order.
BestFirst == \A d \in pool \ left, e \in left : score[e] <= score[d]

PicksInOrder ==
    /\ Picked \subseteq pool \ left
    /\ Len(picked) <= MaxItems
    /\ \A i, j \in DOMAIN picked : i < j =>
         /\ KeyOf[picked[i]] # KeyOf[picked[j]]
         /\ score[picked[i]] >= score[picked[j]]

SourcesLimited == \A d \in Documents : Cardinality(FromSource(Picked, d)) <= SourceLimit

\* What made the loop skip a document stays true, whatever is picked later.
SkipsJust ==
    \A d \in (pool \ left) \ Picked :
        \/ \E e \in AtLeast(Picked, d) : KeyOf[e] = KeyOf[d]
        \/ Cardinality(FromSource(AtLeast(Picked, d), d)) = SourceLimit

LoopOver == step \in {"draft", "gate", "end"} => left = {} \/ Len(picked) = MaxItems

\* The verdict on an issue is the gate's on a draft of what was picked.
Judged ==
    /\ step \in {"load", "select", "draft", "gate"} => verdict = "none"
    /\ step = "gate" \/ verdict \in {"generated", "diversity"} => ToSet(draft) = Picked
    /\ verdict \in {"generated", "diversity"} => verdict = Gate

SelectionInv ==
    /\ SelectionTypeOK
    /\ BestFirst
    /\ PicksInOrder
    /\ SourcesLimited
    /\ SkipsJust
    /\ LoopOver
    /\ Judged
=============================================================================
