------------------------- MODULE AlgorithmsProofs -------------------------
(***************************************************************************)
(* Proofs about the two algorithms that make one pass over a list.         *)
(*                                                                         *)
(* BriefSelection comes first: what the loop over a day's candidates picks *)
(* and what the quality gate lets through, for every pool, score and       *)
(* setting.                                                                *)
(*                                                                         *)
(* The rest is about Chunking, for every text, every length of a chunk and *)
(* every overlap: induction, concatenations and sums; then what the module *)
(* makes of fragments (their length, the end of a text, the pieces of a    *)
(* paragraph, paths of headings); then the parts of ChunkingInv, action by *)
(* action; and the theorems.                                               *)
(***************************************************************************)
EXTENDS Chunking, BriefSelection, FiniteSetTheorems, SequenceTheorems,
        WellFoundedInduction, TLAPS

-----------------------------------------------------------------------------
(* Lists and the sets of what they list *)

\* A list lists finitely many things, as many as it is long if none is repeated.
LEMMA Listed ==
    ASSUME NEW S, NEW s \in Seq(S)
    PROVE  /\ ToSet(s) \subseteq S
           /\ DOMAIN s = 1 .. Len(s) /\ Len(s) \in Nat
           /\ IsFiniteSet(ToSet(s)) /\ Cardinality(ToSet(s)) \in Nat
           /\ Cardinality(ToSet(s)) <= Len(s)
           /\ Cardinality(ToSet(s)) = Len(s) <=> IsInjective(s)
  <1>1. DOMAIN s = 1 .. Len(s) /\ Len(s) \in Nat
    BY LenProperties
  <1>2. ToSet(s) \subseteq S
    BY <1>1, ElementOfSeq DEF ToSet
  <1>3. IsFiniteSet(1 .. Len(s)) /\ Cardinality(1 .. Len(s)) = Len(s)
    BY <1>1, FS_Interval
  <1>4. s \in [1 .. Len(s) -> ToSet(s)]
    <2>1. s \in [1 .. Len(s) -> S]
      BY LenProperties
    <2>2. \A i \in 1 .. Len(s) : s[i] \in ToSet(s)
      BY <1>1 DEF ToSet
    <2> QED
      BY <2>1, <2>2
  <1>5. s \in Surjection(1 .. Len(s), ToSet(s))
    BY <1>1, <1>4 DEF Surjection, ToSet
  <1>6. /\ IsFiniteSet(ToSet(s))
        /\ Cardinality(ToSet(s)) <= Len(s)
        /\ Cardinality(ToSet(s)) = Len(s) <=> s \in Injection(1 .. Len(s), ToSet(s))
    BY <1>3, <1>5, FS_Surjection
  <1>7. s \in Injection(1 .. Len(s), ToSet(s)) <=> IsInjective(s)
    BY <1>4 DEF Injection
  <1>8. Cardinality(ToSet(s)) \in Nat
    BY <1>6, FS_CardinalityType
  <1> QED
    BY <1>1, <1>2, <1>6, <1>7, <1>8

\* A list that grows lists one thing more.
LEMMA ListedMore ==
    ASSUME NEW S, NEW s \in Seq(S), NEW d \in S
    PROVE  /\ Append(s, d) \in Seq(S)
           /\ Len(Append(s, d)) = Len(s) + 1
           /\ \A i \in 1 .. Len(s) : Append(s, d)[i] = s[i]
           /\ Append(s, d)[Len(s) + 1] = d
           /\ ToSet(Append(s, d)) = ToSet(s) \cup {d}
  <1>1. /\ Append(s, d) \in Seq(S) /\ Len(Append(s, d)) = Len(s) + 1
        /\ \A i \in 1 .. Len(s) : Append(s, d)[i] = s[i]
        /\ Append(s, d)[Len(s) + 1] = d
    BY AppendProperties
  <1>2. /\ DOMAIN s = 1 .. Len(s) /\ Len(s) \in Nat
        /\ DOMAIN Append(s, d) = 1 .. (Len(s) + 1)
    BY <1>1, LenProperties
  <1>3. \A i \in 1 .. (Len(s) + 1) : i \in 1 .. Len(s) \/ i = Len(s) + 1
    BY <1>2
  <1>4. 1 .. Len(s) \subseteq 1 .. (Len(s) + 1) /\ Len(s) + 1 \in 1 .. (Len(s) + 1)
    BY <1>2
  <1>5. ToSet(Append(s, d)) \subseteq ToSet(s) \cup {d}
    <2> HIDE DEF ToSet
    <2> SUFFICES ASSUME NEW i \in 1 .. (Len(s) + 1)
                 PROVE  Append(s, d)[i] \in ToSet(s) \cup {d}
      BY <1>2 DEF ToSet
    <2>1. CASE i \in 1 .. Len(s)
      BY <1>1, <1>2, <2>1 DEF ToSet
    <2>2. CASE i = Len(s) + 1
      BY <1>1, <2>2
    <2> QED
      BY <1>3, <2>1, <2>2
  <1>6. ToSet(s) \subseteq ToSet(Append(s, d))
    <2> SUFFICES ASSUME NEW i \in 1 .. Len(s)
                 PROVE  s[i] \in ToSet(Append(s, d))
      BY <1>2 DEF ToSet
    <2>1. s[i] = Append(s, d)[i] /\ i \in DOMAIN Append(s, d)
      BY <1>1, <1>2, <1>4
    <2> QED
      BY <2>1 DEF ToSet
  <1>7. d \in ToSet(Append(s, d))
    BY <1>1, <1>2, <1>4 DEF ToSet
  <1> QED
    BY <1>1, <1>5, <1>6, <1>7

\* A list of what a list maps to is no longer than the list, and shorter if
\* something is repeated.
LEMMA Mapped ==
    ASSUME NEW S, NEW s \in Seq(S), NEW f
    PROVE  LET T == {f[d] : d \in ToSet(s)}
           IN  /\ IsFiniteSet(T)
               /\ Cardinality(T) \in Nat
               /\ Cardinality(T) <= Cardinality(ToSet(s))
  <1> DEFINE T == {f[d] : d \in ToSet(s)}
             g == [d \in ToSet(s) |-> f[d]]
  <1>1. IsFiniteSet(ToSet(s))
    BY Listed
  <1>2. g \in [ToSet(s) -> T] /\ \A t \in T : \E d \in ToSet(s) : g[d] = t
    OBVIOUS
  <1>3. g \in Surjection(ToSet(s), T)
    BY <1>2 DEF Surjection
  <1> HIDE DEF g, T
  <1>4. IsFiniteSet(T) /\ Cardinality(T) <= Cardinality(ToSet(s))
    BY <1>1, <1>3, FS_Surjection
  <1>5. Cardinality(T) \in Nat
    BY <1>4, FS_CardinalityType
  <1> QED
    BY <1>4, <1>5 DEF T

-----------------------------------------------------------------------------
(* The invariant *)

\* The initial state satisfies it.
LEMMA SelectionInvInit == SelectionInit => SelectionInv
  <1> SUFFICES ASSUME SelectionInit PROVE SelectionInv
    OBVIOUS
  <1>1. /\ picked = <<>> /\ draft = <<>> /\ pool = {} /\ left = {}
        /\ step = "load" /\ verdict = "none"
    BY DEF SelectionInit
  <1>2. SelectionTypeOK
    BY <1>1 DEF SelectionInit, SelectionTypeOK, Steps
  <1>3. Len(picked) = 0 /\ DOMAIN picked = {}
    BY <1>1
  <1>4. Picked = {}
    BY <1>3 DEF Picked, ToSet
  <1>5. BestFirst /\ SkipsJust /\ LoopOver /\ Judged
    BY <1>1 DEF BestFirst, SkipsJust, LoopOver, Judged
  <1>6. PicksInOrder
    BY <1>1, <1>3, <1>4, SelectionAssumption DEF PicksInOrder
  <1>7. SourcesLimited
    <2>1. \A d \in Documents : FromSource(Picked, d) = {}
      BY <1>4 DEF FromSource
    <2> QED
      BY <2>1, FS_EmptySet, SelectionAssumption DEF SourcesLimited
  <1> QED
    BY <1>2, <1>5, <1>6, <1>7 DEF SelectionInv

\* Every action keeps the types.
LEMMA SelectionTypeStep ==
    ASSUME SelectionTypeOK, [SelectionNext]_selectionVars
    PROVE  SelectionTypeOK'
  <1> USE DEF SelectionTypeOK, Steps, dayVars
  <1>1. CASE LoadCandidates
    BY <1>1 DEF LoadCandidates
  <1>2. ASSUME NEW d \in Documents, SkipCandidate(d) PROVE SelectionTypeOK'
    BY <1>2 DEF SkipCandidate
  <1>3. ASSUME NEW d \in Documents, PickCandidate(d) PROVE SelectionTypeOK'
    BY <1>3 DEF PickCandidate
  <1>4. CASE Judge
    BY <1>4 DEF Judge
  <1>5. CASE WriteDraft
    <2>1. PICK answer \in BoundedSeq(Picked, MaxDraft) : draft' = answer
      BY <1>5 DEF WriteDraft
    <2>2. PICK m \in 0 .. MaxDraft : answer \in [1 .. m -> Picked]
      BY <2>1 DEF BoundedSeq, SeqOf
    <2>3. Picked \subseteq Documents
      BY Listed DEF Picked
    <2>4. m \in Nat /\ answer \in [1 .. m -> Documents]
      BY <2>2, <2>3, SelectionAssumption
    <2>5. draft' \in Seq(Documents)
      BY <2>1, <2>4, SeqDef
    <2> QED
      BY <1>5, <2>5 DEF WriteDraft
  <1>6. CASE DraftFails
    BY <1>6 DEF DraftFails
  <1>7. CASE JudgeIssue
    BY <1>7 DEF JudgeIssue
  <1>8. CASE UNCHANGED selectionVars
    BY <1>8 DEF selectionVars
  <1> QED
    BY <1>1, <1>2, <1>3, <1>4, <1>5, <1>6, <1>7, <1>8 DEF SelectionNext

\* What is picked is finite, and the best that is left is no better.
LEMMA PicksAreBetter ==
    ASSUME SelectionInv
    PROVE  /\ Picked \subseteq Documents /\ IsFiniteSet(Picked)
           /\ DOMAIN picked = 1 .. Len(picked) /\ Len(picked) \in Nat
           /\ \A d \in left : AtLeast(Picked, d) = Picked
  <1>1. /\ Picked \subseteq Documents /\ IsFiniteSet(Picked)
        /\ DOMAIN picked = 1 .. Len(picked) /\ Len(picked) \in Nat
    BY Listed DEF SelectionInv, SelectionTypeOK, Picked
  <1>2. ASSUME NEW d \in left PROVE AtLeast(Picked, d) = Picked
    <2>1. \A e \in Picked : score[d] <= score[e]
      BY DEF SelectionInv, PicksInOrder, BestFirst
    <2>2. \A e \in Picked : score[d] \in Int /\ score[e] \in Int
      BY <1>1 DEF SelectionInv, SelectionTypeOK
    <2>3. \A e \in Picked : score[e] >= score[d]
      BY <2>1, <2>2
    <2> QED
      BY <2>3 DEF AtLeast
  <1> QED
    BY <1>1, <1>2

\* Those of a source are finitely many, and fewer among fewer documents.
LEMMA SharesOfSource ==
    ASSUME NEW S, IsFiniteSet(S), NEW R \in SUBSET S, NEW d
    PROVE  /\ FromSource(R, d) \subseteq FromSource(S, d)
           /\ IsFiniteSet(FromSource(S, d)) /\ IsFiniteSet(FromSource(R, d))
           /\ Cardinality(FromSource(S, d)) \in Nat
           /\ Cardinality(FromSource(R, d)) \in Nat
           /\ Cardinality(FromSource(R, d)) <= Cardinality(FromSource(S, d))
  <1>1. FromSource(R, d) \subseteq FromSource(S, d) /\ FromSource(S, d) \subseteq S
    BY DEF FromSource
  <1>2. IsFiniteSet(FromSource(S, d))
    BY <1>1, FS_Subset
  <1>3. /\ IsFiniteSet(FromSource(R, d))
        /\ Cardinality(FromSource(R, d)) <= Cardinality(FromSource(S, d))
    BY <1>1, <1>2, FS_Subset
  <1> QED
    BY <1>1, <1>2, <1>3, FS_CardinalityType

\* The candidates of a window are read.
LEMMA LoadKeepsSelection == SelectionInv /\ LoadCandidates => SelectionInv'
  <1> SUFFICES ASSUME SelectionInv, LoadCandidates PROVE SelectionInv'
    OBVIOUS
  <1>1. SelectionTypeOK'
    BY SelectionTypeStep DEF SelectionInv, SelectionNext
  <1>2. /\ step' = "select" /\ left' = pool' /\ picked' = <<>>
        /\ step = "load" /\ UNCHANGED <<verdict, draft>>
    BY DEF LoadCandidates
  <1>3. Len(picked') = 0 /\ DOMAIN picked' = {} /\ Picked' = {}
    BY <1>2 DEF Picked, ToSet
  <1>4. BestFirst' /\ SkipsJust' /\ LoopOver'
    BY <1>2 DEF BestFirst, SkipsJust, LoopOver
  <1>5. PicksInOrder'
    BY <1>3, SelectionAssumption DEF PicksInOrder
  <1>6. SourcesLimited'
    <2>1. \A d \in Documents : FromSource(Picked', d) = {}
      BY <1>3 DEF FromSource
    <2> QED
      BY <2>1, FS_EmptySet, SelectionAssumption DEF SourcesLimited
  <1>7. Judged'
    BY <1>2 DEF SelectionInv, Judged
  <1> QED
    BY <1>1, <1>4, <1>5, <1>6, <1>7 DEF SelectionInv

\* A candidate is skipped for its key or its source.
LEMMA SkipKeepsSelection ==
    ASSUME NEW d \in Documents, SelectionInv, SkipCandidate(d)
    PROVE  SelectionInv'
  <1>1. SelectionTypeOK'
    BY SelectionTypeStep DEF SelectionInv, SelectionNext
  <1>2. /\ step = "select" /\ d \in left /\ left' = left \ {d}
        /\ UNCHANGED <<step, pool, picked, draft, score, verdict, copy>>
        /\ \A e \in left : score[e] <= score[d]
        /\ KeyTaken(d) \/ SourceFull(d)
    BY DEF SkipCandidate, Selecting, IsNext, dayVars
  <1>3. Picked' = Picked
    BY <1>2 DEF Picked
  <1>4. BestFirst'
    BY <1>2 DEF SelectionInv, BestFirst
  <1>5. PicksInOrder'
    BY <1>2, <1>3 DEF SelectionInv, PicksInOrder
  <1>6. SourcesLimited'
    BY <1>3 DEF SelectionInv, SourcesLimited
  <1>7. LoopOver' /\ Judged'
    BY <1>2 DEF SelectionInv, LoopOver, Judged
  <1>8. SkipsJust'
    <2> SUFFICES ASSUME NEW c \in (pool \ left') \ Picked
                 PROVE  \/ \E e \in AtLeast(Picked, c) : KeyOf[e] = KeyOf[c]
                        \/ Cardinality(FromSource(AtLeast(Picked, c), c)) = SourceLimit
      BY <1>2, <1>3 DEF SkipsJust, AtLeast
    <2>1. CASE c # d
      BY <1>2, <2>1 DEF SelectionInv, SkipsJust
    <2>2. CASE c = d /\ KeyTaken(d)
      BY <1>2, <2>2, PicksAreBetter DEF KeyTaken
    <2>3. CASE c = d /\ SourceFull(d)
      <3>1. AtLeast(Picked, c) = Picked
        BY <1>2, <2>3, PicksAreBetter
      <3>2. Cardinality(FromSource(Picked, d)) \in Nat
        BY PicksAreBetter, SharesOfSource
      <3>3. Cardinality(FromSource(Picked, d)) <= SourceLimit
        BY DEF SelectionInv, SourcesLimited
      <3> QED
        BY <2>3, <3>1, <3>2, <3>3, SelectionAssumption DEF SourceFull
    <2> QED
      BY <1>2, <2>1, <2>2, <2>3
  <1> QED
    BY <1>1, <1>4, <1>5, <1>6, <1>7, <1>8 DEF SelectionInv

\* A candidate is picked: it is no better than those before it, and whatever
\* was skipped was skipped for better ones, of its key or of another source.
LEMMA PickKeepsSelection ==
    ASSUME NEW d \in Documents, SelectionInv, PickCandidate(d)
    PROVE  SelectionInv'
  <1>1. SelectionTypeOK'
    BY SelectionTypeStep DEF SelectionInv, SelectionNext
  <1>2. /\ step = "select" /\ d \in left /\ left' = left \ {d}
        /\ UNCHANGED <<step, pool, draft, score, verdict, copy>>
        /\ picked' = Append(picked, d) /\ Len(picked) < MaxItems
        /\ \A e \in left : score[e] <= score[d]
        /\ ~KeyTaken(d) /\ ~SourceFull(d)
    BY DEF PickCandidate, Selecting, IsNext, dayVars
  <1>3. /\ Picked' = Picked \cup {d} /\ Len(picked') = Len(picked) + 1
        /\ \A i \in 1 .. Len(picked) : picked'[i] = picked[i]
        /\ picked'[Len(picked) + 1] = d
        /\ DOMAIN picked = 1 .. Len(picked) /\ Len(picked) \in Nat
        /\ DOMAIN picked' = 1 .. (Len(picked) + 1)
        /\ IsFiniteSet(Picked) /\ IsFiniteSet(Picked') /\ Picked \subseteq Documents
    <2>1. picked \in Seq(Documents) /\ picked' \in Seq(Documents)
      BY <1>1 DEF SelectionInv, SelectionTypeOK
    <2>2. /\ DOMAIN picked = 1 .. Len(picked) /\ Len(picked) \in Nat
          /\ IsFiniteSet(Picked) /\ Picked \subseteq Documents
      BY <2>1, Listed DEF Picked
    <2>3. IsFiniteSet(Picked') /\ DOMAIN picked' = 1 .. Len(picked')
      BY <2>1, Listed DEF Picked
    <2>4. /\ Picked' = Picked \cup {d} /\ Len(picked') = Len(picked) + 1
          /\ \A i \in 1 .. Len(picked) : picked'[i] = picked[i]
          /\ picked'[Len(picked) + 1] = d
      BY <1>2, <2>1, ListedMore DEF Picked
    <2> QED
      BY <2>2, <2>3, <2>4
  <1>4. left \subseteq pool /\ \A e \in Documents : score[e] \in Nat
    BY SelectionAssumption DEF SelectionInv, SelectionTypeOK
  <1>5. BestFirst'
    BY <1>2 DEF SelectionInv, BestFirst
  <1>6. PicksInOrder'
    <2>1. Picked' \subseteq pool' \ left'
      BY <1>2, <1>3, <1>4 DEF SelectionInv, PicksInOrder
    <2>2. Len(picked') <= MaxItems
      BY <1>2, <1>3, SelectionAssumption
    <2>3. ASSUME NEW i \in 1 .. (Len(picked) + 1), NEW j \in 1 .. (Len(picked) + 1), i < j
          PROVE  /\ KeyOf[picked'[i]] # KeyOf[picked'[j]]
                 /\ score[picked'[i]] >= score[picked'[j]]
      <3>1. i \in 1 .. Len(picked) /\ picked'[i] = picked[i]
        BY <1>3, <2>3
      <3>2. CASE j \in 1 .. Len(picked)
        BY <1>3, <2>3, <3>1, <3>2 DEF SelectionInv, PicksInOrder
      <3>3. CASE j = Len(picked) + 1
        <4>1. picked[i] \in Picked
          BY <1>3, <3>1 DEF Picked, ToSet
        <4>2. KeyOf[picked[i]] # KeyOf[d]
          BY <1>2, <4>1 DEF KeyTaken
        <4>3. score[d] <= score[picked[i]]
          BY <1>2, <4>1 DEF SelectionInv, PicksInOrder, BestFirst
        <4>4. score[d] \in Nat /\ score[picked[i]] \in Nat
          BY <1>3, <1>4, <4>1
        <4>5. score[picked[i]] >= score[d]
          BY <4>3, <4>4
        <4> QED
          BY <1>3, <3>1, <3>3, <4>2, <4>5
      <3>4. j \in 1 .. Len(picked) \/ j = Len(picked) + 1
        BY <1>3
      <3> QED
        BY <3>2, <3>3, <3>4
    <2> QED
      BY <1>2, <1>3, <2>1, <2>2, <2>3 DEF PicksInOrder
  <1>7. SourcesLimited'
    <2> SUFFICES ASSUME NEW c \in Documents
                 PROVE  Cardinality(FromSource(Picked \cup {d}, c)) <= SourceLimit
      BY <1>3 DEF SourcesLimited
    <2>1. /\ Cardinality(FromSource(Picked, c)) <= SourceLimit
          /\ Cardinality(FromSource(Picked, c)) \in Nat
          /\ IsFiniteSet(FromSource(Picked, c))
      BY <1>3, SharesOfSource DEF SelectionInv, SourcesLimited
    <2>2. CASE SourceOf[c] = SourceOf[d]
      <3>1. /\ FromSource(Picked, c) = FromSource(Picked, d)
            /\ FromSource(Picked \cup {d}, c) = FromSource(Picked, c) \cup {d}
        BY <2>2 DEF FromSource
      <3>2. Cardinality(FromSource(Picked, c)) < SourceLimit
        BY <1>2, <2>1, <3>1, SelectionAssumption DEF SourceFull
      <3>3. \/ Cardinality(FromSource(Picked, c) \cup {d}) = Cardinality(FromSource(Picked, c))
            \/ Cardinality(FromSource(Picked, c) \cup {d}) = Cardinality(FromSource(Picked, c)) + 1
        BY <2>1, FS_AddElement
      <3>4. SourceLimit \in Nat
        BY SelectionAssumption
      <3>5. Cardinality(FromSource(Picked, c) \cup {d}) <= SourceLimit
        BY <2>1, <3>2, <3>3, <3>4
      <3> QED
        BY <3>1, <3>5
    <2>3. CASE SourceOf[c] # SourceOf[d]
      <3>1. FromSource(Picked \cup {d}, c) = FromSource(Picked, c)
        BY <2>3 DEF FromSource
      <3> QED
        BY <2>1, <3>1
    <2> QED
      BY <2>2, <2>3
  <1>8. SkipsJust'
    <2> SUFFICES ASSUME NEW c \in (pool \ left) \ Picked, c # d
                 PROVE  \/ \E e \in AtLeast(Picked', c) : KeyOf[e] = KeyOf[c]
                        \/ Cardinality(FromSource(AtLeast(Picked', c), c)) = SourceLimit
      BY <1>2, <1>3 DEF SkipsJust, AtLeast
    <2>1. AtLeast(Picked, c) \subseteq AtLeast(Picked', c) /\ AtLeast(Picked', c) \subseteq Picked'
      BY <1>3 DEF AtLeast
    <2>2. CASE \E e \in AtLeast(Picked, c) : KeyOf[e] = KeyOf[c]
      BY <2>1, <2>2
    <2>3. CASE Cardinality(FromSource(AtLeast(Picked, c), c)) = SourceLimit
      <3>1. /\ IsFiniteSet(AtLeast(Picked', c))
            /\ AtLeast(Picked', c) \in SUBSET Picked'
            /\ AtLeast(Picked, c) \in SUBSET AtLeast(Picked', c)
        BY <1>3, <2>1, FS_Subset
      <3>2. /\ Cardinality(FromSource(AtLeast(Picked', c), c)) \in Nat
            /\ SourceLimit <= Cardinality(FromSource(AtLeast(Picked', c), c))
        BY <2>3, <3>1, SharesOfSource
      <3>3. /\ Cardinality(FromSource(AtLeast(Picked', c), c))
                 <= Cardinality(FromSource(Picked', c))
            /\ Cardinality(FromSource(Picked', c)) \in Nat
        BY <1>3, <3>1, SharesOfSource
      <3>4. Cardinality(FromSource(Picked', c)) <= SourceLimit
        BY <1>7 DEF SourcesLimited, SelectionInv, SelectionTypeOK
      <3> QED
        BY <3>2, <3>3, <3>4, SelectionAssumption
    <2> QED
      BY <2>2, <2>3 DEF SelectionInv, SkipsJust
  <1>9. LoopOver' /\ Judged'
    BY <1>2 DEF SelectionInv, LoopOver, Judged
  <1> QED
    BY <1>1, <1>5, <1>6, <1>7, <1>8, <1>9 DEF SelectionInv

\* What does not touch the pool or the picks keeps what is said of them.
LEMMA PicksStand ==
    ASSUME SelectionInv, UNCHANGED <<dayVars, pool, left, picked>>
    PROVE  BestFirst' /\ PicksInOrder' /\ SourcesLimited' /\ SkipsJust'
  <1>1. Picked' = Picked
    BY DEF Picked
  <1> QED
    BY <1>1
    DEF SelectionInv, BestFirst, PicksInOrder, SourcesLimited, SkipsJust, AtLeast, dayVars

\* The other actions: the picks are judged, written up, judged again.
LEMMA RestKeepsSelection ==
    ASSUME SelectionInv, Judge \/ WriteDraft \/ DraftFails \/ JudgeIssue
    PROVE  SelectionInv'
  <1>1. SelectionTypeOK'
    BY SelectionTypeStep DEF SelectionInv, SelectionNext
  <1>2. UNCHANGED <<dayVars, pool, left, picked>>
    BY DEF Judge, WriteDraft, DraftFails, JudgeIssue
  <1>3. BestFirst' /\ PicksInOrder' /\ SourcesLimited' /\ SkipsJust'
    BY <1>2, PicksStand
  <1>4. Picked' = Picked
    BY <1>2 DEF Picked
  <1>5. LoopOver'
    <2>1. CASE Judge
      <3>1. left = {} \/ Len(picked) = MaxItems
        <4>1. Len(picked) <= MaxItems /\ Len(picked) \in Nat
          BY PicksAreBetter DEF SelectionInv, PicksInOrder
        <4> QED
          BY <2>1, <4>1, SelectionAssumption DEF Judge, Selecting
      <3> QED
        BY <1>2, <3>1 DEF LoopOver
    <2>2. CASE WriteDraft \/ DraftFails \/ JudgeIssue
      BY <1>2, <2>2 DEF SelectionInv, LoopOver, WriteDraft, DraftFails, JudgeIssue
    <2> QED
      BY <2>1, <2>2
  <1>6. Judged'
    <2>1. CASE Judge
      <3>1. step = "select" /\ verdict = "none"
        BY <2>1 DEF Judge, SelectionInv, Judged
      <3>2. /\ step' \in {"draft", "load", "end"} /\ verdict' \in {"none", "few"}
            /\ step' # "end" => verdict' = "none"
        BY <2>1, <3>1 DEF Judge
      <3> QED
        BY <3>2 DEF Judged
    <2>2. CASE WriteDraft
      <3>1. ToSet(draft') = Picked /\ verdict' = verdict /\ verdict = "none"
        BY <2>2 DEF WriteDraft, SelectionInv, Judged
      <3> QED
        BY <1>4, <3>1 DEF Judged
    <2>3. CASE DraftFails
      BY <2>3 DEF DraftFails, Judged
    <2>4. CASE JudgeIssue
      <3>1. /\ step' = "end" /\ verdict' = Gate /\ draft' = draft /\ copy' = copy
            /\ ToSet(draft) = Picked
        BY <2>4 DEF JudgeIssue, SelectionInv, Judged
      <3>2. Gate' = Gate
        BY <3>1 DEF Gate, Sources, Urls
      <3> QED
        BY <1>4, <3>1, <3>2 DEF Judged
    <2> QED
      BY <2>1, <2>2, <2>3, <2>4
  <1> QED
    BY <1>1, <1>3, <1>5, <1>6 DEF SelectionInv

\* Every step keeps the invariant.
LEMMA SelectionInvNext == SelectionInv /\ [SelectionNext]_selectionVars => SelectionInv'
  <1> SUFFICES ASSUME SelectionInv, [SelectionNext]_selectionVars PROVE SelectionInv'
    OBVIOUS
  <1>1. CASE UNCHANGED selectionVars
    <2>1. SelectionTypeOK'
      BY SelectionTypeStep DEF SelectionInv
    <2>2. BestFirst' /\ PicksInOrder' /\ SourcesLimited' /\ SkipsJust'
      BY <1>1, PicksStand DEF selectionVars, dayVars
    <2>3. Picked' = Picked /\ Gate' = Gate
      BY <1>1 DEF selectionVars, Picked, Gate, Sources, Urls
    <2>4. LoopOver' /\ Judged'
      BY <1>1, <2>3 DEF selectionVars, SelectionInv, LoopOver, Judged
    <2> QED
      BY <2>1, <2>2, <2>4 DEF SelectionInv
  <1> QED
    BY <1>1, LoadKeepsSelection, SkipKeepsSelection, PickKeepsSelection, RestKeepsSelection
    DEF SelectionNext

\* The loop looks at the best first, and what it has skipped it had reason to
\* (digest_generator.py, select_distinct_candidates, generate_digest_for_day).
THEOREM SelectionInvariance == SelectionSpec => []SelectionInv
  BY SelectionInvInit, SelectionInvNext, PTL DEF SelectionSpec

-----------------------------------------------------------------------------
(* What is picked *)

\* What is picked when the loop ends is what its rules say of the whole pool,
\* whatever the scores and however they tie
(* (digest_generator.py, select_distinct_candidates). *)
THEOREM SelectionIsExact == SelectionSpec => []SelectionExact
  <1> SUFFICES SelectionInv => SelectionExact
    BY SelectionInvariance, PTL
  <1> SUFFICES ASSUME SelectionInv, step \in {"draft", "gate", "end"},
                      left = {} \/ Len(picked) = MaxItems
               PROVE  SelectionExact
    BY DEF SelectionInv, LoopOver, SelectionExact
  <1>1. \A d \in Picked : Cardinality(FromSource(Picked, d)) <= SourceLimit
    BY PicksAreBetter DEF SelectionInv, SourcesLimited
  <1>2. ASSUME NEW d \in pool \ Picked
        PROVE  \/ \E e \in AtLeast(Picked, d) : KeyOf[e] = KeyOf[d]
               \/ Cardinality(FromSource(AtLeast(Picked, d), d)) = SourceLimit
               \/ Len(picked) = MaxItems /\ AtLeast(Picked, d) = Picked
    <2>1. CASE d \in left
      BY <2>1, PicksAreBetter
    <2>2. CASE d \notin left
      BY <2>2 DEF SelectionInv, SkipsJust
    <2> QED
      BY <2>1, <2>2
  <1> QED
    BY <1>1, <1>2 DEF SelectionExact, SelectionInv, PicksInOrder

\* No document is picked twice.
LEMMA PicksDistinct ==
    ASSUME SelectionInv
    PROVE  IsInjective(picked) /\ Cardinality(Picked) = Len(picked)
  <1>1. DOMAIN picked = 1 .. Len(picked) /\ Len(picked) \in Nat
    BY PicksAreBetter
  <1>2. ASSUME NEW i \in 1 .. Len(picked), NEW j \in 1 .. Len(picked), picked[i] = picked[j]
        PROVE  i = j
    <2>1. ~(i < j) /\ ~(j < i)
      BY <1>1, <1>2 DEF SelectionInv, PicksInOrder
    <2> QED
      BY <1>1, <2>1
  <1>3. IsInjective(picked)
    BY <1>1, <1>2 DEF IsInjective
  <1> QED
    BY <1>3, Listed DEF SelectionInv, SelectionTypeOK, Picked

\* So many sources, each up to its limit: give each pick its place among those
\* of its source up to it, and no two have source and place in common.
LEMMA SourcesFill ==
    ASSUME SelectionInv
    PROVE  /\ Cardinality(Sources(picked)) \in Nat
           /\ Len(picked) <= Cardinality(Sources(picked)) * SourceLimit
  <1> DEFINE N == 1 .. Len(picked)
             Upto(i) == {j \in 1 .. i : SourceOf[picked[j]] = SourceOf[picked[i]]}
             Slots == Sources(picked) \X (1 .. SourceLimit)
             slot == [i \in N |-> <<SourceOf[picked[i]], Cardinality(Upto(i))>>]
  <1>1. /\ picked \in Seq(Documents) /\ DOMAIN picked = N /\ Len(picked) \in Nat
        /\ IsFiniteSet(Picked) /\ \A i \in N : picked[i] \in Picked /\ picked[i] \in Documents
    <2>1. picked \in Seq(Documents) /\ DOMAIN picked = N
      BY PicksAreBetter DEF SelectionInv, SelectionTypeOK
    <2>2. \A i \in N : picked[i] \in Picked
      BY <2>1 DEF Picked, ToSet
    <2> QED
      BY <2>1, <2>2, PicksAreBetter
  <1>2. IsInjective(picked)
    BY PicksDistinct
  <1>3. SourceLimit \in Nat /\ SourceLimit >= 1
    BY SelectionAssumption
  <1>4. ASSUME NEW i \in N
        PROVE  /\ IsFiniteSet(Upto(i)) /\ i \in Upto(i) /\ Upto(i) \subseteq N
               /\ Cardinality(Upto(i)) \in 1 .. SourceLimit
    <2>1. /\ i \in Nat /\ Upto(i) \subseteq 1 .. i /\ i \in Upto(i) /\ Upto(i) \subseteq N
      BY <1>1
    <2>2. IsFiniteSet(1 .. i)
      BY <2>1, FS_Interval
    <2>3. IsFiniteSet(Upto(i))
      BY <2>1, <2>2, FS_Subset
    <2> DEFINE here == [j \in Upto(i) |-> picked[j]]
               there == FromSource(Picked, picked[i])
    <2>4. here \in Injection(Upto(i), there)
      <3>1. \A j \in Upto(i) : picked[j] \in there
        BY <1>1, <2>1 DEF FromSource
      <3>2. here \in [Upto(i) -> there]
        BY <3>1
      <3>3. \A j, k \in Upto(i) : here[j] = here[k] => j = k
        BY <1>1, <1>2, <2>1 DEF IsInjective
      <3>4. DOMAIN here = Upto(i)
        OBVIOUS
      <3> HIDE DEF here
      <3>5. IsInjective(here)
        BY <3>3, <3>4 DEF IsInjective
      <3> QED
        BY <3>2, <3>5 DEF Injection
    <2>5. IsFiniteSet(there) /\ Cardinality(there) \in Nat
      BY <1>1, SharesOfSource
    <2>6. Cardinality(there) <= SourceLimit
      BY <1>1 DEF SelectionInv, SourcesLimited
    <2> HIDE DEF here, there, Upto
    <2>7. Cardinality(Upto(i)) <= Cardinality(there)
      BY <2>4, <2>5, FS_Injection
    <2>8. Cardinality(Upto(i)) \in Nat /\ Cardinality(Upto(i)) # 0
      BY <2>1, <2>3, FS_CardinalityType, FS_EmptySet
    <2> QED
      BY <1>3, <2>1, <2>3, <2>5, <2>6, <2>7, <2>8
  <1>5. ASSUME NEW i \in N, NEW j \in N, i < j, SourceOf[picked[i]] = SourceOf[picked[j]]
        PROVE  Cardinality(Upto(i)) # Cardinality(Upto(j))
    <2>1. Upto(i) \subseteq Upto(j) /\ j \notin Upto(i) /\ j \in Upto(j)
      BY <1>1, <1>5
    <2> HIDE DEF Upto
    <2> QED
      BY <1>4, <2>1, FS_Subset
  <1>6. slot \in Injection(N, Slots)
    <2>1. \A i \in N : SourceOf[picked[i]] \in Sources(picked)
      BY <1>1 DEF Sources, Picked
    <2> HIDE DEF Upto
    <2>2. slot \in [N -> Slots]
      BY <1>4, <2>1
    <2>3. ASSUME NEW i \in N, NEW j \in N, slot[i] = slot[j]
          PROVE  i = j
      <3>1. /\ SourceOf[picked[i]] = SourceOf[picked[j]]
            /\ Cardinality(Upto(i)) = Cardinality(Upto(j))
        BY <2>3
      <3>2. ~(i < j) /\ ~(j < i)
        BY <1>5, <3>1
      <3> QED
        BY <1>1, <3>2
    <2>4. DOMAIN slot = N
      OBVIOUS
    <2> HIDE DEF slot, Slots
    <2>5. IsInjective(slot)
      BY <2>3, <2>4 DEF IsInjective
    <2> QED
      BY <2>2, <2>5 DEF Injection
  <1>7. IsFiniteSet(Sources(picked)) /\ Cardinality(Sources(picked)) \in Nat
    BY <1>1, Mapped DEF Sources
  <1>8. /\ IsFiniteSet(1 .. SourceLimit)
        /\ Cardinality(1 .. SourceLimit) = SourceLimit
    BY <1>3, FS_Interval
  <1>9. /\ IsFiniteSet(Slots)
        /\ Cardinality(Slots) = Cardinality(Sources(picked)) * SourceLimit
    BY <1>7, <1>8, FS_Product
  <1>10. Cardinality(N) = Len(picked)
    BY <1>1, FS_Interval
  <1> HIDE DEF slot, Slots, N
  <1>11. Cardinality(N) <= Cardinality(Slots)
    BY <1>6, <1>9, FS_Injection
  <1> QED
    BY <1>7, <1>9, <1>10, <1>11

-----------------------------------------------------------------------------
(* What is written *)

\* The least of two numbers.
LEMMA LeastOfTwo ==
    ASSUME NEW a \in Nat, NEW b \in Nat
    PROVE  Min({a, b}) \in {a, b} /\ Min({a, b}) <= a /\ Min({a, b}) <= b
  <1>1. \E x \in {a, b} : \A y \in {a, b} : x <= y
    <2>1. CASE a <= b
      BY <2>1
    <2>2. CASE b <= a
      BY <2>2
    <2> QED
      BY <2>1, <2>2
  <1>2. \A y \in {a, b} : Min({a, b}) <= y
    BY <1>1 DEF Min
  <1>3. Min({a, b}) \in {a, b}
    BY <1>1 DEF Min
  <1> QED
    BY <1>2, <1>3

\* The numbers that the gate compares.
LEMMA GateNumbers ==
    ASSUME SelectionInv
    PROVE  /\ Len(draft) \in Nat
           /\ Cardinality(Urls(draft)) \in Nat
           /\ Cardinality(Urls(draft)) <= Cardinality(ToSet(draft))
           /\ Cardinality(Sources(draft)) \in Nat
           /\ Min({MinSources, Len(draft)}) \in Nat
           /\ Min({MinSources, Len(draft)}) <= MinSources
  <1>1. draft \in Seq(Documents) /\ Len(draft) \in Nat
    BY Listed DEF SelectionInv, SelectionTypeOK
  <1>2. Cardinality(Urls(draft)) \in Nat /\ Cardinality(Urls(draft)) <= Cardinality(ToSet(draft))
    BY <1>1, Mapped DEF Urls
  <1>3. Cardinality(Sources(draft)) \in Nat
    BY <1>1, Mapped DEF Sources
  <1>4. Min({MinSources, Len(draft)}) \in Nat /\ Min({MinSources, Len(draft)}) <= MinSources
    BY <1>1, LeastOfTwo, SelectionAssumption
  <1> QED
    BY <1>1, <1>2, <1>3, <1>4

\* An issue that is written repeats no document and no URL and has items and
\* sources enough, whatever the model answers.
LEMMA GeneratedSound ==
    ASSUME SelectionInv, verdict = "generated"
    PROVE  /\ IsInjective(draft)
           /\ ToSet(draft) = Picked
           /\ Len(draft) >= MinItems
           /\ Cardinality(Urls(draft)) = Len(draft)
           /\ Cardinality(Sources(draft)) >= Min({MinSources, Len(draft)})
  <1>1. ToSet(draft) = Picked /\ Gate = "generated"
    BY DEF SelectionInv, Judged
  <1>2. /\ ~(Len(draft) < MinItems)
        /\ ~(Cardinality(Sources(draft)) < Min({MinSources, Len(draft)}))
        /\ Cardinality(Urls(draft)) = Len(draft)
    BY <1>1 DEF Gate
  <1>3. /\ draft \in Seq(Documents)
        /\ Cardinality(ToSet(draft)) \in Nat /\ Cardinality(ToSet(draft)) <= Len(draft)
        /\ Cardinality(ToSet(draft)) = Len(draft) <=> IsInjective(draft)
    BY Listed DEF SelectionInv, SelectionTypeOK
  <1>4. IsInjective(draft)
    BY <1>2, <1>3, GateNumbers
  <1>5. Len(draft) >= MinItems /\ Cardinality(Sources(draft)) >= Min({MinSources, Len(draft)})
    BY <1>2, GateNumbers, SelectionAssumption
  <1> QED
    BY <1>1, <1>2, <1>4, <1>5

\* Refused for lack of sources, the issue is not full, so that nothing in the
\* pool was left out but for its key or for its source.
LEMMA DiversitySound ==
    ASSUME SelectionInv, SelectionExact, step = "end", verdict = "diversity",
           MaxItems > SourceLimit * (MinSources - 1)
    PROVE  \A d \in pool : SourceOf[d] \in Sources(picked) \/ KeyTaken(d)
  <1>1. ToSet(draft) = Picked /\ Gate = "diversity"
    BY DEF SelectionInv, Judged
  <1>2. Sources(draft) = Sources(picked)
    BY <1>1 DEF Sources, Picked
  <1>3. Cardinality(Sources(draft)) < Min({MinSources, Len(draft)})
    BY <1>1 DEF Gate
  <1>4. Cardinality(Sources(picked)) \in Nat /\ Cardinality(Sources(picked)) <= MinSources - 1
    BY <1>2, <1>3, GateNumbers, SelectionAssumption
  <1>5. Len(picked) < MaxItems
    <2> DEFINE k == Cardinality(Sources(picked))
    <2>1. k \in Nat /\ k <= MinSources - 1 /\ Len(picked) <= k * SourceLimit /\ Len(picked) \in Nat
      BY <1>4, SourcesFill, PicksAreBetter
    <2> HIDE DEF k
    <2>2. SourceLimit \in Nat /\ MinSources \in Nat /\ MaxItems \in Nat
      BY SelectionAssumption
    <2>3. k * SourceLimit <= SourceLimit * (MinSources - 1)
      <3>1. PICK m \in Nat : MinSources - 1 = k + m
        <4>1. (MinSources - 1) - k \in Nat /\ MinSources - 1 = k + ((MinSources - 1) - k)
          BY <2>1, <2>2
        <4> QED
          BY <4>1
      <3>2. SourceLimit * (k + m) = k * SourceLimit + SourceLimit * m
        BY <2>1, <2>2
      <3>3. SourceLimit * m \in Nat /\ k * SourceLimit \in Nat
        BY <2>1, <2>2
      <3> QED
        BY <3>1, <3>2, <3>3
    <2>4. k * SourceLimit \in Nat /\ SourceLimit * (MinSources - 1) \in Int
      BY <2>1, <2>2
    <2> QED
      BY <2>1, <2>2, <2>3, <2>4
  <1>6. DOMAIN picked = 1 .. Len(picked) /\ Len(picked) \in Nat /\ Picked \subseteq Documents
    BY PicksAreBetter
  <1> SUFFICES ASSUME NEW d \in pool PROVE SourceOf[d] \in Sources(picked) \/ KeyTaken(d)
    OBVIOUS
  <1>7. CASE d \in Picked
    BY <1>7 DEF Sources, Picked
  <1>8. CASE \E e \in AtLeast(Picked, d) : KeyOf[e] = KeyOf[d]
    BY <1>8 DEF AtLeast, KeyTaken
  <1>9. CASE Cardinality(FromSource(AtLeast(Picked, d), d)) = SourceLimit
    <2>1. FromSource(AtLeast(Picked, d), d) # {}
      BY <1>9, FS_EmptySet, SelectionAssumption
    <2> QED
      BY <2>1 DEF FromSource, AtLeast, Sources, Picked
  <1>10. Len(picked) # MaxItems
    BY <1>5, <1>6
  <1> QED
    BY <1>7, <1>8, <1>9, <1>10 DEF SelectionExact

\* An issue is written only if it repeats neither document nor URL, and a day
\* is refused for lack of sources only if it has none to offer, for every pool,
\* answer of the model and setting
\* (digest_generator.py, quality_gate_digest, generate_digest_for_day).
THEOREM IssuesAreSound == SelectionSpec => []IssueSound
  <1>1. SelectionInv /\ SelectionExact => IssueSound
    <2> SUFFICES ASSUME SelectionInv, SelectionExact PROVE IssueSound
      OBVIOUS
    <2>1. verdict = "diversity" => step = "end"
      BY DEF SelectionInv, SelectionTypeOK, Steps, Judged
    <2> QED
      BY <2>1, GeneratedSound, DiversitySound DEF IssueSound
  <1> QED
    BY <1>1, SelectionInvariance, SelectionIsExact, PTL

-----------------------------------------------------------------------------
(* Induction, for sets of natural numbers *)

Below == {ss \in Nat \X Nat : ss[1] < ss[2]}

LEMMA BelowIsWellFounded == IsWellFoundedOn(Below, Nat)
  BY NatLessThanWellFounded DEF OpToRel, Below

LEMMA Induct ==
    ASSUME NEW S, 0 \in S, \A n \in Nat : n \in S => n + 1 \in S
    PROVE  \A n \in Nat : n \in S
  <1> SUFFICES ASSUME Nat \ S # {}
               PROVE  FALSE
    OBVIOUS
  <1>1. PICK x \in Nat \ S : \A y \in Nat \ S : ~(<<y, x>> \in Below)
    BY BelowIsWellFounded, WFMin, Nat \ S \subseteq Nat
  <1>2. x # 0
    BY <1>1
  <1>3. x - 1 \in Nat /\ x - 1 < x /\ (x - 1) + 1 = x
    BY <1>2
  <1>4. <<x - 1, x>> \in Below
    BY <1>3 DEF Below
  <1>5. x - 1 \in S
    BY <1>1, <1>3, <1>4
  <1> QED
    BY <1>1, <1>3, <1>5

LEMMA InductTo ==
    ASSUME NEW n \in Nat, NEW S, 0 \in S, \A k \in 0 .. n - 1 : k \in S => k + 1 \in S
    PROVE  n \in S /\ \A k \in 0 .. n : k \in S
  <1> DEFINE T == {k \in Nat : k <= n => k \in S}
  <1>1. 0 \in T
    OBVIOUS
  <1>2. \A k \in Nat : k \in T => k + 1 \in T
    OBVIOUS
  <1> HIDE DEF T
  <1>3. \A k \in Nat : k \in T
    BY <1>1, <1>2, Induct
  <1> QED
    BY <1>3 DEF T

\* f is what n steps from b pass through.
Iterates(f, n, S, b, next) ==
    f \in [0 .. n -> S] /\ f[0] = b /\ \A i \in 1 .. n : f[i] = next[i][f[i - 1]]

LEMMA Recursion ==
    ASSUME NEW n \in Nat, NEW S, NEW b \in S, NEW next \in [1 .. n -> [S -> S]]
    PROVE  \E f : Iterates(f, n, S, b, next)
  <1> DEFINE Good(k, f) == f[0] = b /\ \A i \in 1 .. k : f[i] = next[i][f[i - 1]]
             T == {k \in 0 .. n : \E f \in [0 .. k -> S] : Good(k, f)}
  <1>1. 0 \in T
    <2>1. [i \in 0 .. 0 |-> b] \in [0 .. 0 -> S] /\ Good(0, [i \in 0 .. 0 |-> b])
      OBVIOUS
    <2>2. 0 \in 0 .. n
      OBVIOUS
    <2> QED
      BY <2>1, <2>2, Zenon
  <1>2. \A k \in 0 .. n - 1 : k \in T => k + 1 \in T
    <2> SUFFICES ASSUME NEW k \in 0 .. n - 1, k \in T
                 PROVE  k + 1 \in T
      OBVIOUS
    <2>1. PICK f \in [0 .. k -> S] : Good(k, f)
      OBVIOUS
    <2> DEFINE g == [i \in 0 .. k + 1 |-> IF i <= k THEN f[i] ELSE next[i][f[i - 1]]]
    <2>2. k + 1 \in 1 .. n /\ k \in 0 .. k
      OBVIOUS
    <2>3. next[k + 1] \in [S -> S] /\ f[k] \in S
      BY <2>2
    <2>4. g[k + 1] = next[k + 1][f[k]] /\ g[k + 1] \in S
      BY <2>2, <2>3
    <2>5. \A i \in 0 .. k : g[i] = f[i]
      OBVIOUS
    <2> HIDE DEF g
    <2>6. g \in [0 .. k + 1 -> S]
      <3>1. \A i \in 0 .. k + 1 : g[i] \in S
        <4> TAKE i \in 0 .. k + 1
        <4>1. i \in 0 .. k \/ i = k + 1
          OBVIOUS
        <4> QED
          BY <4>1, <2>4, <2>5
      <3> QED
        BY <3>1 DEF g
    <2>7. Good(k + 1, g)
      <3>1. g[0] = b
        BY <2>1, <2>5
      <3>2. ASSUME NEW i \in 1 .. k + 1
            PROVE  g[i] = next[i][g[i - 1]]
        <4>1. i \in 1 .. k \/ i = k + 1
          OBVIOUS
        <4>2. CASE i \in 1 .. k
          BY <4>2, <2>1, <2>5
        <4>3. CASE i = k + 1
          BY <4>3, <2>4, <2>5
        <4> QED
          BY <4>1, <4>2, <4>3
      <3> QED
        BY <3>1, <3>2
    <2>8. k + 1 \in 0 .. n
      OBVIOUS
    <2> HIDE DEF Good
    <2> QED
      BY <2>8, <2>6, <2>7, Zenon
  <1> HIDE DEF T
  <1>3. n \in T
    BY <1>1, <1>2, InductTo, Zenon
  <1> QED
    BY <1>3 DEF T, Iterates

-----------------------------------------------------------------------------
(* The least and the greatest of a set *)

LEMMA LeastOf ==
    ASSUME NEW S, S \subseteq Nat, S # {}
    PROVE  Min(S) \in S /\ \A x \in S : Min(S) <= x
  <1>1. PICK x \in S : \A y \in S : ~(<<y, x>> \in Below)
    BY BelowIsWellFounded, WFMin
  <1>2. ASSUME NEW y \in S
        PROVE  x <= y
    <2>1. x \in Nat /\ y \in Nat /\ <<y, x>> \in Nat \X Nat
      OBVIOUS
    <2>2. ~(y < x)
      BY <1>1, <2>1 DEF Below
    <2> QED
      BY <2>1, <2>2
  <1> QED
    BY <1>2 DEF Min

LEMMA GreatestOf ==
    ASSUME NEW n \in Nat, NEW S, S \subseteq 0 .. n, S # {}
    PROVE  Max(S) \in S /\ \A x \in S : Max(S) >= x
  <1> DEFINE T == {n - x : x \in S}
  <1>1. T \subseteq Nat /\ T # {}
    <2>1. \A x \in S : x \in Int /\ n - x \in Nat
      OBVIOUS
    <2> QED
      BY <2>1
  <1>2. PICK m \in T : \A y \in T : m <= y
    BY <1>1, LeastOf
  <1>3. PICK x \in S : m = n - x
    BY <1>2
  <1>4. \A y \in S : x >= y
    <2> TAKE y \in S
    <2>1. n - y \in T
      OBVIOUS
    <2> HIDE DEF T
    <2>2. m <= n - y
      BY <1>2, <2>1
    <2> QED
      BY <2>2, <1>3
  <1> QED
    BY <1>4 DEF Max

LEMMA OfTwo ==
    ASSUME NEW a \in Int, NEW b \in Int
    PROVE  /\ Max({a, b}) = IF a >= b THEN a ELSE b
           /\ Min({a, b}) = IF a <= b THEN a ELSE b
  <1>1. Max({a, b}) = IF a >= b THEN a ELSE b
    BY DEF Max
  <1>2. Min({a, b}) = IF a <= b THEN a ELSE b
    BY DEF Min
  <1> QED
    BY <1>1, <1>2

-----------------------------------------------------------------------------
(* Concatenations *)

\* Concatenation as an operator that the provers do not look into.
Cat(s, t) == s \o t

LEMMA CatFacts ==
    ASSUME NEW S
    PROVE  /\ <<>> \in Seq(S)
           /\ \A s, t \in Seq(S) : Cat(s, t) \in Seq(S)
           /\ \A s \in Seq(S) : Cat(<<>>, s) = s /\ Cat(s, <<>>) = s
  <1>2. \A s \in Seq(S) : Cat(<<>>, s) = s /\ Cat(s, <<>>) = s
    BY ConcatEmptySeq, Zenon DEF Cat
  <1>3. \A s, t \in Seq(S) : Cat(s, t) \in Seq(S)
    BY ConcatProperties, Zenon DEF Cat
  <1> QED
    BY <1>2, <1>3, EmptySeq

LEMMA CatAssociative ==
    ASSUME NEW S, NEW s \in Seq(S), NEW t \in Seq(S), NEW u \in Seq(S)
    PROVE  Cat(Cat(s, t), u) = Cat(s, Cat(t, u))
  <1>1. (s \o t) \o u = s \o (t \o u)
    BY ConcatAssociative
  <1> QED
    BY <1>1, Zenon DEF Cat

\* f[k] is the first k of ss in a row.
Gathers(f, ss, S) ==
    /\ f \in [0 .. Len(ss) -> Seq(S)]
    /\ f[0] = <<>>
    /\ \A i \in 1 .. Len(ss) : f[i] = Cat(f[i - 1], ss[i])

LEMMA FlattenSteps ==
    ASSUME NEW S, NEW ss \in Seq(Seq(S))
    PROVE  \E f : Gathers(f, ss, S) /\ FlattenSeq(ss) = f[Len(ss)]
  <1> DEFINE V == Seq(S)
             nil == <<>>
  <1>1. Len(ss) \in Nat /\ \A i \in 1 .. Len(ss) : ss[i] \in V
    BY LenProperties, ElementOfSeq
  <1>2. /\ nil \in V
        /\ \A s, t \in V : Cat(s, t) \in V
        /\ \A s \in V : Cat(nil, s) = s
    BY CatFacts
  <1> SUFFICES \E f \in [0 .. Len(ss) -> V] :
                 /\ f[0] = nil
                 /\ \A i \in 1 .. Len(ss) : f[i] = Cat(f[i - 1], ss[i])
                 /\ FlattenSeq(ss) = f[Len(ss)]
    BY DEF Gathers
  <1>3. Len(ss) = 0 => FlattenSeq(ss) = nil
    BY DEF FlattenSeq
  <1> DEFINE E(g) == g = [i \in 1 .. Len(ss) |-> IF i = 1 THEN ss[i] ELSE Cat(g[i - 1], ss[i])]
  <1>4. Len(ss) # 0 => FlattenSeq(ss) = (CHOOSE g : E(g))[Len(ss)]
    BY DEF FlattenSeq, Cat
  <1> DEFINE n == Len(ss)
  <1> HIDE DEF n, V, nil
  <1>5. n \in Nat /\ \A i \in 1 .. n : ss[i] \in V
    BY <1>1 DEF n
  <1> DEFINE next == [i \in 1 .. n |-> [s \in V |-> Cat(s, ss[i])]]
  <1>6. next \in [1 .. n -> [V -> V]]
    BY <1>2, <1>5
  <1>7. PICK f \in [0 .. n -> V] :
          f[0] = nil /\ \A i \in 1 .. n : f[i] = next[i][f[i - 1]]
    <2> HIDE DEF next
    <2>1. n \in Nat
      BY <1>5
    <2>2. nil \in V
      BY <1>2
    <2>3. \E e : Iterates(e, n, V, nil, next)
      BY <2>1, <2>2, <1>6, Recursion
    <2> QED
      BY <2>3 DEF Iterates
  <1>8. ASSUME NEW i \in 1 .. n
        PROVE  i - 1 \in 0 .. n /\ f[i - 1] \in V /\ f[i] = Cat(f[i - 1], ss[i])
    <2>1. i - 1 \in 0 .. n
      BY <1>5
    <2>2. f[i - 1] \in V
      BY <2>1
    <2>3. next[i][f[i - 1]] = Cat(f[i - 1], ss[i])
      BY <2>2
    <2> QED
      BY <2>1, <2>2, <2>3, <1>7
  <1>9. CASE n = 0
    BY <1>3, <1>7, <1>8, <1>9 DEF n
  <1>10. CASE n # 0
    <2> DEFINE h == [i \in 1 .. n |-> f[i]]
    <2>1. E(h)
      <3>1. ASSUME NEW i \in 1 .. n
            PROVE  f[i] = IF i = 1 THEN ss[i] ELSE Cat(h[i - 1], ss[i])
        <4>1. CASE i = 1
          BY <4>1, <1>2, <1>5, <1>7, <1>8
        <4>2. CASE i # 1
          <5>1. i - 1 \in 1 .. n
            BY <4>2, <1>5
          <5> QED
            BY <4>2, <5>1, <1>8
        <4> QED
          BY <4>1, <4>2
      <3> QED
        BY <3>1 DEF n
    <2> DEFINE g == CHOOSE g : E(g)
    <2>2. E(g)
      BY <2>1
    <2>3. FlattenSeq(ss) = g[n]
      BY <1>4, <1>10 DEF n
    <2> HIDE DEF g, h
    <2>4. \A i \in 1 .. n : g[i] = IF i = 1 THEN ss[i] ELSE Cat(g[i - 1], ss[i])
      BY <2>2 DEF n
    <2> HIDE DEF E
    <2> DEFINE T == {k \in 0 .. n : k = 0 \/ g[k] = f[k]}
    <2>5. n \in T
      <3>1. 0 \in T
        BY <1>5
      <3>2. ASSUME NEW k \in 0 .. n - 1, k \in T
            PROVE  k + 1 \in T
        <4>1. k + 1 \in 1 .. n /\ k + 1 \in 0 .. n /\ (k + 1) - 1 = k
          BY <1>5
        <4>2. f[k + 1] = Cat(f[k], ss[k + 1])
          BY <4>1, <1>8
        <4>3. CASE k = 0
          BY <4>1, <4>2, <4>3, <1>2, <1>5, <1>7, <2>4
        <4>4. CASE k # 0
          <5>1. g[k + 1] = Cat(g[k], ss[k + 1])
            BY <4>1, <4>4, <2>4
          <5> QED
            BY <5>1, <4>1, <4>2, <4>4, <3>2
        <4> QED
          BY <4>3, <4>4
      <3> HIDE DEF T
      <3> QED
        BY <3>1, <3>2, <1>5, InductTo
    <2>6. FlattenSeq(ss) = f[n]
      BY <2>3, <2>5, <1>10
    <2> QED
      BY <2>6, <1>7, <1>8 DEF n
  <1> QED
    BY <1>9, <1>10

LEMMA FlattenType ==
    ASSUME NEW S, NEW ss \in Seq(Seq(S))
    PROVE  FlattenSeq(ss) \in Seq(S)
  <1>1. Len(ss) \in Nat
    BY LenProperties
  <1>2. Len(ss) \in 0 .. Len(ss)
    BY <1>1
  <1>3. PICK f : Gathers(f, ss, S) /\ FlattenSeq(ss) = f[Len(ss)]
    BY FlattenSteps
  <1> QED
    BY <1>2, <1>3 DEF Gathers

LEMMA FlattenConcat ==
    ASSUME NEW S, NEW ss \in Seq(Seq(S)), NEW tt \in Seq(Seq(S))
    PROVE  FlattenSeq(ss \o tt) = FlattenSeq(ss) \o FlattenSeq(tt)
  <1> DEFINE n == Len(ss)
             m == Len(tt)
             uu == ss \o tt
  <1>1. /\ uu \in Seq(Seq(S)) /\ Len(uu) = n + m
        /\ n \in Nat /\ m \in Nat
        /\ \A i \in 1 .. n : uu[i] = ss[i] /\ ss[i] \in Seq(S)
        /\ \A i \in 1 .. m : uu[n + i] = tt[i] /\ tt[i] \in Seq(S)
    <2>1. n \in Nat /\ m \in Nat
      BY LenProperties
    <2>2. /\ uu \in Seq(Seq(S)) /\ Len(uu) = n + m
          /\ \A i \in 1 .. n + m : uu[i] = IF i <= n THEN ss[i] ELSE tt[i - n]
      BY ConcatProperties
    <2>3. \A i \in 1 .. n : ss[i] \in Seq(S)
      BY ElementOfSeq
    <2>4. \A i \in 1 .. m : tt[i] \in Seq(S)
      BY ElementOfSeq
    <2> HIDE DEF n, m, uu
    <2> QED
      BY <2>1, <2>2, <2>3, <2>4
  <1>2. PICK f : Gathers(f, ss, S) /\ FlattenSeq(ss) = f[n]
    BY FlattenSteps
  <1>3. PICK g : Gathers(g, tt, S) /\ FlattenSeq(tt) = g[m]
    BY FlattenSteps
  <1>4. PICK h : Gathers(h, uu, S) /\ FlattenSeq(uu) = h[Len(uu)]
    BY <1>1, FlattenSteps
  <1>5. /\ h[0] = <<>> /\ f[0] = <<>> /\ g[0] = <<>>
        /\ \A i \in 1 .. n : f[i] = Cat(f[i - 1], ss[i])
        /\ \A i \in 0 .. n : f[i] \in Seq(S)
        /\ \A i \in 1 .. m : g[i] = Cat(g[i - 1], tt[i])
        /\ \A i \in 0 .. m : g[i] \in Seq(S)
        /\ \A i \in 1 .. n + m : h[i] = Cat(h[i - 1], uu[i])
    BY <1>1, <1>2, <1>3, <1>4 DEF Gathers
  <1> SUFFICES h[n + m] = Cat(f[n], g[m])
    BY <1>1, <1>2, <1>3, <1>4 DEF Cat
  <1> HIDE DEF n, m, uu
  <1>6. h[n] = f[n]
    <2> DEFINE T == {k \in 0 .. n : h[k] = f[k]}
    <2>1. 0 \in T
      BY <1>1, <1>5
    <2>2. ASSUME NEW k \in 0 .. n - 1, k \in T
          PROVE  k + 1 \in T
      <3>1. k + 1 \in 1 .. n /\ k + 1 \in 1 .. n + m /\ k + 1 \in 0 .. n /\ (k + 1) - 1 = k
        BY <1>1
      <3> QED
        BY <3>1, <1>1, <1>5, <2>2
    <2> HIDE DEF T
    <2>3. n \in T
      BY <2>1, <2>2, <1>1, InductTo
    <2> QED
      BY <2>3 DEF T
  <1>7. h[n + m] = Cat(f[n], g[m])
    <2> DEFINE T == {k \in 0 .. m : h[n + k] = Cat(f[n], g[k])}
    <2>1. 0 \in T
      <3>1. f[n] \in Seq(S) /\ n + 0 = n /\ 0 \in 0 .. m
        BY <1>1, <1>5
      <3> QED
        BY <3>1, <1>5, <1>6, CatFacts
    <2>2. ASSUME NEW k \in 0 .. m - 1, k \in T
          PROVE  k + 1 \in T
      <3>1. /\ k + 1 \in 1 .. m /\ n + (k + 1) \in 1 .. n + m /\ k + 1 \in 0 .. m
            /\ (k + 1) - 1 = k /\ (n + (k + 1)) - 1 = n + k /\ k \in 0 .. m
        BY <1>1
      <3>2. f[n] \in Seq(S) /\ g[k] \in Seq(S) /\ tt[k + 1] \in Seq(S)
        BY <3>1, <1>1, <1>5
      <3>3. h[n + (k + 1)] = Cat(Cat(f[n], g[k]), tt[k + 1])
        BY <3>1, <1>1, <1>5, <2>2
      <3>4. g[k + 1] = Cat(g[k], tt[k + 1])
        BY <3>1, <1>5
      <3>5. Cat(Cat(f[n], g[k]), tt[k + 1]) = Cat(f[n], Cat(g[k], tt[k + 1]))
        BY <3>2, CatAssociative
      <3> QED
        BY <3>1, <3>3, <3>4, <3>5
    <2> HIDE DEF T
    <2>3. m \in T
      BY <2>1, <2>2, <1>1, InductTo
    <2> QED
      BY <2>3 DEF T
  <1> QED
    BY <1>7

LEMMA FlattenEmpty == FlattenSeq(<<>>) = <<>>
  BY DEF FlattenSeq

LEMMA FlattenOne ==
    ASSUME NEW S, NEW s \in Seq(S)
    PROVE  FlattenSeq(<<s>>) = s
  <1>1. <<s>> \in Seq(Seq(S)) /\ Len(<<s>>) = 1 /\ <<s>>[1] = s
    OBVIOUS
  <1>2. PICK f : Gathers(f, <<s>>, S) /\ FlattenSeq(<<s>>) = f[1]
    BY <1>1, FlattenSteps
  <1>3. f[1] = Cat(f[0], s) /\ f[0] = <<>>
    BY <1>1, <1>2 DEF Gathers
  <1> QED
    BY <1>2, <1>3, CatFacts

LEMMA TwoInARow ==
    ASSUME NEW S, NEW s \in S, NEW t \in S
    PROVE  /\ <<s>> \in Seq(S) /\ <<t>> \in Seq(S) /\ <<s, t>> \in Seq(S)
           /\ <<s, t>> = <<s>> \o <<t>> /\ <<s, t>> = Append(<<s>>, t)
  <1>1. <<s>> \in Seq(S) /\ <<t>> \in Seq(S) /\ <<s, t>> \in Seq(S)
    OBVIOUS
  <1>2. <<s>> \o <<t>> \in Seq(S) /\ Len(<<s>> \o <<t>>) = 2
    BY <1>1
  <1>3. (<<s>> \o <<t>>)[1] = s /\ (<<s>> \o <<t>>)[2] = t
    OBVIOUS
  <1>4. Len(<<s, t>>) = 2 /\ <<s, t>>[1] = s /\ <<s, t>>[2] = t
    OBVIOUS
  <1>5. \A i \in 1 .. 2 : (<<s>> \o <<t>>)[i] = <<s, t>>[i]
    BY <1>3, <1>4
  <1>6. <<s, t>> = <<s>> \o <<t>>
    BY <1>1, <1>2, <1>4, <1>5, SeqEqual
  <1>7. Append(<<s>>, t) = <<s>> \o <<t>>
    BY <1>1, AppendIsConcat
  <1> QED
    BY <1>1, <1>6, <1>7

LEMMA FlattenTwo ==
    ASSUME NEW S, NEW s \in Seq(S), NEW t \in Seq(S)
    PROVE  FlattenSeq(<<s, t>>) = s \o t
  <1>1. <<s>> \in Seq(Seq(S)) /\ <<t>> \in Seq(Seq(S)) /\ <<s, t>> = <<s>> \o <<t>>
    BY TwoInARow
  <1>2. FlattenSeq(<<s>> \o <<t>>) = FlattenSeq(<<s>>) \o FlattenSeq(<<t>>)
    BY <1>1, FlattenConcat
  <1> QED
    BY <1>1, <1>2, FlattenOne

LEMMA FlattenAppend ==
    ASSUME NEW S, NEW ss \in Seq(Seq(S)), NEW s \in Seq(S)
    PROVE  FlattenSeq(Append(ss, s)) = FlattenSeq(ss) \o s
  <1>1. <<s>> \in Seq(Seq(S)) /\ Append(ss, s) = ss \o <<s>>
    BY AppendIsConcat
  <1>2. FlattenSeq(ss \o <<s>>) = FlattenSeq(ss) \o FlattenSeq(<<s>>)
    BY <1>1, FlattenConcat
  <1> QED
    BY <1>1, <1>2, FlattenOne

LEMMA FlattenHead ==
    ASSUME NEW S, NEW ss \in Seq(Seq(S)), ss # <<>>
    PROVE  FlattenSeq(ss) = Head(ss) \o FlattenSeq(Tail(ss))
  <1>1. Head(ss) \in Seq(S) /\ Tail(ss) \in Seq(Seq(S))
    BY HeadTailProperties
  <1>2. ss = <<Head(ss)>> \o Tail(ss) /\ <<Head(ss)>> \in Seq(Seq(S))
    BY <1>1, HeadTailProperties
  <1>3. FlattenSeq(<<Head(ss)>> \o Tail(ss)) = FlattenSeq(<<Head(ss)>>) \o FlattenSeq(Tail(ss))
    BY <1>1, <1>2, FlattenConcat
  <1> QED
    BY <1>1, <1>2, <1>3, FlattenOne

-----------------------------------------------------------------------------
(* Sums *)

\* g[k] is the sum of the first k of f.
Sums(g, f, n) ==
    g \in [0 .. n -> Int] /\ g[0] = 0 /\ \A i \in 1 .. n : g[i] = g[i - 1] + f[i]

\* f lists n integers, and c is what a and b list, in a row.
IntList(f, n) == DOMAIN f = 1 .. n /\ \A i \in 1 .. n : f[i] \in Int
InARow(c, a, n, b, m) ==
    /\ \A i \in 1 .. n : a[i] = c[i]
    /\ \A i \in 1 .. m : b[i] = c[n + i]

Some(s) == CHOOSE x \in s : TRUE

LEMMA SumSteps ==
    ASSUME NEW n \in Nat, NEW f, IntList(f, n)
    PROVE  \E g : Sums(g, f, n) /\ SumFunction(f) = g[n]
  <1> USE DEF IntList
  <1> DEFINE D == 1 .. n
             E(it) == it = [s \in SUBSET D |->
                        IF s = {} THEN 0 ELSE f[Some(s)] + it[s \ {Some(s)}]]
             sum == CHOOSE it : E(it)
  <1>1. SumFunction(f) = sum[D]
    BY DEF SumFunction, SumFunctionOnSet, FoldFunctionOnSet, MapThenFoldSet, Some
  <1> HIDE DEF sum
  <1>2. /\ IsFiniteSet(D) /\ Cardinality(D) = n
        /\ \A s \in SUBSET D : IsFiniteSet(s) /\ Cardinality(s) \in 0 .. n
        /\ \A s \in SUBSET D : s # {} => Some(s) \in s /\ f[Some(s)] \in Int
        /\ \A s \in SUBSET D : s # {} => Cardinality(s) # 0
        /\ \A s \in SUBSET D : \A x \in s : s \ {x} \in SUBSET D
                                   /\ Cardinality(s \ {x}) = Cardinality(s) - 1
    <2>1. IsFiniteSet(D) /\ Cardinality(D) = n
      BY FS_Interval
    <2>2. ASSUME NEW s \in SUBSET D
          PROVE  /\ IsFiniteSet(s) /\ Cardinality(s) \in 0 .. n
                 /\ s # {} => Cardinality(s) # 0
                 /\ \A x \in s : Cardinality(s \ {x}) = Cardinality(s) - 1
      <3>1. IsFiniteSet(s) /\ Cardinality(s) <= n
        <4> HIDE DEF D
        <4>1. IsFiniteSet(s) /\ Cardinality(s) <= Cardinality(D)
          BY <2>1, FS_Subset
        <4> QED
          BY <2>1, <4>1
      <3>2. Cardinality(s) \in Nat
        BY <3>1, FS_CardinalityType
      <3>3. s # {} => Cardinality(s) # 0
        BY <3>1, FS_EmptySet
      <3>4. \A x \in s : Cardinality(s \ {x}) = Cardinality(s) - 1
        BY <3>1, FS_RemoveElement
      <3> QED
        BY <3>1, <3>2, <3>3, <3>4
    <2>3. ASSUME NEW s \in SUBSET D, s # {}
          PROVE  Some(s) \in s /\ f[Some(s)] \in Int
      <3>1. Some(s) \in s
        BY <2>3 DEF Some
      <3> QED
        BY <3>1
    <2> QED
      BY <2>1, <2>2, <2>3
  <1> HIDE DEF D
  <1>3. E(sum)
    <2> DEFINE Upto(k) == {s \in SUBSET D : Cardinality(s) <= k}
               Part(g, k) == \A s \in Upto(k) :
                               g[s] = IF s = {} THEN 0 ELSE f[Some(s)] + g[s \ {Some(s)}]
               T == {k \in 0 .. n : \E g : Part(g, k)}
    <2>1. 0 \in T
      <3>1. \A s \in Upto(0) : s = {}
        BY <1>2
      <3>2. Part([s \in {{}} |-> 0], 0)
        BY <3>1
      <3>3. 0 \in 0 .. n
        OBVIOUS
      <3> HIDE DEF Part
      <3> QED
        BY <3>2, <3>3, Zenon
    <2>2. ASSUME NEW k \in 0 .. n - 1, k \in T
          PROVE  k + 1 \in T
      <3>1. PICK g : Part(g, k)
        BY <2>2
      <3> DEFINE h == [s \in SUBSET D |-> IF s \in Upto(k) THEN g[s]
                                          ELSE f[Some(s)] + g[s \ {Some(s)}]]
      <3>2. \A s \in Upto(k) : h[s] = g[s]
        OBVIOUS
      <3>3. ASSUME NEW s \in Upto(k + 1)
            PROVE  h[s] = IF s = {} THEN 0 ELSE f[Some(s)] + h[s \ {Some(s)}]
        <4>1. CASE s = {}
          <5>1. s \in Upto(k)
            BY <4>1, FS_EmptySet
          <5> QED
            BY <4>1, <5>1, <3>1, <3>2
        <4>2. CASE s # {}
          <5>1. s \ {Some(s)} \in Upto(k)
            BY <4>2, <1>2
          <5>2. h[s \ {Some(s)}] = g[s \ {Some(s)}]
            BY <5>1, <3>2
          <5>3. h[s] = f[Some(s)] + g[s \ {Some(s)}]
            <6>1. CASE s \in Upto(k)
              BY <6>1, <4>2, <3>1, <3>2
            <6>2. CASE s \notin Upto(k)
              BY <6>2
            <6> QED
              BY <6>1, <6>2
          <5> HIDE DEF h
          <5> QED
            BY <4>2, <5>2, <5>3
        <4> QED
          BY <4>1, <4>2
      <3>4. Part(h, k + 1)
        <4> HIDE DEF h
        <4> QED
          BY <3>3
      <3>5. k + 1 \in 0 .. n
        OBVIOUS
      <3> HIDE DEF Part, h
      <3> QED
        BY <3>4, <3>5
    <2> HIDE DEF T
    <2>3. n \in T
      BY <2>1, <2>2, InductTo
    <2>4. PICK g : Part(g, n)
      BY <2>3 DEF T
    <2> DEFINE h == [s \in SUBSET D |-> g[s]]
    <2>5. E(h)
      <3>1. ASSUME NEW s \in SUBSET D
            PROVE  g[s] = IF s = {} THEN 0 ELSE f[Some(s)] + h[s \ {Some(s)}]
        <4>1. s \in Upto(n)
          BY <1>2
        <4>2. s # {} => s \ {Some(s)} \in SUBSET D
          BY <1>2
        <4> QED
          BY <4>1, <4>2, <2>4
      <3> QED
        BY <3>1
    <2> HIDE DEF h, E
    <2> QED
      BY <2>5 DEF sum
  <1>4. /\ sum[{}] = 0
        /\ \A s \in SUBSET D : s # {} => sum[s] = f[Some(s)] + sum[s \ {Some(s)}]
    <2>1. \A s \in SUBSET D : sum[s] = IF s = {} THEN 0 ELSE f[Some(s)] + sum[s \ {Some(s)}]
      BY <1>3
    <2>2. {} \in SUBSET D
      OBVIOUS
    <2> QED
      BY <2>1, <2>2
  <1> HIDE DEF E
  <1>5. \A s \in SUBSET D : sum[s] \in Int
    <2> DEFINE T == {k \in 0 .. n : \A s \in SUBSET D : Cardinality(s) <= k => sum[s] \in Int}
    <2>1. 0 \in T
      <3>1. \A s \in SUBSET D : Cardinality(s) <= 0 => s = {}
        BY <1>2
      <3>2. sum[{}] \in Int /\ 0 \in 0 .. n
        BY <1>4
      <3>3. \A s \in SUBSET D : Cardinality(s) <= 0 => sum[s] \in Int
        BY <3>1, <3>2
      <3> QED
        BY <3>2, <3>3
    <2>2. ASSUME NEW k \in 0 .. n - 1, k \in T
          PROVE  k + 1 \in T
      <3>1. ASSUME NEW s \in SUBSET D, Cardinality(s) <= k + 1, s # {}
            PROVE  sum[s] \in Int
        <4>1. s \ {Some(s)} \in SUBSET D /\ Cardinality(s \ {Some(s)}) <= k
          BY <3>1, <1>2
        <4>2. sum[s \ {Some(s)}] \in Int
          BY <4>1, <2>2
        <4>3. f[Some(s)] \in Int
          BY <3>1, <1>2
        <4>4. sum[s] = f[Some(s)] + sum[s \ {Some(s)}]
          BY <3>1, <1>4
        <4> QED
          BY <4>2, <4>3, <4>4
      <3>2. \A s \in SUBSET D : Cardinality(s) <= k + 1 => sum[s] \in Int
        <4>1. \A s \in SUBSET D : s = {} => sum[s] \in Int
          BY <1>4
        <4> QED
          BY <3>1, <4>1
      <3>3. k + 1 \in 0 .. n
        OBVIOUS
      <3> QED
        BY <3>2, <3>3
    <2> HIDE DEF T
    <2>3. n \in T
      BY <2>1, <2>2, InductTo
    <2> QED
      BY <2>3, <1>2 DEF T
  <1>6. \A s \in SUBSET D : \A x \in s : sum[s] = f[x] + sum[s \ {x}]
    <2> DEFINE T == {k \in 0 .. n : \A s \in SUBSET D : Cardinality(s) <= k =>
                       \A x \in s : sum[s] = f[x] + sum[s \ {x}]}
    <2>1. 0 \in T
      <3>1. \A s \in SUBSET D : Cardinality(s) <= 0 => s = {}
        BY <1>2
      <3> QED
        BY <3>1
    <2>2. ASSUME NEW k \in 0 .. n - 1, k \in T
          PROVE  k + 1 \in T
      <3>1. ASSUME NEW s \in SUBSET D, Cardinality(s) <= k + 1, NEW x \in s
            PROVE  sum[s] = f[x] + sum[s \ {x}]
        <4> DEFINE y == Some(s)
        <4>1. y \in s /\ sum[s] = f[y] + sum[s \ {y}]
          BY <1>2, <1>4
        <4>2. CASE x = y
          BY <4>1, <4>2
        <4>3. CASE x # y
          <5> HIDE DEF y
          <5>1. /\ s \ {y} \in SUBSET D /\ Cardinality(s \ {y}) <= k
                /\ s \ {x} \in SUBSET D /\ Cardinality(s \ {x}) <= k
            BY <3>1, <4>1, <1>2
          <5>2. x \in s \ {y} /\ y \in s \ {x} /\ (s \ {y}) \ {x} = (s \ {x}) \ {y}
            BY <4>1, <4>3
          <5>3. /\ sum[s \ {y}] = f[x] + sum[(s \ {y}) \ {x}]
                /\ sum[s \ {x}] = f[y] + sum[(s \ {x}) \ {y}]
            BY <5>1, <5>2, <2>2
          <5>4. f[x] \in Int /\ f[y] \in Int /\ sum[(s \ {x}) \ {y}] \in Int
            <6>1. (s \ {x}) \ {y} \in SUBSET D /\ x \in D /\ y \in D
              BY <4>1
            <6> QED
              BY <6>1, <1>5 DEF D
          <5> DEFINE rest == (s \ {x}) \ {y}
          <5>5. /\ sum[s \ {y}] = f[x] + sum[rest]
                /\ sum[s \ {x}] = f[y] + sum[rest]
                /\ sum[rest] \in Int
            BY <5>2, <5>3, <5>4
          <5> HIDE DEF rest
          <5> QED
            BY <4>1, <5>4, <5>5
        <4> QED
          BY <4>2, <4>3
      <3>2. k + 1 \in 0 .. n
        OBVIOUS
      <3> QED
        BY <3>1, <3>2
    <2> HIDE DEF T
    <2>3. n \in T
      BY <2>1, <2>2, InductTo
    <2>4. \A s \in SUBSET D : Cardinality(s) <= n
      BY <1>2
    <2> QED
      BY <2>3, <2>4 DEF T
  <1> DEFINE g == [k \in 0 .. n |-> sum[1 .. k]]
  <1>7. \A k \in 0 .. n : 1 .. k \in SUBSET D
    BY DEF D
  <1>8. Sums(g, f, n)
    <2>1. g \in [0 .. n -> Int]
      BY <1>5, <1>7
    <2>2. g[0] = 0
      <3>1. 1 .. 0 = {} /\ g[0] = sum[1 .. 0]
        OBVIOUS
      <3> QED
        BY <3>1, <1>4
    <2>3. ASSUME NEW i \in 1 .. n
          PROVE  g[i] = g[i - 1] + f[i]
      <3>1. i \in 0 .. n /\ i - 1 \in 0 .. n /\ i \in 1 .. i /\ (1 .. i) \ {i} = 1 .. i - 1
        OBVIOUS
      <3>2. sum[1 .. i] = f[i] + sum[1 .. i - 1]
        BY <3>1, <1>6, <1>7
      <3>3. f[i] \in Int /\ sum[1 .. i - 1] \in Int
        BY <3>1, <1>5, <1>7
      <3> QED
        BY <3>1, <3>2, <3>3
    <2> QED
      BY <2>1, <2>2, <2>3 DEF Sums
  <1>9. SumFunction(f) = g[n]
    BY <1>1 DEF D
  <1> QED
    BY <1>8, <1>9

LEMMA SumIs ==
    ASSUME NEW n \in Nat, NEW f, IntList(f, n), NEW g, Sums(g, f, n)
    PROVE  SumFunction(f) = g[n]
  <1>1. PICK h : Sums(h, f, n) /\ SumFunction(f) = h[n]
    BY SumSteps
  <1> DEFINE T == {k \in 0 .. n : g[k] = h[k]}
  <1>2. 0 \in T
    BY <1>1 DEF Sums
  <1>3. ASSUME NEW k \in 0 .. n - 1, k \in T
        PROVE  k + 1 \in T
    <2>1. k + 1 \in 1 .. n /\ k + 1 \in 0 .. n /\ (k + 1) - 1 = k
      OBVIOUS
    <2> QED
      BY <2>1, <1>1, <1>3 DEF Sums
  <1> HIDE DEF T
  <1>4. n \in T
    BY <1>2, <1>3, InductTo
  <1> QED
    BY <1>1, <1>4 DEF T

\* The sum of a list is that of its first part and that of the rest.
LEMMA SumSplit ==
    ASSUME NEW n \in Nat, NEW m \in Nat,
           NEW f, IntList(f, n + m), NEW a, IntList(a, n), NEW b, IntList(b, m),
           InARow(f, a, n, b, m)
    PROVE  SumFunction(f) = SumFunction(a) + SumFunction(b)
  <1>1. /\ n + m \in Nat
        /\ \A i \in 1 .. n : a[i] = f[i]
        /\ \A i \in 1 .. m : b[i] = f[n + i]
        /\ \A i \in 1 .. n + m : f[i] \in Int
    BY DEF InARow, IntList
  <1>2. PICK g : Sums(g, a, n) /\ SumFunction(a) = g[n]
    BY <1>1, SumSteps
  <1>3. PICK h : Sums(h, b, m) /\ SumFunction(b) = h[m]
    BY <1>1, SumSteps
  <1> DEFINE s == [i \in 0 .. n + m |-> IF i <= n THEN g[i] ELSE g[n] + h[i - n]]
  <1>4. Sums(s, f, n + m)
    <2>1. \A i \in 0 .. n : g[i] \in Int
      BY <1>2 DEF Sums
    <2>2. \A i \in 0 .. m : h[i] \in Int
      BY <1>3 DEF Sums
    <2>3. s \in [0 .. n + m -> Int]
      <3>1. ASSUME NEW i \in 0 .. n + m
            PROVE  (IF i <= n THEN g[i] ELSE g[n] + h[i - n]) \in Int
        <4>1. i <= n => i \in 0 .. n
          OBVIOUS
        <4>2. ~(i <= n) => i - n \in 0 .. m /\ n \in 0 .. n
          OBVIOUS
        <4> QED
          BY <4>1, <4>2, <2>1, <2>2
      <3> QED
        BY <3>1
    <2>4. s[0] = 0
      BY <1>2 DEF Sums
    <2>5. ASSUME NEW i \in 1 .. n + m
          PROVE  s[i] = s[i - 1] + f[i]
      <3>1. CASE i <= n
        <4>1. i \in 1 .. n /\ i - 1 <= n /\ i \in 0 .. n + m /\ i - 1 \in 0 .. n + m
          BY <3>1
        <4>2. g[i] = g[i - 1] + a[i] /\ a[i] = f[i]
          BY <4>1, <1>1, <1>2 DEF Sums
        <4> QED
          BY <4>1, <4>2, <3>1
      <3>2. CASE i = n + 1
        <4>1. 1 \in 1 .. m /\ 1 - 1 = 0 /\ i - n = 1 /\ i - 1 = n /\ n \in 0 .. n
          BY <3>2
        <4>2. h[1] = h[0] + b[1] /\ h[0] = 0 /\ b[1] = f[n + 1]
          BY <4>1, <1>1, <1>3 DEF Sums
        <4>3. s[i] = g[n] + h[1] /\ s[i - 1] = g[n] /\ g[n] \in Int
          BY <3>2, <4>1, <2>1
        <4>4. f[i] \in Int
          BY <1>1
        <4> QED
          BY <4>1, <4>2, <4>3, <4>4, <3>2
      <3>3. CASE i > n + 1
        <4>1. i - n \in 1 .. m /\ i - 1 \in 0 .. n + m /\ n \in 0 .. n
              /\ (i - n) - 1 = (i - 1) - n /\ n + (i - n) = i /\ (i - n) - 1 \in 0 .. m
          BY <3>3
        <4>2. h[i - n] = h[(i - n) - 1] + b[i - n] /\ b[i - n] = f[n + (i - n)]
          BY <4>1, <1>1, <1>3 DEF Sums
        <4>3. s[i] = g[n] + h[i - n] /\ s[i - 1] = g[n] + h[(i - 1) - n]
          BY <3>3, <4>1
        <4>4. g[n] \in Int /\ h[(i - n) - 1] \in Int /\ f[i] \in Int
          BY <4>1, <1>1, <2>1, <2>2
        <4> HIDE DEF s
        <4> QED
          BY <4>1, <4>2, <4>3, <4>4
      <3> QED
        BY <3>1, <3>2, <3>3
    <2> HIDE DEF s
    <2> QED
      BY <2>3, <2>4, <2>5 DEF Sums
  <1>5. SumFunction(f) = s[n + m]
    <2> HIDE DEF s
    <2> QED
      BY <1>1, <1>4, SumIs
  <1>6. s[n + m] = g[n] + h[m]
    <2>1. n \in 0 .. n /\ g[n] \in Int /\ h[0] = 0
      BY <1>2, <1>3 DEF Sums
    <2>2. CASE m = 0
      BY <2>1, <2>2
    <2>3. CASE m # 0
      <3>1. ~(n + m <= n) /\ (n + m) - n = m /\ n + m \in 0 .. n + m
        BY <2>3
      <3> QED
        BY <3>1
    <2> QED
      BY <2>2, <2>3
  <1> QED
    BY <1>2, <1>3, <1>5, <1>6

LEMMA SumEmpty ==
    ASSUME NEW f, IntList(f, 0)
    PROVE  SumFunction(f) = 0
  <1>1. PICK g : Sums(g, f, 0) /\ SumFunction(f) = g[0]
    BY SumSteps
  <1> QED
    BY <1>1 DEF Sums

LEMMA SumOne ==
    ASSUME NEW f, IntList(f, 1)
    PROVE  SumFunction(f) = f[1] /\ f[1] \in Int
  <1>1. PICK g : Sums(g, f, 1) /\ SumFunction(f) = g[1]
    BY SumSteps
  <1>2. g[1] = g[0] + f[1] /\ g[0] = 0 /\ f[1] \in Int
    BY <1>1 DEF Sums, IntList
  <1> QED
    BY <1>1, <1>2

\* A sum is at least as large as what it is the sum of is long, or zero.
LEMMA SumBounds ==
    ASSUME NEW n \in Nat, NEW f, IntList(f, n)
    PROVE  /\ SumFunction(f) \in Int
           /\ (\A i \in 1 .. n : f[i] >= 1) => SumFunction(f) >= n
           /\ (\A i \in 1 .. n : f[i] = 0) => SumFunction(f) = 0
  <1>1. PICK g : Sums(g, f, n) /\ SumFunction(f) = g[n]
    BY SumSteps
  <1>2. \A i \in 0 .. n : g[i] \in Int
    BY <1>1 DEF Sums
  <1>3. ASSUME \A i \in 1 .. n : f[i] >= 1
        PROVE  g[n] >= n
    <2> DEFINE T == {k \in 0 .. n : g[k] >= k}
    <2>1. 0 \in T
      BY <1>1 DEF Sums
    <2>2. ASSUME NEW k \in 0 .. n - 1, k \in T
          PROVE  k + 1 \in T
      <3>1. k + 1 \in 1 .. n /\ k + 1 \in 0 .. n /\ (k + 1) - 1 = k /\ k \in 0 .. n
        OBVIOUS
      <3>2. g[k + 1] = g[k] + f[k + 1]
        BY <3>1, <1>1 DEF Sums
      <3>3. f[k + 1] >= 1 /\ f[k + 1] \in Int /\ g[k] \in Int
        BY <3>1, <1>2, <1>3 DEF IntList
      <3> QED
        BY <3>1, <3>2, <3>3, <2>2
    <2> HIDE DEF T
    <2>3. n \in T
      BY <2>1, <2>2, InductTo
    <2> QED
      BY <2>3 DEF T
  <1>4. ASSUME \A i \in 1 .. n : f[i] = 0
        PROVE  g[n] = 0
    <2> DEFINE T == {k \in 0 .. n : g[k] = 0}
    <2>1. 0 \in T
      BY <1>1 DEF Sums
    <2>2. ASSUME NEW k \in 0 .. n - 1, k \in T
          PROVE  k + 1 \in T
      <3>1. k + 1 \in 1 .. n /\ k + 1 \in 0 .. n /\ (k + 1) - 1 = k
        OBVIOUS
      <3> QED
        BY <3>1, <1>1, <1>4, <2>2 DEF Sums
    <2> HIDE DEF T
    <2>3. n \in T
      BY <2>1, <2>2, InductTo
    <2> QED
      BY <2>3 DEF T
  <1> QED
    BY <1>1, <1>2, <1>3, <1>4

-----------------------------------------------------------------------------
(* The length of fragments that are joined *)

LEMMA LengthType ==
    ASSUME NEW f \in Fragments
    PROVE  Length(f) \in Nat /\ Length(f) >= 1
  BY DEF Fragments, Length

Lengths(fs) == [i \in DOMAIN fs |-> Length(fs[i])]

LEMMA LengthsType ==
    ASSUME NEW fs \in Seq(Fragments)
    PROVE  /\ Len(fs) \in Nat
           /\ IntList(Lengths(fs), Len(fs))
           /\ \A i \in 1 .. Len(fs) : /\ Lengths(fs)[i] = Length(fs[i])
                                      /\ Lengths(fs)[i] >= 1
  <1>1. Len(fs) \in Nat /\ DOMAIN fs = 1 .. Len(fs)
    BY LenProperties
  <1>2. \A i \in 1 .. Len(fs) : fs[i] \in Fragments
    BY ElementOfSeq
  <1>3. \A i \in 1 .. Len(fs) : Length(fs[i]) \in Nat /\ Length(fs[i]) >= 1
    BY <1>2, LengthType
  <1> QED
    BY <1>1, <1>3 DEF Lengths, IntList

LEMMA JoinedIs ==
    ASSUME NEW fs \in Seq(Fragments)
    PROVE  Joined(fs) = SumFunction(Lengths(fs)) + IF Len(fs) = 0 THEN 0 ELSE Len(fs) - 1
  <1>1. Len(fs) \in Nat
    BY LenProperties
  <1>2. Max({Len(fs) - 1, 0}) = IF Len(fs) = 0 THEN 0 ELSE Len(fs) - 1
    BY <1>1, OfTwo
  <1> QED
    BY <1>2 DEF Joined, Lengths

LEMMA JoinedType ==
    ASSUME NEW fs \in Seq(Fragments)
    PROVE  Joined(fs) \in Nat /\ (fs # <<>> => Joined(fs) >= 1)
  <1>1. SumFunction(Lengths(fs)) \in Int /\ SumFunction(Lengths(fs)) >= Len(fs)
    BY LengthsType, SumBounds
  <1>2. Len(fs) \in Nat /\ (fs # <<>> => Len(fs) >= 1)
    BY LenProperties, EmptySeq
  <1>3. Joined(fs) = SumFunction(Lengths(fs)) + IF Len(fs) = 0 THEN 0 ELSE Len(fs) - 1
    BY JoinedIs
  <1> QED
    BY <1>1, <1>2, <1>3

LEMMA JoinedEmpty == Joined(<<>>) = 0
  <1> DEFINE nil == <<>>
  <1>1. nil \in Seq(Fragments) /\ Len(nil) = 0
    BY EmptySeq
  <1> SUFFICES Joined(nil) = 0
    OBVIOUS
  <1> HIDE DEF nil
  <1>2. IntList(Lengths(nil), 0)
    BY <1>1, LengthsType
  <1>3. SumFunction(Lengths(nil)) = 0
    BY <1>2, SumEmpty
  <1>4. Joined(nil) = SumFunction(Lengths(nil)) + IF Len(nil) = 0 THEN 0 ELSE Len(nil) - 1
    BY <1>1, JoinedIs
  <1> QED
    BY <1>1, <1>3, <1>4

LEMMA JoinedOne ==
    ASSUME NEW f \in Fragments
    PROVE  Joined(<<f>>) = Length(f)
  <1> DEFINE one == <<f>>
  <1>1. one \in Seq(Fragments) /\ Len(one) = 1 /\ one[1] = f
    OBVIOUS
  <1> SUFFICES Joined(one) = Length(f)
    OBVIOUS
  <1> HIDE DEF one
  <1>2. IntList(Lengths(one), 1) /\ Lengths(one)[1] = Length(f)
    <2>1. 1 \in 1 .. Len(one)
      BY <1>1
    <2> QED
      BY <1>1, <2>1, LengthsType
  <1>3. SumFunction(Lengths(one)) = Length(f) /\ Length(f) \in Int
    BY <1>2, SumOne
  <1>4. Joined(one) = SumFunction(Lengths(one)) + IF Len(one) = 0 THEN 0 ELSE Len(one) - 1
    BY <1>1, JoinedIs
  <1> QED
    BY <1>1, <1>3, <1>4

LEMMA JoinedConcat ==
    ASSUME NEW a \in Seq(Fragments), NEW b \in Seq(Fragments), a # <<>>, b # <<>>
    PROVE  Joined(a \o b) = Joined(a) + 1 + Joined(b)
  <1> DEFINE n == Len(a)
             m == Len(b)
             c == a \o b
  <1>1. n \in Nat /\ m \in Nat /\ n >= 1 /\ m >= 1
    BY LenProperties, EmptySeq
  <1>2. /\ c \in Seq(Fragments) /\ Len(c) = n + m
        /\ \A i \in 1 .. n + m : c[i] = IF i <= n THEN a[i] ELSE b[i - n]
    BY ConcatProperties
  <1> HIDE DEF n, m, c
  <1>3. /\ IntList(Lengths(c), n + m)
        /\ \A i \in 1 .. n + m : Lengths(c)[i] = Length(c[i])
    BY <1>2, LengthsType
  <1>4. IntList(Lengths(a), n) /\ \A i \in 1 .. n : Lengths(a)[i] = Length(a[i])
    BY LengthsType DEF n
  <1>5. IntList(Lengths(b), m) /\ \A i \in 1 .. m : Lengths(b)[i] = Length(b[i])
    BY LengthsType DEF m
  <1>6. ASSUME NEW i \in 1 .. n
        PROVE  Lengths(a)[i] = Lengths(c)[i]
    <2>1. i \in 1 .. n + m /\ i <= n
      BY <1>1
    <2> QED
      BY <2>1, <1>2, <1>3, <1>4
  <1>7. ASSUME NEW i \in 1 .. m
        PROVE  Lengths(b)[i] = Lengths(c)[n + i]
    <2>1. n + i \in 1 .. n + m /\ ~(n + i <= n) /\ (n + i) - n = i
      BY <1>1
    <2> QED
      BY <2>1, <1>2, <1>3, <1>5
  <1>8. SumFunction(Lengths(c)) = SumFunction(Lengths(a)) + SumFunction(Lengths(b))
    <2>1. InARow(Lengths(c), Lengths(a), n, Lengths(b), m)
      BY <1>6, <1>7 DEF InARow
    <2> QED
      BY <2>1, <1>1, <1>3, <1>4, <1>5, SumSplit
  <1>9. Joined(a) = SumFunction(Lengths(a)) + (n - 1)
    BY <1>1, JoinedIs DEF n
  <1>10. Joined(b) = SumFunction(Lengths(b)) + (m - 1)
    BY <1>1, JoinedIs DEF m
  <1>11. Joined(c) = SumFunction(Lengths(c)) + (n + m - 1)
    BY <1>1, <1>2, JoinedIs
  <1>12. SumFunction(Lengths(a)) \in Int /\ SumFunction(Lengths(b)) \in Int
    BY LengthsType, SumBounds
  <1> QED
    BY <1>1, <1>8, <1>9, <1>10, <1>11, <1>12 DEF c

-----------------------------------------------------------------------------
(* The size of a chunk *)

Sizes(ps) == [i \in DOMAIN ps |-> Joined(ps[i])]

LEMMA SizesType ==
    ASSUME NEW ps \in Seq(Seq(Fragments))
    PROVE  /\ Len(ps) \in Nat
           /\ IntList(Sizes(ps), Len(ps))
           /\ \A i \in 1 .. Len(ps) : Sizes(ps)[i] = Joined(ps[i])
  <1>1. Len(ps) \in Nat /\ DOMAIN ps = 1 .. Len(ps)
    BY LenProperties
  <1>2. \A i \in 1 .. Len(ps) : ps[i] \in Seq(Fragments)
    BY ElementOfSeq
  <1>3. \A i \in 1 .. Len(ps) : Joined(ps[i]) \in Nat
    BY <1>2, JoinedType
  <1> QED
    BY <1>1, <1>3 DEF Sizes, IntList

LEMMA StackedIs ==
    ASSUME NEW ps \in Seq(Seq(Fragments))
    PROVE  Stacked(ps) = SumFunction(Sizes(ps))
                           + IF Len(ps) = 0 THEN 0 ELSE 2 * (Len(ps) - 1)
  <1>1. Len(ps) \in Nat
    BY LenProperties
  <1>2. Max({Len(ps) - 1, 0}) = IF Len(ps) = 0 THEN 0 ELSE Len(ps) - 1
    BY <1>1, OfTwo
  <1>3. Stacked(ps) = SumFunction(Sizes(ps)) + 2 * Max({Len(ps) - 1, 0})
    BY DEF Stacked, Sizes
  <1> QED
    BY <1>1, <1>2, <1>3

LEMMA StackedEmpty == Stacked(<<>>) = 0
  <1> DEFINE nil == <<>>
  <1>1. nil \in Seq(Seq(Fragments)) /\ Len(nil) = 0
    BY EmptySeq
  <1> SUFFICES Stacked(nil) = 0
    OBVIOUS
  <1> HIDE DEF nil
  <1>2. IntList(Sizes(nil), 0)
    BY <1>1, SizesType
  <1>3. SumFunction(Sizes(nil)) = 0
    BY <1>2, SumEmpty
  <1>4. Stacked(nil) = SumFunction(Sizes(nil)) + IF Len(nil) = 0 THEN 0 ELSE 2 * (Len(nil) - 1)
    BY <1>1, StackedIs
  <1> QED
    BY <1>1, <1>3, <1>4

LEMMA StackedAppend ==
    ASSUME NEW ps \in Seq(Seq(Fragments)), NEW a \in Seq(Fragments)
    PROVE  /\ Stacked(ps) \in Int
           /\ Stacked(Append(ps, a)) = Stacked(ps) + Joined(a) + IF ps = <<>> THEN 0 ELSE 2
  <1> DEFINE n == Len(ps)
             qs == Append(ps, a)
             one == <<a>>
  <1>1. n \in Nat /\ (ps = <<>> <=> n = 0)
    BY LenProperties, EmptySeq
  <1>2. /\ qs \in Seq(Seq(Fragments)) /\ Len(qs) = n + 1
        /\ \A i \in 1 .. n : qs[i] = ps[i]
        /\ qs[n + 1] = a
    BY AppendProperties
  <1>3. one \in Seq(Seq(Fragments)) /\ Len(one) = 1 /\ one[1] = a
    OBVIOUS
  <1> HIDE DEF n, qs, one
  <1>4. /\ IntList(Sizes(qs), n + 1)
        /\ \A i \in 1 .. n + 1 : Sizes(qs)[i] = Joined(qs[i])
    BY <1>2, SizesType
  <1>5. IntList(Sizes(ps), n) /\ \A i \in 1 .. n : Sizes(ps)[i] = Joined(ps[i])
    BY SizesType DEF n
  <1>6. IntList(Sizes(one), 1) /\ Sizes(one)[1] = Joined(a)
    <2>1. 1 \in 1 .. Len(one)
      BY <1>3
    <2> QED
      BY <2>1, <1>3, SizesType
  <1>7. ASSUME NEW i \in 1 .. n
        PROVE  Sizes(ps)[i] = Sizes(qs)[i]
    <2>1. i \in 1 .. n + 1
      BY <1>1
    <2> QED
      BY <2>1, <1>2, <1>4, <1>5
  <1>8. \A i \in 1 .. 1 : Sizes(one)[i] = Sizes(qs)[n + i]
    <2>1. n + 1 \in 1 .. n + 1
      BY <1>1
    <2> QED
      BY <2>1, <1>2, <1>4, <1>6
  <1>9. SumFunction(Sizes(qs)) = SumFunction(Sizes(ps)) + SumFunction(Sizes(one))
    <2>1. InARow(Sizes(qs), Sizes(ps), n, Sizes(one), 1)
      BY <1>7, <1>8 DEF InARow
    <2> QED
      BY <2>1, <1>1, <1>4, <1>5, <1>6, SumSplit
  <1>10. SumFunction(Sizes(one)) = Joined(a) /\ Joined(a) \in Int
    BY <1>6, SumOne
  <1>11. SumFunction(Sizes(ps)) \in Int
    BY SizesType, SumBounds
  <1>12. Stacked(ps) = SumFunction(Sizes(ps)) + IF n = 0 THEN 0 ELSE 2 * (n - 1)
    BY StackedIs DEF n
  <1>13. Stacked(qs) = SumFunction(Sizes(qs)) + IF Len(qs) = 0 THEN 0 ELSE 2 * (Len(qs) - 1)
    BY <1>2, StackedIs
  <1> QED
    BY <1>1, <1>2, <1>9, <1>10, <1>11, <1>12, <1>13 DEF qs

LEMMA StackedFew ==
    ASSUME NEW a \in Seq(Fragments), NEW b \in Seq(Fragments)
    PROVE  Stacked(<<a>>) = Joined(a) /\ Stacked(<<a, b>>) = Joined(a) + Joined(b) + 2
  <1> DEFINE nil == <<>>
             one == <<a>>
  <1>1. nil \in Seq(Seq(Fragments)) /\ one \in Seq(Seq(Fragments)) /\ nil = <<>> /\ one # <<>>
    BY EmptySeq
  <1>2. Append(nil, a) = one
    OBVIOUS
  <1>3. Append(one, b) = <<a, b>>
    BY TwoInARow
  <1>4. Stacked(nil) = 0
    BY StackedEmpty
  <1> SUFFICES Stacked(one) = Joined(a) /\ Stacked(Append(one, b)) = Joined(a) + Joined(b) + 2
    BY <1>3
  <1>5. Joined(a) \in Int /\ Joined(b) \in Int
    BY JoinedType
  <1> HIDE DEF nil, one
  <1>6. Stacked(Append(nil, a)) = Stacked(nil) + Joined(a) + IF nil = <<>> THEN 0 ELSE 2
    BY <1>1, StackedAppend
  <1>7. Stacked(Append(one, b)) = Stacked(one) + Joined(b) + IF one = <<>> THEN 0 ELSE 2
    BY <1>1, StackedAppend
  <1> QED
    BY <1>1, <1>2, <1>4, <1>5, <1>6, <1>7

-----------------------------------------------------------------------------
(* The end of a text *)

EndAt(fs, i) == Joined(SubSeq(fs, 1, i))
StartAt(fs, i) == EndAt(fs, i) - Length(fs[i])

LEMMA Prefixed ==
    ASSUME NEW S, NEW fs \in Seq(S), NEW i \in 1 .. Len(fs)
    PROVE  /\ SubSeq(fs, 1, i) \in Seq(S) /\ SubSeq(fs, 1, i) # <<>>
           /\ Len(SubSeq(fs, 1, i)) = i
           /\ \A j \in 1 .. i : SubSeq(fs, 1, i)[j] = fs[j]
  <1>1. Len(fs) \in Nat
    BY LenProperties
  <1>2. \A j \in 1 .. i : fs[j] \in S
    BY <1>1, ElementOfSeq
  <1>3. /\ SubSeq(fs, 1, i) \in Seq(S) /\ Len(SubSeq(fs, 1, i)) = IF 1 <= i THEN i - 1 + 1 ELSE 0
        /\ \A j \in 1 .. i - 1 + 1 : SubSeq(fs, 1, i)[j] = fs[1 + j - 1]
    BY <1>1, <1>2, SubSeqProperties
  <1>4. Len(SubSeq(fs, 1, i)) = i /\ \A j \in 1 .. i : SubSeq(fs, 1, i)[j] = fs[j]
    BY <1>1, <1>3
  <1> QED
    BY <1>1, <1>3, <1>4, EmptySeq

LEMMA Suffixed ==
    ASSUME NEW S, NEW fs \in Seq(S), NEW i \in 1 .. Len(fs)
    PROVE  /\ SubSeq(fs, i, Len(fs)) \in Seq(S) /\ SubSeq(fs, i, Len(fs)) # <<>>
           /\ Len(SubSeq(fs, i, Len(fs))) = Len(fs) - i + 1
           /\ \A j \in 1 .. Len(fs) - i + 1 : SubSeq(fs, i, Len(fs))[j] = fs[i + j - 1]
  <1> DEFINE n == Len(fs)
  <1>1. n \in Nat
    BY LenProperties
  <1>2. \A j \in i .. n : fs[j] \in S
    BY <1>1, ElementOfSeq
  <1> HIDE DEF n
  <1>3. /\ SubSeq(fs, i, n) \in Seq(S)
        /\ Len(SubSeq(fs, i, n)) = IF i <= n THEN n - i + 1 ELSE 0
        /\ \A j \in 1 .. n - i + 1 : SubSeq(fs, i, n)[j] = fs[i + j - 1]
    BY <1>1, <1>2, SubSeqProperties DEF n
  <1>4. i <= n /\ i \in Nat /\ n - i + 1 >= 1
    BY <1>1 DEF n
  <1>5. Len(SubSeq(fs, i, n)) = n - i + 1
    BY <1>3, <1>4
  <1>6. SubSeq(fs, i, n) # <<>>
    BY <1>1, <1>4, <1>5, EmptySeq
  <1> QED
    BY <1>3, <1>5, <1>6 DEF n

LEMMA Ends ==
    ASSUME NEW fs \in Seq(Fragments), NEW i \in 1 .. Len(fs)
    PROVE  /\ EndAt(fs, i) \in Nat /\ StartAt(fs, i) \in Nat
           /\ EndAt(fs, i) > StartAt(fs, i)
           /\ i = 1 => StartAt(fs, i) = 0
           /\ i > 1 => StartAt(fs, i) = EndAt(fs, i - 1) + 1
           /\ i = Len(fs) => EndAt(fs, i) = Joined(fs)
           /\ Joined(SubSeq(fs, i, Len(fs))) = Joined(fs) - StartAt(fs, i)
  <1> DEFINE n == Len(fs)
             a == SubSeq(fs, 1, i - 1)
             b == SubSeq(fs, i, n)
             c == SubSeq(fs, 1, i)
             one == <<fs[i]>>
  <1>1. n \in Nat /\ i \in Nat /\ i >= 1 /\ i <= n /\ fs[i] \in Fragments
    BY LenProperties, ElementOfSeq
  <1>2. Length(fs[i]) \in Nat /\ Length(fs[i]) >= 1
    BY <1>1, LengthType
  <1>3. c \in Seq(Fragments) /\ c # <<>> /\ Joined(c) \in Nat
    BY Prefixed, JoinedType
  <1>4. b \in Seq(Fragments) /\ b # <<>> /\ Joined(b) \in Nat
    BY Suffixed, JoinedType
  <1>5. one \in Seq(Fragments) /\ one # <<>> /\ Joined(one) = Length(fs[i])
    BY <1>1, JoinedOne
  <1>6. i = n => EndAt(fs, i) = Joined(fs)
    BY SubSeqFull DEF EndAt
  <1>7. CASE i = 1
    <2>1. c = one
      <3>1. Len(c) = 1 /\ c[1] = fs[1] /\ Len(one) = 1 /\ one[1] = fs[1]
        BY <1>7, Prefixed
      <3>2. \A j \in 1 .. 1 : c[j] = one[j]
        BY <3>1
      <3> HIDE DEF c, one
      <3> QED
        BY <3>1, <3>2, <1>3, <1>5, SeqEqual
    <2>3. b = fs
      BY <1>7, SubSeqFull
    <2>4. Joined(fs) \in Nat
      BY JoinedType
    <2>6. EndAt(fs, i) = Joined(c)
      BY DEF EndAt
    <2> HIDE DEF c, b, one
    <2>2. EndAt(fs, i) = Length(fs[i]) /\ StartAt(fs, i) = 0
      BY <2>1, <2>6, <1>2, <1>5 DEF StartAt
    <2>5. Joined(b) = Joined(fs) - StartAt(fs, i)
      BY <2>2, <2>3, <2>4
    <2> QED
      BY <2>2, <2>5, <1>2, <1>6, <1>7 DEF b
  <1>8. CASE i > 1
    <2>1. i - 1 \in 1 .. n
      BY <1>1, <1>8
    <2>2. a \in Seq(Fragments) /\ a # <<>> /\ Joined(a) \in Nat
      BY <2>1, Prefixed, JoinedType
    <2>3. c = a \o one
      <3>1. 1 \in 1 .. n /\ i \in 1 .. n
        BY <1>1
      <3> QED
        BY <3>1, SubSeqRecursiveSecond
    <2>4. fs = a \o b
      <3>1. /\ 1 \in 1 .. n + 1 /\ i - 1 \in 1 - 1 .. n /\ n \in i - 1 .. n
            /\ (i - 1) + 1 = i
        BY <1>1
      <3>2. SubSeq(fs, 1, i - 1) \o SubSeq(fs, (i - 1) + 1, n) = SubSeq(fs, 1, n)
        BY <3>1, ConcatAdjacentSubSeq
      <3>3. SubSeq(fs, 1, n) = fs
        BY SubSeqFull
      <3> QED
        BY <3>1, <3>2, <3>3
    <2>5. EndAt(fs, i - 1) = Joined(a) /\ EndAt(fs, i) = Joined(c)
      BY DEF EndAt
    <2> HIDE DEF a, b, c, one
    <2>6. Joined(c) = Joined(a) + 1 + Length(fs[i])
      BY <2>2, <2>3, <1>5, JoinedConcat
    <2>7. Joined(fs) = Joined(a) + 1 + Joined(b)
      BY <2>2, <2>4, <1>4, JoinedConcat
    <2>8. StartAt(fs, i) = Joined(a) + 1
      BY <2>2, <2>5, <2>6, <1>2 DEF StartAt
    <2>9. Joined(b) = Joined(fs) - StartAt(fs, i)
      BY <2>2, <2>7, <2>8, <1>4
    <2> QED
      BY <2>2, <2>5, <2>6, <2>8, <2>9, <1>2, <1>6, <1>8 DEF b
  <1> QED
    BY <1>1, <1>7, <1>8

LEMMA EndsGrow ==
    ASSUME NEW fs \in Seq(Fragments), NEW i \in 1 .. Len(fs), NEW j \in 1 .. Len(fs), i < j
    PROVE  EndAt(fs, i) < StartAt(fs, j)
  <1> DEFINE n == Len(fs)
             T == {k \in 0 .. n - i - 1 : EndAt(fs, i) < StartAt(fs, i + k + 1)}
  <1>1. n \in Nat /\ n - i - 1 \in Nat
    BY LenProperties
  <1>2. 0 \in T
    <2>1. i + 1 \in 1 .. n /\ (i + 1) - 1 = i /\ i + 1 > 1 /\ i + 0 + 1 = i + 1
      BY <1>1
    <2>2. StartAt(fs, i + 1) = EndAt(fs, (i + 1) - 1) + 1
      BY <2>1, Ends
    <2>3. EndAt(fs, i) \in Nat
      BY Ends
    <2> QED
      BY <1>1, <2>1, <2>2, <2>3
  <1>3. ASSUME NEW k \in 0 .. (n - i - 1) - 1, k \in T
        PROVE  k + 1 \in T
    <2> DEFINE m == i + k + 1
    <2>1. /\ m \in 1 .. n /\ m + 1 \in 1 .. n /\ (m + 1) - 1 = m /\ m + 1 > 1
          /\ i + (k + 1) + 1 = m + 1 /\ k + 1 \in 0 .. n - i - 1
      BY <1>1
    <2>2. EndAt(fs, i) < StartAt(fs, m)
      BY <1>3
    <2> HIDE DEF m
    <2>3. StartAt(fs, m + 1) = EndAt(fs, (m + 1) - 1) + 1
      BY <2>1, Ends
    <2>4. EndAt(fs, m) > StartAt(fs, m) /\ EndAt(fs, m) \in Nat /\ StartAt(fs, m) \in Nat
      BY <2>1, Ends
    <2>5. EndAt(fs, i) \in Nat
      BY Ends
    <2> QED
      BY <2>1, <2>2, <2>3, <2>4, <2>5
  <1> HIDE DEF T
  <1>4. \A k \in 0 .. n - i - 1 : k \in T
    BY <1>1, <1>2, <1>3, InductTo
  <1>5. j - i - 1 \in 0 .. n - i - 1 /\ i + (j - i - 1) + 1 = j
    BY <1>1
  <1>6. j - i - 1 \in T
    BY <1>4, <1>5
  <1> QED
    BY <1>5, <1>6 DEF T

\* What follows the first cut characters.
FirstAfter(fs, cut) == Min({i \in DOMAIN fs : EndAt(fs, i) > cut})
FromCut(fs, cut) ==
    [j \in 1 .. Len(fs) - FirstAfter(fs, cut) + 1 |->
        LET f == fs[FirstAfter(fs, cut) + j - 1]
        IN [f EXCEPT !.from = @ + Max({cut - StartAt(fs, FirstAfter(fs, cut) + j - 1), 0})]]

LEMMA LastCharsIs ==
    ASSUME NEW fs, NEW n
    PROVE  LastChars(fs, n) = FromCut(fs, IF n = 0 THEN 0 ELSE Max({Joined(fs) - n, 0}))
  BY DEF LastChars, FromCut, FirstAfter, StartAt, EndAt

LEMMA FirstIs ==
    ASSUME NEW fs \in Seq(Fragments), NEW cut \in Nat, NEW j \in 1 .. Len(fs),
           StartAt(fs, j) <= cut + 1, EndAt(fs, j) > cut
    PROVE  FirstAfter(fs, cut) = j
  <1> DEFINE S == {i \in DOMAIN fs : EndAt(fs, i) > cut}
  <1>1. DOMAIN fs = 1 .. Len(fs) /\ Len(fs) \in Nat
    BY LenProperties
  <1>2. j \in S /\ S \subseteq Nat
    BY <1>1
  <1>3. Min(S) \in S /\ Min(S) <= j
    BY <1>2, LeastOf
  <1>4. \A i \in 1 .. Len(fs) : i < j => ~(EndAt(fs, i) > cut)
    <2> SUFFICES ASSUME NEW i \in 1 .. Len(fs), i < j
                 PROVE  ~(EndAt(fs, i) > cut)
      OBVIOUS
    <2>1. EndAt(fs, i) < StartAt(fs, j) /\ EndAt(fs, i) \in Nat /\ StartAt(fs, j) \in Nat
      BY EndsGrow, Ends
    <2> QED
      BY <2>1
  <1>5. Min(S) \in 1 .. Len(fs) /\ EndAt(fs, Min(S)) > cut
    BY <1>1, <1>3
  <1>6. Min(S) = j
    BY <1>1, <1>3, <1>4, <1>5
  <1> QED
    BY <1>6 DEF FirstAfter

LEMMA FirstFound ==
    ASSUME NEW fs \in Seq(Fragments), NEW cut \in Nat, cut < Joined(fs)
    PROVE  LET j == FirstAfter(fs, cut) IN
           /\ j \in 1 .. Len(fs) /\ EndAt(fs, j) > cut
           /\ StartAt(fs, j) <= cut + 1
           /\ \A i \in 1 .. Len(fs) : i > j => StartAt(fs, i) > cut
  <1> DEFINE S == {i \in DOMAIN fs : EndAt(fs, i) > cut}
             n == Len(fs)
             j == FirstAfter(fs, cut)
  <1>1. DOMAIN fs = 1 .. n /\ n \in Nat
    BY LenProperties
  <1>2. n >= 1
    <2>1. fs # <<>>
      BY JoinedEmpty
    <2> QED
      BY <2>1, EmptySeq
  <1>3. n \in 1 .. n
    BY <1>1, <1>2
  <1>4. EndAt(fs, n) = Joined(fs)
    BY <1>3, Ends
  <1>5. S # {} /\ S \subseteq Nat
    BY <1>1, <1>3, <1>4
  <1>6. j \in S /\ \A x \in S : j <= x
    BY <1>5, LeastOf DEF FirstAfter
  <1>7. j \in 1 .. n /\ EndAt(fs, j) > cut
    BY <1>1, <1>6
  <1> HIDE DEF j
  <1>8. StartAt(fs, j) <= cut + 1
    <2>1. CASE j = 1
      <3>1. StartAt(fs, j) = 0
        BY <2>1, <1>7, Ends
      <3> QED
        BY <3>1
    <2>2. CASE j # 1
      <3>1. j - 1 \in 1 .. n /\ j > 1 /\ ~(j <= j - 1)
        BY <2>2, <1>7, <1>1
      <3>2. ~(EndAt(fs, j - 1) > cut)
        BY <3>1, <1>1, <1>6
      <3>3. StartAt(fs, j) = EndAt(fs, j - 1) + 1 /\ EndAt(fs, j - 1) \in Nat
        BY <3>1, <1>7, Ends
      <3> QED
        BY <3>2, <3>3
    <2> QED
      BY <2>1, <2>2
  <1>9. \A i \in 1 .. n : i > j => StartAt(fs, i) > cut
    <2> SUFFICES ASSUME NEW i \in 1 .. n, i > j
                 PROVE  StartAt(fs, i) > cut
      OBVIOUS
    <2>1. EndAt(fs, j) < StartAt(fs, i) /\ EndAt(fs, j) \in Nat /\ StartAt(fs, i) \in Nat
      BY <1>7, EndsGrow, Ends
    <2> QED
      BY <2>1, <1>7
  <1> QED
    BY <1>7, <1>8, <1>9 DEF j

\* The fragment f without its first d characters.
Cropped(f, d) == [f EXCEPT !.from = @ + d]

LEMMA CroppedType ==
    ASSUME NEW f \in Fragments, NEW d \in Nat, d < Length(f)
    PROVE  /\ Cropped(f, d) \in Fragments
           /\ Length(Cropped(f, d)) = Length(f) - d
           /\ Cropped(f, d).p = f.p /\ Cropped(f, d).s = f.s /\ Cropped(f, d).to = f.to
           /\ Cropped(f, 0) = f
  BY DEF Fragments, Length, Cropped

CutIn(fs, cut, i) == Max({cut - StartAt(fs, i), 0})

LEMMA FromCutIs ==
    ASSUME NEW fs \in Seq(Fragments), NEW cut \in Nat, NEW j \in 1 .. Len(fs),
           StartAt(fs, j) <= cut + 1, EndAt(fs, j) > cut
    PROVE  /\ FromCut(fs, cut) \in Seq(Fragments)
           /\ FromCut(fs, cut) # <<>>
           /\ Len(FromCut(fs, cut)) = Len(fs) - j + 1
           /\ CutIn(fs, cut, j) \in 0 .. Length(fs[j]) - 1
           /\ CutIn(fs, cut, j) = IF cut >= StartAt(fs, j) THEN cut - StartAt(fs, j) ELSE 0
           /\ FromCut(fs, cut)[1] = Cropped(fs[j], CutIn(fs, cut, j))
           /\ \A k \in 2 .. Len(fs) - j + 1 : FromCut(fs, cut)[k] = fs[j + k - 1]
  <1> DEFINE n == Len(fs)
             d == CutIn(fs, cut, j)
             r == FromCut(fs, cut)
             h == [k \in 1 .. n - j + 1 |-> Cropped(fs[j + k - 1], CutIn(fs, cut, j + k - 1))]
  <1>1. n \in Nat /\ j \in 1 .. n /\ n - j + 1 \in Nat /\ n - j + 1 >= 1
    BY LenProperties
  <1>2. \A i \in 1 .. n : /\ fs[i] \in Fragments
                          /\ Length(fs[i]) \in Nat /\ Length(fs[i]) >= 1
                          /\ StartAt(fs, i) \in Nat
    BY ElementOfSeq, LengthType, Ends
  <1>3. FirstAfter(fs, cut) = j
    BY FirstIs
  <1>4. r = h
    BY <1>3 DEF FromCut, Cropped, CutIn
  <1>5. \A i \in 1 .. n : CutIn(fs, cut, i)
                            = IF cut >= StartAt(fs, i) THEN cut - StartAt(fs, i) ELSE 0
    <2> TAKE i \in 1 .. n
    <2>1. StartAt(fs, i) \in Int /\ cut - StartAt(fs, i) \in Int
      BY <1>2
    <2>2. CutIn(fs, cut, i) = IF cut - StartAt(fs, i) >= 0 THEN cut - StartAt(fs, i) ELSE 0
      BY <2>1, OfTwo DEF CutIn
    <2> QED
      BY <2>1, <2>2
  <1>6. d \in 0 .. Length(fs[j]) - 1
    <2>1. EndAt(fs, j) = StartAt(fs, j) + Length(fs[j])
      BY <1>2, Ends DEF StartAt
    <2> QED
      BY <1>2, <1>5, <2>1
  <1>7. \A i \in 1 .. n : i > j => CutIn(fs, cut, i) = 0
    <2> SUFFICES ASSUME NEW i \in 1 .. n, i > j
                 PROVE  CutIn(fs, cut, i) = 0
      OBVIOUS
    <2>1. EndAt(fs, j) < StartAt(fs, i) /\ EndAt(fs, j) \in Nat /\ StartAt(fs, i) \in Nat
      BY EndsGrow, Ends
    <2> QED
      BY <1>5, <2>1
  <1> HIDE DEF d
  <1>8. Cropped(fs[j], d) \in Fragments
    BY <1>2, <1>6, CroppedType
  <1>9. \A i \in 1 .. n : Cropped(fs[i], 0) = fs[i]
    BY <1>2, CroppedType
  <1>10. h[1] = Cropped(fs[j], d)
    <2>1. 1 \in 1 .. n - j + 1 /\ j + 1 - 1 = j
      BY <1>1
    <2> QED
      BY <2>1 DEF d
  <1>11. \A k \in 2 .. n - j + 1 : h[k] = fs[j + k - 1]
    <2> TAKE k \in 2 .. n - j + 1
    <2>1. k \in 1 .. n - j + 1 /\ j + k - 1 \in 1 .. n /\ j + k - 1 > j
      BY <1>1
    <2>2. h[k] = Cropped(fs[j + k - 1], CutIn(fs, cut, j + k - 1))
      BY <2>1
    <2> QED
      BY <2>1, <2>2, <1>7, <1>9
  <1>12. h \in [1 .. n - j + 1 -> Fragments]
    <2>1. ASSUME NEW k \in 1 .. n - j + 1
          PROVE  h[k] \in Fragments
      <3>1. CASE k = 1
        BY <3>1, <1>8, <1>10
      <3>2. CASE k # 1
        <4>1. k \in 2 .. n - j + 1 /\ j + k - 1 \in 1 .. n
          BY <3>2, <1>1
        <4> QED
          BY <4>1, <1>2, <1>11
      <3> QED
        BY <3>1, <3>2
    <2>2. h = [k \in 1 .. n - j + 1 |-> h[k]]
      OBVIOUS
    <2> HIDE DEF h
    <2> QED
      BY <2>1, <2>2
  <1> HIDE DEF h, r
  <1>13. r \in Seq(Fragments) /\ Len(r) = n - j + 1
    <2> DEFINE m == n - j + 1
    <2>1. m \in Nat /\ h \in [1 .. m -> Fragments]
      BY <1>1, <1>12
    <2> HIDE DEF m
    <2>2. h \in Seq(Fragments) /\ Len(h) = m
      BY <2>1
    <2> QED
      BY <2>2, <1>4 DEF m
  <1>14. r # <<>>
    BY <1>1, <1>13, EmptySeq
  <1> QED
    BY <1>1, <1>4, <1>5, <1>6, <1>10, <1>11, <1>13, <1>14 DEF d, r

LEMMA FromCutLength ==
    ASSUME NEW fs \in Seq(Fragments), NEW cut \in Nat, NEW j \in 1 .. Len(fs),
           StartAt(fs, j) <= cut + 1, EndAt(fs, j) > cut
    PROVE  Joined(FromCut(fs, cut)) = Joined(fs) - StartAt(fs, j) - CutIn(fs, cut, j)
  <1> DEFINE n == Len(fs)
             d == CutIn(fs, cut, j)
             r == FromCut(fs, cut)
             m == n - j + 1
             b == SubSeq(fs, j, n)
             x == Cropped(fs[j], d)
             u == <<fs[j]>>
             v == <<x>>
             rest == SubSeq(fs, j + 1, n)
  <1>1. n \in Nat /\ j \in 1 .. n /\ m \in Nat /\ m >= 1 /\ fs[j] \in Fragments
    BY LenProperties, ElementOfSeq
  <1>2. /\ r \in Seq(Fragments) /\ r # <<>> /\ Len(r) = m
        /\ d \in 0 .. Length(fs[j]) - 1
        /\ r[1] = x
        /\ \A k \in 2 .. m : r[k] = fs[j + k - 1]
    BY FromCutIs
  <1>3. Length(fs[j]) \in Nat
    BY <1>1, LengthType
  <1> HIDE DEF d, r
  <1>4. x \in Fragments /\ Length(x) = Length(fs[j]) - d
    BY <1>1, <1>2, <1>3, CroppedType
  <1>5. /\ b \in Seq(Fragments) /\ b # <<>> /\ Len(b) = m
        /\ \A k \in 1 .. m : b[k] = fs[j + k - 1]
    BY Suffixed
  <1>6. Joined(b) = Joined(fs) - StartAt(fs, j) /\ StartAt(fs, j) \in Nat
    BY Ends
  <1>7. u \in Seq(Fragments) /\ u # <<>> /\ Joined(u) = Length(fs[j])
    BY <1>1, JoinedOne
  <1> HIDE DEF x
  <1>8. v \in Seq(Fragments) /\ v # <<>> /\ Joined(v) = Length(x) /\ Len(v) = 1 /\ v[1] = x
    BY <1>4, JoinedOne
  <1>9. Joined(fs) \in Nat
    BY JoinedType
  <1>10. b = u \o rest
    <2>1. n \in j .. n
      BY <1>1
    <2> QED
      BY <2>1, SubSeqRecursiveFirst
  <1>11. CASE j = n
    <2>1. m = 1
      BY <1>1, <1>11
    <2>2. r = v
      <3>1. \A k \in 1 .. 1 : r[k] = v[k]
        BY <1>2, <1>8
      <3> HIDE DEF v
      <3> QED
        BY <3>1, <2>1, <1>2, <1>8, SeqEqual
    <2>3. b = u
      <3>1. rest = <<>>
        BY <1>1, <1>11, SubSeqEmpty
      <3> QED
        BY <3>1, <1>10, <1>7, ConcatEmptySeq
    <2> HIDE DEF b, u, v, m
    <2> QED
      BY <2>2, <2>3, <1>2, <1>3, <1>4, <1>6, <1>7, <1>8, <1>9 DEF r, d
  <1>12. CASE j < n
    <2>1. j + 1 \in 1 .. n /\ n - (j + 1) + 1 = m - 1 /\ m - 1 >= 1
      BY <1>1, <1>12
    <2>2. /\ rest \in Seq(Fragments) /\ rest # <<>> /\ Len(rest) = n - (j + 1) + 1
          /\ \A k \in 1 .. n - (j + 1) + 1 : rest[k] = fs[j + 1 + k - 1]
      BY <2>1, Suffixed
    <2> HIDE DEF rest, v, m
    <2>3. r = v \o rest
      <3>1. /\ v \o rest \in Seq(Fragments) /\ Len(v \o rest) = 1 + (m - 1)
            /\ \A k \in 1 .. 1 + (m - 1) : (v \o rest)[k] = IF k <= 1 THEN v[k] ELSE rest[k - 1]
        <4>1. /\ v \o rest \in Seq(Fragments) /\ Len(v \o rest) = Len(v) + Len(rest)
              /\ \A k \in 1 .. Len(v) + Len(rest) :
                   (v \o rest)[k] = IF k <= Len(v) THEN v[k] ELSE rest[k - Len(v)]
          BY <2>2, <1>8, ConcatProperties
        <4>2. Len(v) = 1 /\ Len(rest) = m - 1
          BY <2>1, <2>2, <1>8
        <4> QED
          BY <4>1, <4>2
      <3>2. 1 + (m - 1) = m
        BY <1>1
      <3>3. ASSUME NEW k \in 1 .. m
            PROVE  r[k] = (v \o rest)[k]
        <4>1. CASE k = 1
          BY <4>1, <3>1, <3>2, <1>2, <1>8
        <4>2. CASE k # 1
          <5>1. /\ k \in 2 .. m /\ k - 1 \in 1 .. n - (j + 1) + 1 /\ ~(k <= 1)
                /\ j + 1 + (k - 1) - 1 = j + k - 1
            BY <4>2, <2>1, <1>1
          <5>2. r[k] = fs[j + k - 1] /\ rest[k - 1] = fs[j + 1 + (k - 1) - 1]
            BY <5>1, <2>2, <1>2
          <5> QED
            BY <5>1, <5>2, <3>1, <3>2
        <4> QED
          BY <4>1, <4>2
      <3> QED
        BY <3>1, <3>2, <3>3, <1>2, SeqEqual
    <2> HIDE DEF b, u
    <2>4. Joined(r) = Joined(v) + 1 + Joined(rest)
      BY <2>2, <2>3, <1>8, JoinedConcat
    <2>5. Joined(b) = Joined(u) + 1 + Joined(rest)
      BY <2>2, <1>7, <1>10, JoinedConcat
    <2>6. Joined(rest) \in Nat
      BY <2>2, JoinedType
    <2> QED
      BY <2>4, <2>5, <2>6, <1>2, <1>3, <1>4, <1>6, <1>7, <1>8, <1>9 DEF r, d
  <1> QED
    BY <1>1, <1>11, <1>12

\* What is cut off is what that many characters from the end are.
LEMMA CutIsLast ==
    ASSUME NEW fs \in Seq(Fragments), NEW cut \in Nat, cut < Joined(fs),
           NEW r, Joined(r) = Joined(fs) - cut
    PROVE  LastChars(fs, Joined(r)) = FromCut(fs, cut)
  <1>1. Joined(fs) \in Nat
    BY JoinedType
  <1>2. Joined(r) # 0 /\ Joined(fs) - Joined(r) = cut
    BY <1>1
  <1>3. Max({cut, 0}) = cut
    <2>1. Max({cut, 0}) = IF cut >= 0 THEN cut ELSE 0
      BY OfTwo
    <2> QED
      BY <2>1
  <1>4. LastChars(fs, Joined(r))
          = FromCut(fs, IF Joined(r) = 0 THEN 0 ELSE Max({Joined(fs) - Joined(r), 0}))
    BY LastCharsIs
  <1> QED
    BY <1>2, <1>3, <1>4

LEMMA SuffixIsLast ==
    ASSUME NEW fs \in Seq(Fragments), NEW i \in 1 .. Len(fs)
    PROVE  SubSeq(fs, i, Len(fs)) = LastChars(fs, Joined(SubSeq(fs, i, Len(fs))))
  <1> DEFINE n == Len(fs)
             b == SubSeq(fs, i, n)
             c == StartAt(fs, i)
             r == FromCut(fs, c)
  <1>1. n \in Nat /\ i \in 1 .. n /\ fs[i] \in Fragments /\ n - i + 1 \in Nat
    BY LenProperties, ElementOfSeq
  <1>2. c \in Nat /\ EndAt(fs, i) > c /\ Joined(b) = Joined(fs) - c
    BY Ends
  <1>3. /\ b \in Seq(Fragments) /\ b # <<>> /\ Len(b) = n - i + 1
        /\ \A k \in 1 .. n - i + 1 : b[k] = fs[i + k - 1]
    BY Suffixed
  <1>4. Joined(b) \in Nat /\ Joined(b) >= 1 /\ Joined(fs) \in Nat
    BY <1>3, JoinedType
  <1>5. c <= c + 1
    BY <1>2
  <1>6. /\ r \in Seq(Fragments) /\ Len(r) = n - i + 1
        /\ CutIn(fs, c, i) = IF c >= c THEN c - c ELSE 0
        /\ r[1] = Cropped(fs[i], CutIn(fs, c, i))
        /\ \A k \in 2 .. n - i + 1 : r[k] = fs[i + k - 1]
    BY <1>2, <1>5, FromCutIs
  <1> HIDE DEF c, r, b
  <1>7. CutIn(fs, c, i) = 0
    BY <1>2, <1>6
  <1>8. r[1] = fs[i]
    <2>1. Length(fs[i]) > 0 /\ 0 \in Nat
      BY <1>1, LengthType
    <2>2. Cropped(fs[i], 0) = fs[i]
      BY <1>1, <2>1, CroppedType
    <2> QED
      BY <2>2, <1>6, <1>7
  <1>9. \A k \in 1 .. n - i + 1 : b[k] = r[k]
    <2> TAKE k \in 1 .. n - i + 1
    <2>1. CASE k = 1
      <3>1. i + 1 - 1 = i
        BY <1>1
      <3> QED
        BY <3>1, <2>1, <1>3, <1>8
    <2>2. CASE k # 1
      <3>1. k \in 2 .. n - i + 1
        BY <2>2, <1>1
      <3> QED
        BY <3>1, <1>3, <1>6
    <2> QED
      BY <2>1, <2>2
  <1>10. b = r
    BY <1>3, <1>6, <1>9, SeqEqual
  <1>11. LastChars(fs, Joined(b)) = FromCut(fs, c)
    BY <1>2, <1>4, CutIsLast
  <1> QED
    BY <1>10, <1>11 DEF r, b

\* The rest after a cut ends the text, and is what it is the end of.
LEMMA RestIsLast ==
    ASSUME NEW fs \in Seq(Fragments), NEW cut \in Nat, cut < Joined(fs)
    PROVE  /\ FromCut(fs, cut) \in Seq(Fragments) /\ FromCut(fs, cut) # <<>>
           /\ Len(FromCut(fs, cut)) <= Len(fs)
           /\ FromCut(fs, cut) = LastChars(fs, Joined(FromCut(fs, cut)))
           /\ Joined(FromCut(fs, cut)) <= Joined(fs) - cut
  <1> DEFINE n == Len(fs)
             j == FirstAfter(fs, cut)
             d == CutIn(fs, cut, j)
             c == StartAt(fs, j) + d
             r == FromCut(fs, cut)
             q == FromCut(fs, c)
  <1>1. j \in 1 .. n /\ EndAt(fs, j) > cut /\ StartAt(fs, j) <= cut + 1
    BY FirstFound
  <1> HIDE DEF j
  <1>2. fs[j] \in Fragments /\ n \in Nat
    BY <1>1, LenProperties, ElementOfSeq
  <1>3. StartAt(fs, j) \in Nat /\ EndAt(fs, j) \in Nat /\ Joined(fs) \in Nat
    BY <1>1, Ends, JoinedType
  <1>4. Length(fs[j]) \in Nat /\ EndAt(fs, j) = StartAt(fs, j) + Length(fs[j])
    BY <1>2, <1>3, LengthType DEF StartAt
  <1>5. /\ r \in Seq(Fragments) /\ r # <<>> /\ Len(r) = n - j + 1
        /\ d \in 0 .. Length(fs[j]) - 1
        /\ d = IF cut >= StartAt(fs, j) THEN cut - StartAt(fs, j) ELSE 0
        /\ r[1] = Cropped(fs[j], d)
        /\ \A k \in 2 .. n - j + 1 : r[k] = fs[j + k - 1]
    BY <1>1, FromCutIs
  <1>6. Joined(r) = Joined(fs) - StartAt(fs, j) - d
    BY <1>1, FromCutLength
  <1> HIDE DEF d, r
  <1>7. c \in Nat /\ StartAt(fs, j) <= c + 1 /\ EndAt(fs, j) > c
    BY <1>3, <1>4, <1>5
  <1>8. Joined(r) = Joined(fs) - c /\ c >= cut
    BY <1>3, <1>5, <1>6
  <1>9. c >= StartAt(fs, j) /\ c - StartAt(fs, j) = d
    BY <1>3, <1>5
  <1> HIDE DEF c
  <1>10. /\ q \in Seq(Fragments) /\ Len(q) = n - j + 1
         /\ CutIn(fs, c, j) = IF c >= StartAt(fs, j) THEN c - StartAt(fs, j) ELSE 0
         /\ q[1] = Cropped(fs[j], CutIn(fs, c, j))
         /\ \A k \in 2 .. n - j + 1 : q[k] = fs[j + k - 1]
    BY <1>1, <1>7, FromCutIs
  <1> HIDE DEF q
  <1>11. \A k \in 1 .. n - j + 1 : r[k] = q[k]
    <2> TAKE k \in 1 .. n - j + 1
    <2>1. CASE k = 1
      BY <2>1, <1>5, <1>9, <1>10
    <2>2. CASE k # 1
      <3>1. k \in 2 .. n - j + 1
        BY <2>2, <1>1, <1>2
      <3> QED
        BY <3>1, <1>5, <1>10
    <2> QED
      BY <2>1, <2>2
  <1>12. r = q
    BY <1>5, <1>10, <1>11, SeqEqual
  <1>13. Joined(r) \in Nat /\ Joined(r) >= 1
    BY <1>5, JoinedType
  <1>14. LastChars(fs, Joined(r)) = FromCut(fs, c)
    <2>1. c < Joined(fs)
      BY <1>3, <1>7, <1>8, <1>13
    <2> QED
      BY <2>1, <1>7, <1>8, CutIsLast
  <1>15. Len(r) <= n
    BY <1>1, <1>2, <1>5
  <1> QED
    BY <1>3, <1>5, <1>7, <1>8, <1>12, <1>13, <1>14, <1>15 DEF r, q

LEMMA OneStart ==
    ASSUME NEW fs \in Seq(Fragments)
    PROVE  /\ SentenceStarts(fs) \subseteq Nat /\ 1 \in SentenceStarts(fs)
           /\ fs # <<>> => SentenceStarts(fs) \subseteq 1 .. Len(fs)
           /\ Cardinality(SentenceStarts(fs)) = 1
                <=> \A i \in 1 .. Len(fs) - 1 : ~EndsSentence(fs[i])
  <1> DEFINE n == Len(fs)
             S == SentenceStarts(fs)
  <1>1. n \in Nat /\ (fs # <<>> => n >= 1)
    BY LenProperties, EmptySeq
  <1>2. S = {1} \union {i \in 2 .. n : EndsSentence(fs[i - 1])}
    BY DEF SentenceStarts
  <1>3. IsFiniteSet(S)
    <2>1. S \subseteq 1 .. n + 1
      BY <1>1, <1>2
    <2>2. IsFiniteSet(1 .. n + 1)
      BY <1>1, FS_Interval
    <2> QED
      BY <2>1, <2>2, FS_Subset
  <1>4. 1 \in S /\ S \subseteq Nat /\ (fs # <<>> => S \subseteq 1 .. n)
    BY <1>1, <1>2
  <1>5. Cardinality(S) = 1 <=> S = {1}
    <2> HIDE DEF S
    <2>1. Cardinality(S) = 1 <=> \E x : S = {x}
      BY <1>3, FS_Singleton
    <2> QED
      BY <2>1, <1>4
  <1>6. S = {1} <=> \A i \in 2 .. n : ~EndsSentence(fs[i - 1])
    BY <1>1, <1>2
  <1>7. (\A i \in 2 .. n : ~EndsSentence(fs[i - 1])) <=> \A i \in 1 .. n - 1 : ~EndsSentence(fs[i])
    <2>1. \A i \in 2 .. n : i - 1 \in 1 .. n - 1
      BY <1>1
    <2>2. \A i \in 1 .. n - 1 : i + 1 \in 2 .. n /\ (i + 1) - 1 = i
      BY <1>1
    <2> QED
      BY <2>1, <2>2
  <1> QED
    BY <1>4, <1>5, <1>6, <1>7

LEMMA CroppedEnds ==
    ASSUME NEW f \in Fragments, NEW d \in Nat, d < Length(f)
    PROVE  EndsSentence(Cropped(f, d)) <=> EndsSentence(f)
  <1>1. /\ Cropped(f, d).p = f.p /\ Cropped(f, d).s = f.s /\ Cropped(f, d).to = f.to
    BY CroppedType
  <1> QED
    BY <1>1 DEF EndsSentence, Sentence

\* The rest after a cut ends where the text does, and is one sentence if the
\* text is.
LEMMA RestKeeps ==
    ASSUME NEW fs \in Seq(Fragments), NEW cut \in Nat, cut < Joined(fs)
    PROVE  /\ Last(FromCut(fs, cut)).p = Last(fs).p
           /\ Cardinality(SentenceStarts(fs)) = 1
                => Cardinality(SentenceStarts(FromCut(fs, cut))) = 1
  <1> DEFINE n == Len(fs)
             j == FirstAfter(fs, cut)
             d == CutIn(fs, cut, j)
             r == FromCut(fs, cut)
             m == n - j + 1
  <1>1. j \in 1 .. n /\ EndAt(fs, j) > cut /\ StartAt(fs, j) <= cut + 1
    BY FirstFound
  <1> HIDE DEF j
  <1>2. fs[j] \in Fragments /\ n \in Nat /\ m \in Nat /\ m >= 1
    BY <1>1, LenProperties, ElementOfSeq
  <1>3. /\ r \in Seq(Fragments) /\ r # <<>> /\ Len(r) = m
        /\ d \in 0 .. Length(fs[j]) - 1
        /\ r[1] = Cropped(fs[j], d)
        /\ \A k \in 2 .. m : r[k] = fs[j + k - 1]
    BY <1>1, FromCutIs
  <1>4. d \in Nat /\ d < Length(fs[j])
    BY <1>2, <1>3, LengthType
  <1> HIDE DEF d, r
  <1>5. Last(r) = r[m] /\ Last(fs) = fs[n] /\ j + m - 1 = n /\ j + 1 - 1 = j
    BY <1>1, <1>2, <1>3 DEF Last
  <1>6. Last(r).p = Last(fs).p
    <2>1. CASE m = 1
      <3>1. r[1].p = fs[j].p
        BY <1>2, <1>3, <1>4, CroppedType
      <3> QED
        BY <3>1, <2>1, <1>1, <1>5
    <2>2. CASE m # 1
      <3>1. m \in 2 .. m
        BY <2>2, <1>2
      <3>2. r[m] = fs[j + m - 1]
        BY <3>1, <1>3
      <3> QED
        BY <3>2, <1>5
    <2> QED
      BY <2>1, <2>2
  <1>7. ASSUME \A i \in 1 .. n - 1 : ~EndsSentence(fs[i]),
               NEW k \in 1 .. m - 1
        PROVE  ~EndsSentence(r[k])
    <2>1. j + k - 1 \in 1 .. n - 1
      BY <1>1, <1>2
    <2>2. EndsSentence(r[k]) <=> EndsSentence(fs[j + k - 1])
      <3>1. CASE k = 1
        <4>1. EndsSentence(r[1]) <=> EndsSentence(fs[j])
          BY <1>2, <1>3, <1>4, CroppedEnds
        <4> QED
          BY <4>1, <3>1, <1>5
      <3>2. CASE k # 1
        <4>1. k \in 2 .. m
          BY <3>2, <1>2
        <4>2. r[k] = fs[j + k - 1]
          BY <4>1, <1>3
        <4> QED
          BY <4>2
      <3> QED
        BY <3>1, <3>2
    <2> QED
      BY <2>1, <2>2, <1>7
  <1>8. Cardinality(SentenceStarts(fs)) = 1 <=> \A i \in 1 .. n - 1 : ~EndsSentence(fs[i])
    BY OneStart
  <1>9. Cardinality(SentenceStarts(r)) = 1 <=> \A i \in 1 .. m - 1 : ~EndsSentence(r[i])
    BY <1>3, OneStart
  <1> QED
    BY <1>6, <1>7, <1>8, <1>9 DEF r

LEMMA CarryoverEnds ==
    ASSUME NEW fs \in Seq(Fragments), fs # <<>>
    PROVE  /\ Carryover(fs) \in Seq(Fragments) /\ Carryover(fs) # <<>>
           /\ Carryover(fs) = LastChars(fs, Joined(Carryover(fs)))
           /\ WellCarried(Carryover(fs))
           /\ Last(Carryover(fs)).p = Last(fs).p
  <1> DEFINE n == Len(fs)
             starts == SentenceStarts(fs)
             fit    == {i \in starts : Joined(SubSeq(fs, i, n)) <= Overlap}
             carry  == Min(fit \union {Max(starts)})
  <1>1. n \in Nat /\ n >= 1 /\ Joined(fs) \in Nat /\ Joined(fs) >= 1 /\ Overlap \in Nat
    BY LenProperties, EmptySeq, JoinedType, ChunkAssumption
  <1>2. starts \subseteq 1 .. n /\ starts # {}
    BY OneStart
  <1>3. CASE Cardinality(starts) = 1
    <2> DEFINE cut == IF Overlap = 0 THEN 0 ELSE Max({Joined(fs) - Overlap, 0})
               r == FromCut(fs, cut)
    <2>1. Carryover(fs) = r
      BY <1>3, LastCharsIs DEF Carryover
    <2>2. cut \in Nat /\ cut < Joined(fs) /\ (Overlap # 0 => Joined(fs) - cut <= Overlap)
      <3>1. Max({Joined(fs) - Overlap, 0})
              = IF Joined(fs) - Overlap >= 0 THEN Joined(fs) - Overlap ELSE 0
        BY <1>1, OfTwo
      <3> QED
        BY <3>1, <1>1
    <2> HIDE DEF cut
    <2>3. /\ r \in Seq(Fragments) /\ r # <<>> /\ r = LastChars(fs, Joined(r))
          /\ Joined(r) <= Joined(fs) - cut
      BY <2>2, RestIsLast
    <2>4. Last(r).p = Last(fs).p /\ Cardinality(SentenceStarts(r)) = 1
      BY <2>2, <1>3, RestKeeps
    <2> HIDE DEF r
    <2> QED
      BY <2>1, <2>3, <2>4 DEF WellCarried
  <1>4. CASE Cardinality(starts) # 1
    <2> DEFINE r == SubSeq(fs, carry, n)
    <2>1. Carryover(fs) = r
      BY <1>4 DEF Carryover
    <2>2. starts \subseteq 0 .. n
      BY <1>2
    <2>3. Max(starts) \in starts /\ \A x \in starts : Max(starts) >= x
      <3> HIDE DEF starts
      <3> QED
        BY <1>1, <1>2, <2>2, GreatestOf
    <2>4. carry \in fit \union {Max(starts)}
      <3> DEFINE T == fit \union {Max(starts)}
      <3>1. T \subseteq Nat /\ T # {}
        BY <1>2, <2>3
      <3> HIDE DEF T
      <3>2. Min(T) \in T
        BY <3>1, LeastOf
      <3> QED
        BY <3>2 DEF T
    <2>5. carry \in 1 .. n /\ (carry \in fit \/ carry = Max(starts))
      BY <1>2, <2>3, <2>4
    <2>6. carry \in fit => Joined(r) <= Overlap
      OBVIOUS
    <2> HIDE DEF carry, fit
    <2>7. /\ r \in Seq(Fragments) /\ r # <<>> /\ Len(r) = n - carry + 1
          /\ \A k \in 1 .. n - carry + 1 : r[k] = fs[carry + k - 1]
      BY <2>5, Suffixed
    <2>8. r = LastChars(fs, Joined(r))
      BY <2>5, SuffixIsLast
    <2> HIDE DEF r
    <2>9. Last(r).p = Last(fs).p
      <3>1. n - carry + 1 \in 1 .. n - carry + 1 /\ carry + (n - carry + 1) - 1 = n
        BY <1>1, <2>5
      <3>2. r[n - carry + 1] = fs[n]
        BY <3>1, <2>7
      <3> QED
        BY <3>2, <2>7 DEF Last
    <2>10. carry = Max(starts) => Cardinality(SentenceStarts(r)) = 1
      <3> SUFFICES ASSUME carry = Max(starts)
                   PROVE  Cardinality(SentenceStarts(r)) = 1
        OBVIOUS
      <3>1. ASSUME NEW k \in 1 .. Len(r) - 1
            PROVE  ~EndsSentence(r[k])
        <4>1. /\ k \in 1 .. n - carry + 1 /\ carry + k \in 2 .. n
              /\ (carry + k) - 1 = carry + k - 1 /\ ~(carry >= carry + k)
          BY <1>1, <2>5, <2>7
        <4>2. carry + k \notin starts
          BY <4>1, <2>3
        <4>3. ~EndsSentence(fs[(carry + k) - 1])
          BY <4>1, <4>2 DEF SentenceStarts
        <4>4. r[k] = fs[carry + k - 1]
          BY <4>1, <2>7
        <4> QED
          BY <4>1, <4>3, <4>4
      <3> QED
        BY <3>1, <2>7, OneStart
    <2>11. WellCarried(r)
      BY <2>5, <2>6, <2>10 DEF WellCarried, r
    <2> QED
      BY <2>1, <2>7, <2>8, <2>9, <2>11
  <1> QED
    BY <1>3, <1>4

-----------------------------------------------------------------------------
(* Texts in order, and what they hold of a sentence *)

Helds(q, p, s) == [i \in DOMAIN q |-> IF q[i].p = p /\ q[i].s = s THEN Length(q[i]) ELSE 0]

LEMMA HeldsType ==
    ASSUME NEW q \in Seq(Fragments), NEW p, NEW s
    PROVE  /\ Len(q) \in Nat
           /\ IntList(Helds(q, p, s), Len(q))
           /\ \A i \in 1 .. Len(q) :
                Helds(q, p, s)[i] = IF q[i].p = p /\ q[i].s = s THEN Length(q[i]) ELSE 0
           /\ Held(q, p, s) = SumFunction(Helds(q, p, s))
           /\ Held(q, p, s) \in Int
  <1>1. Len(q) \in Nat /\ DOMAIN q = 1 .. Len(q)
    BY LenProperties
  <1>2. \A i \in 1 .. Len(q) : q[i] \in Fragments
    BY ElementOfSeq
  <1>3. \A i \in 1 .. Len(q) : Length(q[i]) \in Nat
    BY <1>2, LengthType
  <1>4. /\ IntList(Helds(q, p, s), Len(q))
        /\ \A i \in 1 .. Len(q) :
             Helds(q, p, s)[i] = IF q[i].p = p /\ q[i].s = s THEN Length(q[i]) ELSE 0
    BY <1>1, <1>3 DEF Helds, IntList
  <1>5. SumFunction(Helds(q, p, s)) \in Int
    BY <1>1, <1>4, SumBounds
  <1> QED
    BY <1>1, <1>4, <1>5 DEF Held, Helds

LEMMA HeldNone ==
    ASSUME NEW q \in Seq(Fragments), NEW p, NEW s,
           \A i \in 1 .. Len(q) : ~(q[i].p = p /\ q[i].s = s)
    PROVE  Held(q, p, s) = 0
  <1>1. /\ Len(q) \in Nat /\ IntList(Helds(q, p, s), Len(q))
        /\ \A i \in 1 .. Len(q) : Helds(q, p, s)[i] = 0
        /\ Held(q, p, s) = SumFunction(Helds(q, p, s))
    BY HeldsType
  <1> QED
    BY <1>1, SumBounds

LEMMA HeldOne ==
    ASSUME NEW f \in Fragments
    PROVE  Held(<<f>>, f.p, f.s) = Length(f)
  <1> DEFINE one == <<f>>
  <1>1. one \in Seq(Fragments) /\ Len(one) = 1 /\ one[1] = f /\ 1 \in 1 .. Len(one)
    OBVIOUS
  <1> SUFFICES Held(one, f.p, f.s) = Length(f)
    OBVIOUS
  <1> HIDE DEF one
  <1>2. /\ IntList(Helds(one, f.p, f.s), Len(one))
        /\ Held(one, f.p, f.s) = SumFunction(Helds(one, f.p, f.s))
        /\ Helds(one, f.p, f.s)[1]
             = IF one[1].p = f.p /\ one[1].s = f.s THEN Length(one[1]) ELSE 0
    BY <1>1, HeldsType
  <1>3. SumFunction(Helds(one, f.p, f.s)) = Helds(one, f.p, f.s)[1]
    BY <1>1, <1>2, SumOne
  <1> QED
    BY <1>1, <1>2, <1>3

LEMMA HeldConcat ==
    ASSUME NEW a \in Seq(Fragments), NEW b \in Seq(Fragments), NEW p, NEW s
    PROVE  Held(a \o b, p, s) = Held(a, p, s) + Held(b, p, s)
  <1> DEFINE n == Len(a)
             m == Len(b)
             c == a \o b
             H(q) == Helds(q, p, s)
  <1>1. /\ c \in Seq(Fragments) /\ Len(c) = n + m
        /\ \A i \in 1 .. n + m : c[i] = IF i <= n THEN a[i] ELSE b[i - n]
    BY ConcatProperties
  <1>2. /\ n \in Nat /\ IntList(H(a), n) /\ Held(a, p, s) = SumFunction(H(a))
        /\ \A i \in 1 .. n : H(a)[i] = IF a[i].p = p /\ a[i].s = s THEN Length(a[i]) ELSE 0
    BY HeldsType
  <1>3. /\ m \in Nat /\ IntList(H(b), m) /\ Held(b, p, s) = SumFunction(H(b))
        /\ \A i \in 1 .. m : H(b)[i] = IF b[i].p = p /\ b[i].s = s THEN Length(b[i]) ELSE 0
    BY HeldsType
  <1> HIDE DEF n, m, c
  <1>4. /\ IntList(H(c), n + m) /\ Held(c, p, s) = SumFunction(H(c))
        /\ \A i \in 1 .. n + m : H(c)[i] = IF c[i].p = p /\ c[i].s = s THEN Length(c[i]) ELSE 0
    BY <1>1, HeldsType
  <1>5. ASSUME NEW i \in 1 .. n
        PROVE  H(a)[i] = H(c)[i]
    <2>1. i \in 1 .. n + m /\ i <= n
      BY <1>2, <1>3
    <2> QED
      BY <2>1, <1>1, <1>2, <1>4
  <1>6. ASSUME NEW i \in 1 .. m
        PROVE  H(b)[i] = H(c)[n + i]
    <2>1. n + i \in 1 .. n + m /\ ~(n + i <= n) /\ (n + i) - n = i
      BY <1>2, <1>3
    <2> QED
      BY <2>1, <1>1, <1>3, <1>4
  <1> HIDE DEF H
  <1>7. InARow(H(c), H(a), n, H(b), m)
    BY <1>5, <1>6 DEF InARow
  <1>8. SumFunction(H(c)) = SumFunction(H(a)) + SumFunction(H(b))
    BY <1>2, <1>3, <1>4, <1>7, SumSplit
  <1> QED
    BY <1>2, <1>3, <1>4, <1>8 DEF c

InOrder(q) == \A i, j \in DOMAIN q : i < j => Before(q[i], q[j])

LEMMA InOrderConcat ==
    ASSUME NEW a \in Seq(Fragments), NEW b \in Seq(Fragments), InOrder(a), InOrder(b),
           \A i \in 1 .. Len(a) : \A j \in 1 .. Len(b) : Before(a[i], b[j])
    PROVE  InOrder(a \o b)
  <1> DEFINE n == Len(a)
             m == Len(b)
             c == a \o b
  <1>1. /\ c \in Seq(Fragments) /\ Len(c) = n + m
        /\ \A i \in 1 .. n + m : c[i] = IF i <= n THEN a[i] ELSE b[i - n]
    BY ConcatProperties
  <1>2. /\ n \in Nat /\ m \in Nat
        /\ DOMAIN a = 1 .. n /\ DOMAIN b = 1 .. m
    BY LenProperties
  <1>3. DOMAIN c = 1 .. n + m
    <2> HIDE DEF c, n, m
    <2> QED
      BY <1>1, LenProperties
  <1> HIDE DEF c, n, m
  <1>4. ASSUME NEW i \in 1 .. n + m, NEW j \in 1 .. n + m, i < j
        PROVE  Before(c[i], c[j])
    <2>1. CASE j <= n
      <3>1. i \in 1 .. n /\ j \in 1 .. n /\ i <= n
        BY <2>1, <1>2, <1>4
      <3> QED
        BY <3>1, <2>1, <1>1, <1>2, <1>4 DEF InOrder
    <2>2. CASE i <= n /\ ~(j <= n)
      <3>1. i \in 1 .. n /\ j - n \in 1 .. m
        BY <2>2, <1>2
      <3>2. Before(a[i], b[j - n])
        BY <3>1 DEF n, m
      <3> QED
        BY <3>2, <2>2, <1>1
    <2>3. CASE ~(i <= n)
      <3>1. i - n \in 1 .. m /\ j - n \in 1 .. m /\ i - n < j - n /\ ~(j <= n)
        BY <2>3, <1>2, <1>4
      <3>2. Before(b[i - n], b[j - n])
        BY <3>1, <1>2 DEF InOrder
      <3> QED
        BY <3>1, <3>2, <2>3, <1>1
    <2> QED
      BY <2>1, <2>2, <2>3
  <1> QED
    BY <1>3, <1>4 DEF InOrder, c

\* q is the first k sentences of paragraph p.
Tiles(q, p, k) ==
    /\ q \in Seq(Fragments)
    /\ \A i \in 1 .. Len(q) : q[i].p = p /\ q[i].s \in 1 .. k
    /\ InOrder(q)
    /\ \A s \in 1 .. k : Held(q, p, s) = doc[p].sentences[s].len

\* x is sentence s of paragraph p.
IsSentence(x, p, s) ==
    /\ x \in Seq(Fragments)
    /\ \A i \in 1 .. Len(x) : x[i].p = p /\ x[i].s = s
    /\ InOrder(x)
    /\ Held(x, p, s) = doc[p].sentences[s].len

LEMMA TilesNone ==
    ASSUME NEW p
    PROVE  Tiles(<<>>, p, 0)
  <1> DEFINE nil == <<>>
  <1>1. nil \in Seq(Fragments) /\ Len(nil) = 0 /\ DOMAIN nil = 1 .. 0
    BY EmptySeq
  <1> HIDE DEF nil
  <1>2. Tiles(nil, p, 0)
    BY <1>1 DEF Tiles, InOrder
  <1> QED
    BY <1>2 DEF nil

LEMMA TilesAdd ==
    ASSUME NEW p, NEW k \in Nat, NEW q, Tiles(q, p, k), NEW x, IsSentence(x, p, k + 1)
    PROVE  Tiles(q \o x, p, k + 1)
  <1> DEFINE n == Len(q)
             m == Len(x)
             c == q \o x
  <1>1. /\ q \in Seq(Fragments) /\ x \in Seq(Fragments) /\ InOrder(q) /\ InOrder(x)
        /\ \A i \in 1 .. n : q[i].p = p /\ q[i].s \in 1 .. k
        /\ \A i \in 1 .. m : x[i].p = p /\ x[i].s = k + 1
        /\ \A s \in 1 .. k : Held(q, p, s) = doc[p].sentences[s].len
        /\ Held(x, p, k + 1) = doc[p].sentences[k + 1].len
    BY DEF Tiles, IsSentence
  <1>2. /\ c \in Seq(Fragments) /\ Len(c) = n + m
        /\ \A i \in 1 .. n + m : c[i] = IF i <= n THEN q[i] ELSE x[i - n]
    BY <1>1, ConcatProperties
  <1>3. n \in Nat /\ m \in Nat
    BY <1>1, LenProperties
  <1>4. InOrder(c)
    <2>1. ASSUME NEW i \in 1 .. n, NEW j \in 1 .. m
          PROVE  Before(q[i], x[j])
      BY <1>1 DEF Before
    <2> QED
      BY <2>1, <1>1, InOrderConcat
  <1>5. \A s : Held(c, p, s) = Held(q, p, s) + Held(x, p, s)
    BY <1>1, HeldConcat
  <1>6. ASSUME NEW i \in 1 .. n + m
        PROVE  c[i].p = p /\ c[i].s \in 1 .. k + 1
    <2>1. CASE i <= n
      <3>1. i \in 1 .. n /\ c[i] = q[i]
        BY <2>1, <1>2, <1>3
      <3> QED
        BY <3>1, <1>1
    <2>2. CASE ~(i <= n)
      <3>1. i - n \in 1 .. m /\ c[i] = x[i - n]
        BY <2>2, <1>2, <1>3
      <3> QED
        BY <3>1, <1>1
    <2> QED
      BY <2>1, <2>2
  <1>7. ASSUME NEW s \in 1 .. k + 1
        PROVE  Held(c, p, s) = doc[p].sentences[s].len
    <2>1. Held(q, p, s) \in Int /\ Held(x, p, s) \in Int
      BY <1>1, HeldsType
    <2>2. CASE s = k + 1
      <3>1. \A i \in 1 .. Len(q) : ~(q[i].p = p /\ q[i].s = s)
        BY <2>2, <1>1
      <3>2. Held(q, p, s) = 0
        BY <3>1, <1>1, HeldNone
      <3> QED
        BY <3>2, <2>1, <2>2, <1>1, <1>5
    <2>3. CASE s # k + 1
      <3>1. \A i \in 1 .. Len(x) : ~(x[i].p = p /\ x[i].s = s)
        BY <2>3, <1>1
      <3>2. Held(x, p, s) = 0
        BY <3>1, <1>1, HeldNone
      <3> QED
        BY <3>2, <2>1, <2>3, <1>1, <1>5
    <2> QED
      BY <2>2, <2>3
  <1> HIDE DEF n, m, c
  <1> QED
    BY <1>2, <1>4, <1>6, <1>7 DEF Tiles, c

-----------------------------------------------------------------------------
(* A paragraph and its pieces *)

\* p is a paragraph of n sentences.
Readable(p, n) ==
    /\ n \in Nat \ {0} /\ DOMAIN doc[p].sentences = 1 .. n
    /\ p \in Nat
    /\ \A s \in 1 .. n : doc[p].sentences[s].len \in Nat \ {0}

LEMMA ReadableIs ==
    ASSUME NEW p \in 1 .. Len(doc), doc \in Seq(Paragraphs), ~doc[p].heading
    PROVE  Readable(p, Len(doc[p].sentences))
  <1> DEFINE R == [len : Nat \ {0}, stop : BOOLEAN]
             ss == doc[p].sentences
  <1>1. doc[p] \in Paragraphs
    BY ElementOfSeq
  <1>2. ss \in Seq(R) /\ ss # <<>>
    BY <1>1 DEF Paragraphs
  <1> HIDE DEF R
  <1>3. Len(ss) \in Nat \ {0} /\ DOMAIN ss = 1 .. Len(ss)
    BY <1>2, LenProperties, EmptySeq
  <1>4. \A s \in 1 .. Len(ss) : ss[s] \in R
    BY <1>2, ElementOfSeq
  <1>5. p \in Nat
    OBVIOUS
  <1> QED
    BY <1>3, <1>4, <1>5 DEF Readable, R

LEMMA WholeIs ==
    ASSUME NEW p, NEW n, Readable(p, n), NEW s \in 1 .. n
    PROVE  /\ Whole(p, s) \in Fragments
           /\ Whole(p, s).p = p /\ Whole(p, s).s = s
           /\ Whole(p, s).from = 0 /\ Whole(p, s).to = doc[p].sentences[s].len
           /\ Length(Whole(p, s)) = doc[p].sentences[s].len
           /\ IsSentence(<<Whole(p, s)>>, p, s)
  <1> DEFINE f == Whole(p, s)
             one == <<f>>
  <1>1. /\ f \in Fragments /\ f.p = p /\ f.s = s /\ f.from = 0
        /\ f.to = doc[p].sentences[s].len
        /\ Length(f) = doc[p].sentences[s].len
    BY DEF Readable, Whole, Fragments, Length
  <1> HIDE DEF f
  <1>2. /\ one \in Seq(Fragments) /\ Len(one) = 1 /\ DOMAIN one = 1 .. 1
        /\ one[1] = f /\ Held(one, f.p, f.s) = Length(f)
    BY <1>1, HeldOne
  <1> HIDE DEF one
  <1>3. InOrder(one)
    BY <1>2 DEF InOrder
  <1>4. IsSentence(one, p, s)
    BY <1>1, <1>2, <1>3 DEF IsSentence
  <1> QED
    BY <1>1, <1>4 DEF f, one

LEMMA Multiples ==
    ASSUME NEW M \in Nat \ {0}, NEW L \in Nat \ {0}
    PROVE  LET n == (L + M - 1) \div M IN
           /\ n \in Nat \ {0}
           /\ n * M >= L
           /\ \A k \in 1 .. n : /\ (k - 1) * M \in Nat /\ (k - 1) * M < L
                                /\ k * M = (k - 1) * M + M
  <1> DEFINE n == (L + M - 1) \div M
  <1>1. n \in Int /\ n * M >= L /\ n * M <= L + M - 1
    OBVIOUS
  <1>2. n >= 1
    <2> SUFFICES ASSUME n <= 0
                 PROVE  FALSE
      BY <1>1
    <2>1. n * M <= 0
      <3> HIDE DEF n
      <3> QED
        BY <1>1
    <2> QED
      BY <1>1, <2>1
  <1> HIDE DEF n
  <1>3. ASSUME NEW k \in 1 .. n
        PROVE  (k - 1) * M \in Nat /\ (k - 1) * M < L /\ k * M = (k - 1) * M + M
    <2>1. k * M = (k - 1) * M + M /\ n * M = (n - 1) * M + M
      BY <1>1
    <2>2. (n - k) * M >= 0 /\ (k - 1) * M >= 0
      BY <1>1
    <2>3. n * M = k * M + (n - k) * M
      BY <1>1
    <2>4. k * M \in Int /\ (k - 1) * M \in Int /\ n * M \in Int /\ (n - k) * M \in Int
      BY <1>1
    <2> QED
      BY <1>1, <2>1, <2>2, <2>3, <2>4
  <1> QED
    BY <1>1, <1>2, <1>3 DEF n

\* Sequences of one element each, put together.
LEMMA FlattenSingles ==
    ASSUME NEW S, NEW x \in Seq(S), NEW ps \in Seq(Seq(S)), Len(ps) = Len(x),
           \A i \in 1 .. Len(x) : ps[i] = <<x[i]>>
    PROVE  FlattenSeq(ps) = x
  <1> DEFINE n == Len(x)
  <1>1. n \in Nat
    BY LenProperties
  <1>2. PICK f : Gathers(f, ps, S) /\ FlattenSeq(ps) = f[n]
    BY FlattenSteps
  <1> DEFINE T == {k \in 0 .. n : f[k] = SubSeq(x, 1, k)}
  <1>3. 0 \in T
    <2>1. SubSeq(x, 1, 0) = <<>>
      BY SubSeqEmpty
    <2> QED
      BY <2>1, <1>1, <1>2 DEF Gathers
  <1>4. ASSUME NEW k \in 0 .. n - 1, k \in T
        PROVE  k + 1 \in T
    <2>1. k + 1 \in 1 .. n /\ k + 1 \in 0 .. n /\ (k + 1) - 1 = k /\ 1 \in 1 .. n /\ k + 1 \in 1 .. k + 1
      BY <1>1
    <2>2. f[k + 1] = Cat(f[(k + 1) - 1], ps[k + 1])
      BY <2>1, <1>2 DEF Gathers
    <2>3. SubSeq(x, 1, k + 1) = SubSeq(x, 1, (k + 1) - 1) \o <<x[k + 1]>>
      BY <2>1, SubSeqRecursiveSecond
    <2>4. ps[k + 1] = <<x[k + 1]>>
      BY <2>1
    <2>5. f[k] = SubSeq(x, 1, k)
      BY <1>4
    <2> QED
      BY <2>1, <2>2, <2>3, <2>4, <2>5, Zenon DEF Cat
  <1> HIDE DEF T
  <1>5. n \in T
    BY <1>1, <1>3, <1>4, InductTo
  <1>6. f[n] = SubSeq(x, 1, n)
    BY <1>5 DEF T
  <1> QED
    BY <1>2, <1>6, SubSeqFull

\* a is a piece of paragraph p.
IsPiece(a, p) ==
    /\ a \in Seq(Fragments) /\ a # <<>> /\ WellCut(a)
    /\ \A j \in 1 .. Len(a) : a[j].p = p

ArePieces(ps, p) ==
    /\ ps \in Seq(Seq(Fragments) \ {<<>>})
    /\ \A i \in 1 .. Len(ps) : IsPiece(ps[i], p)

LEMMA NoPieces ==
    ASSUME NEW p
    PROVE  ArePieces(<<>>, p)
  <1> DEFINE nil == <<>>
  <1>1. nil \in Seq(Seq(Fragments) \ {<<>>}) /\ Len(nil) = 0
    OBVIOUS
  <1> HIDE DEF nil
  <1>2. ArePieces(nil, p)
    BY <1>1 DEF ArePieces
  <1> QED
    BY <1>2 DEF nil

LEMMA PiecesType ==
    ASSUME NEW ps \in Seq(Seq(Fragments) \ {<<>>})
    PROVE  ps \in Seq(Seq(Fragments))
  <1> DEFINE S == Seq(Fragments) \ {<<>>}
             T == Seq(Fragments)
  <1>1. S \subseteq T
    OBVIOUS
  <1> HIDE DEF S, T
  <1>2. ps \in Seq(T)
    <2>1. ps \in Seq(S)
      BY DEF S
    <2> QED
      BY <1>1, <2>1, SeqMonotonic
  <1> QED
    BY <1>2 DEF T

LEMMA MorePieces ==
    ASSUME NEW p, NEW ps, ArePieces(ps, p)
    PROVE  /\ \A a : IsPiece(a, p) => ArePieces(Append(ps, a), p)
           /\ \A qs : ArePieces(qs, p) => ArePieces(ps \o qs, p)
  <1> DEFINE S == Seq(Fragments) \ {<<>>}
             n == Len(ps)
  <1>1. ps \in Seq(S) /\ \A i \in 1 .. n : IsPiece(ps[i], p)
    BY DEF ArePieces
  <1>2. \A a : IsPiece(a, p) => a \in S
    BY DEF IsPiece
  <1>3. \A qs : ArePieces(qs, p) => qs \in Seq(S) /\ \A i \in 1 .. Len(qs) : IsPiece(qs[i], p)
    BY DEF ArePieces
  <1>4. \A qs : (qs \in Seq(S) /\ \A i \in 1 .. Len(qs) : IsPiece(qs[i], p)) => ArePieces(qs, p)
    BY DEF ArePieces
  <1> HIDE DEF S
  <1>5. n \in Nat
    BY <1>1, LenProperties
  <1>6. ASSUME NEW a, IsPiece(a, p)
        PROVE  ArePieces(Append(ps, a), p)
    <2> DEFINE qs == Append(ps, a)
    <2>1. /\ qs \in Seq(S) /\ Len(qs) = n + 1
          /\ \A i \in 1 .. n : qs[i] = ps[i]
          /\ qs[n + 1] = a
      BY <1>1, <1>2, <1>6, AppendProperties
    <2> HIDE DEF qs, n
    <2>2. \A i \in 1 .. n + 1 : IsPiece(qs[i], p)
      <3> TAKE i \in 1 .. n + 1
      <3>1. i \in 1 .. n \/ i = n + 1
        BY <1>5
      <3> QED
        BY <3>1, <2>1, <1>1, <1>6
    <2>3. ArePieces(qs, p)
      BY <2>1, <2>2, <1>4
    <2> QED
      BY <2>3 DEF qs
  <1>7. ASSUME NEW qs, ArePieces(qs, p)
        PROVE  ArePieces(ps \o qs, p)
    <2> DEFINE m == Len(qs)
               rs == ps \o qs
    <2>1. qs \in Seq(S) /\ \A i \in 1 .. m : IsPiece(qs[i], p)
      BY <1>3, <1>7
    <2>2. /\ rs \in Seq(S) /\ Len(rs) = n + m
          /\ \A i \in 1 .. n + m : rs[i] = IF i <= n THEN ps[i] ELSE qs[i - n]
      BY <1>1, <2>1, ConcatProperties
    <2>3. m \in Nat
      BY <2>1, LenProperties
    <2> HIDE DEF rs, n, m
    <2>4. \A i \in 1 .. n + m : IsPiece(rs[i], p)
      <3> TAKE i \in 1 .. n + m
      <3>1. CASE i <= n
        <4>1. i \in 1 .. n
          BY <3>1, <1>5, <2>3
        <4> QED
          BY <4>1, <3>1, <2>2, <1>1
      <3>2. CASE ~(i <= n)
        <4>1. i - n \in 1 .. m
          BY <3>2, <1>5, <2>3
        <4> QED
          BY <4>1, <3>2, <2>1, <2>2
      <3> QED
        BY <3>1, <3>2
    <2>5. ArePieces(rs, p)
      BY <2>2, <2>4, <1>4
    <2> QED
      BY <2>5 DEF rs
  <1> QED
    BY <1>6, <1>7

LEMMA ShortPiece ==
    ASSUME NEW f \in Fragments, Length(f) <= MaxChars \/ f.s > 1
    PROVE  IsPiece(<<f>>, f.p)
  <1> DEFINE one == <<f>>
  <1>1. one \in Seq(Fragments) /\ one # <<>> /\ Len(one) = 1 /\ one[1] = f
        /\ Joined(one) = Length(f)
    BY JoinedOne
  <1>2. Length(f) \in Nat /\ MaxChars \in Nat
    BY LengthType, ChunkAssumption
  <1> HIDE DEF one
  <1>3. IsPiece(one, f.p)
    BY <1>1, <1>2 DEF IsPiece, WellCut
  <1> QED
    BY <1>3 DEF one

LEMMA SlicesAre ==
    ASSUME NEW p, NEW n, Readable(p, n), NEW s \in 1 .. n
    PROVE  /\ ArePieces(Slices(Whole(p, s)), p)
           /\ Slices(Whole(p, s)) # <<>>
           /\ IsSentence(FlattenSeq(Slices(Whole(p, s))), p, s)
  <1> DEFINE f == Whole(p, s)
             L == Length(f)
             M == MaxChars
             N == (L + M - 1) \div M
             upto(k) == Min({k * M, L})
             part(k) == [f EXCEPT !.from = (k - 1) * M, !.to = upto(k)]
             x == [k \in 1 .. N |-> part(k)]
             ps == Slices(f)
  <1>1. /\ f \in Fragments /\ f.p = p /\ f.s = s /\ f.from = 0 /\ f.to = L
        /\ L = doc[p].sentences[s].len /\ L \in Nat \ {0}
    <2>1. f \in Fragments /\ f.p = p /\ f.s = s
      BY WholeIs
    <2>2. f.from = 0
      BY WholeIs
    <2>3. f.to = doc[p].sentences[s].len
      BY WholeIs
    <2>4. L = doc[p].sentences[s].len
      BY WholeIs
    <2>5. doc[p].sentences[s].len \in Nat \ {0}
      BY DEF Readable
    <2> HIDE DEF f, L
    <2> QED
      BY <2>1, <2>2, <2>3, <2>4, <2>5
  <1>2. M \in Nat \ {0}
    BY ChunkAssumption
  <1> HIDE DEF f, L, M
  <1>3. /\ N \in Nat \ {0} /\ N * M >= L
        /\ \A k \in 1 .. N : /\ (k - 1) * M \in Nat /\ (k - 1) * M < L
                             /\ k * M = (k - 1) * M + M
    BY <1>1, <1>2, Multiples
  <1>4. ps = [k \in 1 .. N |-> <<part(k)>>]
    BY <1>1 DEF Slices, L, M
  <1> HIDE DEF N
  <1>5. \A k \in 1 .. N : upto(k) = IF k * M <= L THEN k * M ELSE L
    <2> TAKE k \in 1 .. N
    <2>1. k * M \in Int /\ L \in Int
      BY <1>1, <1>3, <1>2
    <2> QED
      BY <2>1, OfTwo
  <1> HIDE DEF upto
  <1>6. ASSUME NEW k \in 1 .. N
        PROVE  /\ part(k) \in Fragments /\ part(k).p = p /\ part(k).s = s
               /\ part(k).from = (k - 1) * M /\ part(k).to = upto(k)
               /\ Length(part(k)) = upto(k) - (k - 1) * M
               /\ Length(part(k)) <= M
    <2>1. (k - 1) * M \in Nat /\ (k - 1) * M < L /\ k * M = (k - 1) * M + M
      BY <1>3
    <2>2. upto(k) \in Nat /\ upto(k) > (k - 1) * M /\ upto(k) <= (k - 1) * M + M
      BY <2>1, <1>1, <1>2, <1>5
    <2>3. /\ part(k).p = p /\ part(k).s = s
          /\ part(k).from = (k - 1) * M /\ part(k).to = upto(k)
          /\ part(k) \in [p : Nat, s : Nat, from : Nat, to : Nat]
      BY <2>1, <2>2, <1>1 DEF Fragments
    <2> HIDE DEF part
    <2>4. part(k) \in Fragments /\ Length(part(k)) = upto(k) - (k - 1) * M
      BY <2>2, <2>3 DEF Fragments, Length
    <2> QED
      BY <2>1, <2>2, <2>3, <2>4, <1>2
  <1> HIDE DEF part
  <1>7. x \in Seq(Fragments) /\ Len(x) = N /\ DOMAIN x = 1 .. N
        /\ \A k \in 1 .. N : x[k] = part(k)
    BY <1>3, <1>6
  <1>8. /\ ps \in Seq(Seq(Fragments) \ {<<>>}) /\ Len(ps) = N /\ ps # <<>>
        /\ \A k \in 1 .. N : ps[k] = <<part(k)>> /\ IsPiece(ps[k], p)
    <2>1. \A k \in 1 .. N : IsPiece(<<part(k)>>, p)
      <3> TAKE k \in 1 .. N
      <3>1. part(k) \in Fragments /\ part(k).p = p /\ Length(part(k)) <= MaxChars
        BY <1>6 DEF M
      <3>2. IsPiece(<<part(k)>>, part(k).p)
        BY <3>1, ShortPiece
      <3> QED
        BY <3>1, <3>2
    <2> DEFINE V == Seq(Fragments) \ {<<>>}
    <2>2. \A k \in 1 .. N : <<part(k)>> \in V
      BY <2>1 DEF IsPiece
    <2> HIDE DEF V
    <2>3. ps \in Seq(V) /\ Len(ps) = N /\ \A k \in 1 .. N : ps[k] = <<part(k)>>
      BY <2>2, <1>3, <1>4
    <2>4. ps # <<>>
      BY <2>3, <1>3, EmptySeq
    <2> QED
      BY <2>1, <2>3, <2>4 DEF V
  <1> HIDE DEF ps, x
  <1>9. FlattenSeq(ps) = x
    <2>1. ps \in Seq(Seq(Fragments))
      BY <1>8, PiecesType
    <2>2. \A i \in 1 .. Len(x) : ps[i] = <<x[i]>>
      BY <1>7, <1>8
    <2> QED
      BY <2>1, <2>2, <1>7, <1>8, FlattenSingles
  <1>10. InOrder(x)
    <2> SUFFICES ASSUME NEW i \in 1 .. N, NEW j \in 1 .. N, i < j
                 PROVE  Before(x[i], x[j])
      BY <1>7 DEF InOrder
    <2>1. /\ x[i].p = p /\ x[j].p = p /\ x[i].s = s /\ x[j].s = s
          /\ x[i].to = upto(i) /\ x[j].from = (j - 1) * M
      BY <1>6, <1>7
    <2>2. (j - 1 - i) * M >= 0 /\ (j - 1) * M = i * M + (j - 1 - i) * M
      BY <1>2, <1>3
    <2>3. i * M \in Int /\ (j - 1) * M \in Int /\ (j - 1 - i) * M \in Int
      BY <1>2, <1>3
    <2>4. upto(i) <= i * M
      BY <1>1, <1>5, <2>3
    <2>5. upto(i) \in Int
      BY <1>1, <1>5, <2>3
    <2> QED
      BY <2>1, <2>2, <2>3, <2>4, <2>5 DEF Before
  <1>11. Held(x, p, s) = L
    <2> DEFINE g == [k \in 0 .. N |-> IF k = 0 THEN 0 ELSE upto(k)]
               H == Helds(x, p, s)
    <2>1. /\ IntList(H, N) /\ Held(x, p, s) = SumFunction(H)
          /\ \A k \in 1 .. N : H[k] = IF x[k].p = p /\ x[k].s = s THEN Length(x[k]) ELSE 0
      BY <1>7, HeldsType
    <2> HIDE DEF H
    <2>2. \A k \in 1 .. N : upto(k) \in Int /\ H[k] = upto(k) - (k - 1) * M
      <3> TAKE k \in 1 .. N
      <3>1. k * M \in Int /\ L \in Int
        BY <1>1, <1>2
      <3> QED
        BY <3>1, <2>1, <1>5, <1>6, <1>7
    <2>3. g \in [0 .. N -> Int] /\ g[0] = 0
      BY <2>2, <1>3
    <2>4. ASSUME NEW k \in 1 .. N
          PROVE  g[k] = g[k - 1] + H[k]
      <3>1. g[k] = upto(k) /\ k - 1 \in 0 .. N
        BY <1>3
      <3>2. g[k - 1] = (k - 1) * M
        <4>1. CASE k = 1
          <5>1. g[0] = 0 /\ 0 * M = 0 /\ k - 1 = 0
            BY <4>1, <2>3, <1>2
          <5> QED
            BY <5>1
        <4>2. CASE k # 1
          <5>1. k - 1 \in 1 .. N /\ k - 1 # 0
            BY <4>2, <1>3
          <5>2. g[k - 1] = upto(k - 1)
            BY <5>1, <3>1
          <5>3. upto(k - 1) = IF (k - 1) * M <= L THEN (k - 1) * M ELSE L
            BY <5>1, <1>5
          <5>4. (k - 1) * M \in Nat /\ (k - 1) * M < L
            BY <1>3
          <5> QED
            BY <5>2, <5>3, <5>4, <1>1
        <4> QED
          BY <4>1, <4>2
      <3>3. (k - 1) * M \in Nat /\ upto(k) \in Int /\ H[k] = upto(k) - (k - 1) * M
        BY <2>2, <1>3
      <3> HIDE DEF g
      <3> QED
        BY <3>1, <3>2, <3>3
    <2>5. g[N] = L
      <3>1. N \in 1 .. N /\ N # 0 /\ N \in 0 .. N
        BY <1>3
      <3>2. upto(N) = IF N * M <= L THEN N * M ELSE L
        BY <3>1, <1>5
      <3>3. N * M \in Int
        BY <1>2, <1>3
      <3>4. g[N] = upto(N)
        BY <3>1
      <3> HIDE DEF g
      <3> QED
        BY <3>2, <3>3, <3>4, <1>1, <1>3
    <2> HIDE DEF g
    <2>6. Sums(g, H, N)
      BY <2>3, <2>4 DEF Sums
    <2>7. SumFunction(H) = g[N]
      BY <2>1, <2>6, <1>3, SumIs
    <2> QED
      BY <2>1, <2>5, <2>7
  <1>12. ArePieces(ps, p)
    BY <1>8 DEF ArePieces
  <1>13. IsSentence(x, p, s)
    BY <1>1, <1>6, <1>7, <1>10, <1>11 DEF IsSentence
  <1> QED
    BY <1>8, <1>9, <1>12, <1>13 DEF ps, f

NonePacked == [pieces |-> <<>>, open |-> <<>>]

\* g[k] is what the first k of fs are packed to.
Packs(g, fs) ==
    g[0] = NonePacked /\ \A i \in 1 .. Len(fs) : g[i] = PackSentence(g[i - 1], fs[i])

LEMMA PackSteps ==
    ASSUME NEW fs \in Seq(Fragments)
    PROVE  \E g : Packs(g, fs) /\ FoldLeft(PackSentence, NonePacked, fs) = g[Len(fs)]
  <1> DEFINE n == Len(fs)
             D == DOMAIN fs
             E(it) == it = [s \in SUBSET D |->
                        IF s = {} THEN NonePacked
                        ELSE PackSentence(it[s \ {Max(s)}], fs[Max(s)])]
             fold == CHOOSE it : E(it)
  <1>1. FoldLeft(PackSentence, NonePacked, fs) = fold[D]
    BY DEF FoldLeft, MapThenFoldSet
  <1> HIDE DEF fold
  <1>2. D = 1 .. n /\ n \in Nat
    BY LenProperties
  <1> HIDE DEF n, D
  <1>3. \A s \in SUBSET D : s # {} => Max(s) \in s /\ \A x \in s : x <= Max(s)
    <2> SUFFICES ASSUME NEW s \in SUBSET D, s # {}
                 PROVE  Max(s) \in s /\ \A x \in s : x <= Max(s)
      OBVIOUS
    <2>1. s \subseteq 0 .. n
      BY <1>2
    <2>2. Max(s) \in s /\ \A x \in s : Max(s) >= x
      BY <1>2, <2>1, GreatestOf
    <2>3. s \subseteq Int
      BY <1>2
    <2> QED
      BY <2>2, <2>3
  <1>4. E(fold)
    <2> DEFINE Upto(k) == {s \in SUBSET D : \A x \in s : x <= k}
               Part(g, k) == \A s \in Upto(k) :
                               g[s] = IF s = {} THEN NonePacked
                                      ELSE PackSentence(g[s \ {Max(s)}], fs[Max(s)])
               T == {k \in 0 .. n : \E g : Part(g, k)}
    <2>1. 0 \in T
      <3>1. \A s \in Upto(0) : s = {}
        BY <1>2
      <3>2. Part([s \in {{}} |-> NonePacked], 0)
        BY <3>1
      <3>3. 0 \in 0 .. n
        BY <1>2
      <3> HIDE DEF Part
      <3> QED
        BY <3>2, <3>3, Zenon
    <2>2. ASSUME NEW k \in 0 .. n - 1, k \in T
          PROVE  k + 1 \in T
      <3>1. PICK g : Part(g, k)
        BY <2>2
      <3> DEFINE h == [s \in SUBSET D |->
                         IF s \in Upto(k) THEN g[s]
                         ELSE PackSentence(g[s \ {Max(s)}], fs[Max(s)])]
      <3>2. \A s \in Upto(k) : h[s] = g[s]
        OBVIOUS
      <3>3. ASSUME NEW s \in Upto(k + 1)
            PROVE  h[s] = IF s = {} THEN NonePacked
                          ELSE PackSentence(h[s \ {Max(s)}], fs[Max(s)])
        <4>1. CASE s = {}
          <5>1. s \in Upto(k)
            BY <4>1
          <5> QED
            BY <4>1, <5>1, <3>1, <3>2
        <4>2. CASE s # {}
          <5>1. s \ {Max(s)} \in Upto(k)
            <6>1. Max(s) \in s /\ (\A x \in s : x <= Max(s)) /\ s \in SUBSET D
              BY <4>2, <1>3
            <6>2. Max(s) <= k + 1 /\ Max(s) \in Int
              <7>1. \A x \in s : x <= k + 1
                OBVIOUS
              <7>2. s \subseteq Int
                BY <6>1, <1>2
              <7> QED
                BY <6>1, <7>1, <7>2
            <6> DEFINE m == Max(s)
            <6> HIDE DEF m
            <6>3. ASSUME NEW x \in s \ {m}
                  PROVE  x <= k
              <7>1. x \in Int /\ x <= m /\ x # m /\ m <= k + 1 /\ m \in Int
                BY <6>1, <6>2, <1>2 DEF m
              <7> QED
                BY <7>1
            <6> QED
              BY <6>1, <6>3 DEF m
          <5>2. h[s \ {Max(s)}] = g[s \ {Max(s)}]
            BY <5>1, <3>2
          <5>3. h[s] = PackSentence(g[s \ {Max(s)}], fs[Max(s)])
            <6>1. CASE s \in Upto(k)
              BY <6>1, <4>2, <3>1, <3>2
            <6>2. CASE s \notin Upto(k)
              BY <6>2
            <6> QED
              BY <6>1, <6>2
          <5> HIDE DEF h
          <5> QED
            BY <4>2, <5>2, <5>3
        <4> QED
          BY <4>1, <4>2
      <3>4. Part(h, k + 1)
        <4> HIDE DEF h
        <4> QED
          BY <3>3
      <3>5. k + 1 \in 0 .. n
        BY <1>2
      <3> HIDE DEF Part, h
      <3> QED
        BY <3>4, <3>5
    <2> HIDE DEF T
    <2>3. n \in T
      BY <1>2, <2>1, <2>2, InductTo
    <2>4. PICK g : Part(g, n)
      BY <2>3 DEF T
    <2> DEFINE h == [s \in SUBSET D |-> g[s]]
    <2>5. E(h)
      <3>1. ASSUME NEW s \in SUBSET D
            PROVE  g[s] = IF s = {} THEN NonePacked
                          ELSE PackSentence(h[s \ {Max(s)}], fs[Max(s)])
        <4>1. s \in Upto(n)
          BY <1>2
        <4>2. s \ {Max(s)} \in SUBSET D
          OBVIOUS
        <4> QED
          BY <4>1, <4>2, <2>4
      <3> QED
        BY <3>1
    <2> HIDE DEF h, E
    <2> QED
      BY <2>5 DEF fold
  <1> DEFINE g == [k \in 0 .. n |-> fold[1 .. k]]
  <1>5. \A k \in 0 .. n : 1 .. k \in SUBSET D
    BY <1>2
  <1>6. g[0] = NonePacked
    <2>1. 1 .. 0 = {} /\ g[0] = fold[1 .. 0] /\ {} \in SUBSET D
      BY <1>2
    <2> QED
      BY <2>1, <1>4
  <1>7. ASSUME NEW i \in 1 .. n
        PROVE  g[i] = PackSentence(g[i - 1], fs[i])
    <2>1. i \in 0 .. n /\ i - 1 \in 0 .. n /\ (1 .. i) \ {i} = 1 .. i - 1 /\ 1 .. i # {}
      <3> HIDE DEF g, E
      <3>1. i \in 1 .. i /\ i \in 0 .. n /\ i - 1 \in 0 .. n
        BY <1>2
      <3>2. (1 .. i) \ {i} = 1 .. i - 1
        BY <1>2
      <3> QED
        BY <3>1, <3>2
    <2>2. Max(1 .. i) = i
      <3> DEFINE s == 1 .. i
      <3>1. s \in SUBSET D /\ s # {}
        BY <2>1, <1>5
      <3>2. Max(s) \in s /\ \A x \in s : x <= Max(s)
        BY <3>1, <1>3
      <3> QED
        BY <3>2, <1>2
    <2>3. fold[1 .. i] = PackSentence(fold[(1 .. i) \ {Max(1 .. i)}], fs[Max(1 .. i)])
      BY <2>1, <1>4, <1>5
    <2> QED
      BY <2>1, <2>2, <2>3
  <1>8. fold[D] = g[n]
    BY <1>2
  <1> HIDE DEF g
  <1>9. Packs(g, fs)
    BY <1>6, <1>7 DEF Packs, n
  <1> QED
    BY <1>1, <1>8, <1>9 DEF n

\* acc is the first k sentences of paragraph p.
WellPacked(acc, p, k) ==
    /\ ArePieces(acc.pieces, p)
    /\ acc.open = <<>> \/ (IsPiece(acc.open, p) /\ k >= 1)
    /\ k >= 1 => acc.pieces # <<>> \/ acc.open # <<>>
    /\ Tiles(FlattenSeq(acc.pieces) \o acc.open, p, k)

LEMMA PackOne ==
    ASSUME NEW p, NEW n, Readable(p, n), NEW k \in Nat, k + 1 \in 1 .. n,
           NEW acc, WellPacked(acc, p, k)
    PROVE  WellPacked(PackSentence(acc, Whole(p, k + 1)), p, k + 1)
  <1> DEFINE A == acc.pieces
             o == acc.open
             f == Whole(p, k + 1)
             F == FlattenSeq(A)
             one == <<f>>
             sl == Slices(f)
             r == PackSentence(acc, f)
             nil == <<>>
  <1>1. /\ ArePieces(A, p) /\ Tiles(F \o o, p, k)
        /\ o = <<>> \/ (IsPiece(o, p) /\ k >= 1)
    BY DEF WellPacked
  <1>2. f \in Fragments /\ f.p = p /\ f.s = k + 1
    BY WholeIs
  <1>3. IsSentence(one, p, k + 1)
    BY WholeIs
  <1>4. ArePieces(sl, p) /\ sl # <<>> /\ IsSentence(FlattenSeq(sl), p, k + 1)
    BY SlicesAre
  <1>5. /\ o # <<>> /\ Joined(Append(o, f)) > MaxChars
           => r.pieces = Append(A, o) /\ r.open = one
        /\ ~(o # <<>> /\ Joined(Append(o, f)) > MaxChars) /\ o = <<>> /\ Length(f) > MaxChars
           => r.pieces = A \o sl /\ r.open = <<>>
        /\ ~(o # <<>> /\ Joined(Append(o, f)) > MaxChars) /\ ~(o = <<>> /\ Length(f) > MaxChars)
           => r.pieces = A /\ r.open = Append(o, f)
    BY DEF PackSentence
  <1> SUFFICES WellPacked(r, p, k + 1)
    OBVIOUS
  <1> HIDE DEF f, r, sl, A, o
  <1>6. one \in Seq(Fragments) /\ one # <<>> /\ Len(one) = 1 /\ one[1] = f
    BY <1>2
  <1>7. /\ A \in Seq(Seq(Fragments)) /\ F \in Seq(Fragments) /\ o \in Seq(Fragments)
        /\ nil \in Seq(Fragments)
    <2>1. A \in Seq(Seq(Fragments))
      BY <1>1, PiecesType DEF ArePieces
    <2>2. F \in Seq(Fragments)
      BY <2>1, FlattenType
    <2>3. nil \in Seq(Fragments)
      BY EmptySeq
    <2>4. o \in Seq(Fragments)
      BY <2>3, <1>1 DEF IsPiece
    <2> QED
      BY <2>1, <2>2, <2>3, <2>4
  <1> HIDE DEF F, one
  <1>8. k + 1 >= 1 /\ MaxChars \in Nat /\ Length(f) \in Nat /\ Joined(Append(o, f)) \in Int
    <2>1. Append(o, f) \in Seq(Fragments)
      BY <1>2, <1>7, AppendProperties
    <2> QED
      <3>1. Length(f) \in Nat /\ Joined(Append(o, f)) \in Nat
        BY <2>1, <1>2, LengthType, JoinedType
      <3> QED
        BY <3>1, ChunkAssumption
  <1>9. Tiles((F \o o) \o one, p, k + 1)
    BY <1>1, <1>3, TilesAdd
  <1>10. CASE o # <<>> /\ Joined(Append(o, f)) > MaxChars
    <2>1. r.pieces = Append(A, o) /\ r.open = one
      BY <1>5, <1>10
    <2>2. IsPiece(o, p) /\ k >= 1
      BY <1>1, <1>10
    <2>3. ArePieces(Append(A, o), p)
      BY <2>2, <1>1, MorePieces
    <2>4. IsPiece(one, p)
      <3>1. f.s > 1
        BY <2>2, <1>2
      <3> QED
        BY <3>1, <1>2, ShortPiece DEF one
    <2>5. FlattenSeq(Append(A, o)) = F \o o
      BY <1>7, FlattenAppend DEF F
    <2>6. Tiles(FlattenSeq(r.pieces) \o r.open, p, k + 1)
      BY <2>1, <2>5, <1>9
    <2> QED
      BY <2>1, <2>3, <2>4, <2>6, <1>6, <1>8 DEF WellPacked
  <1>11. CASE ~(o # <<>> /\ Joined(Append(o, f)) > MaxChars) /\ o = <<>> /\ Length(f) > MaxChars
    <2>1. r.pieces = A \o sl /\ r.open = <<>>
      BY <1>5, <1>11
    <2>2. ArePieces(A \o sl, p)
      BY <1>1, <1>4, MorePieces
    <2>3. sl \in Seq(Seq(Fragments))
      BY <1>4, PiecesType DEF ArePieces
    <2>4. FlattenSeq(A \o sl) = F \o FlattenSeq(sl)
      BY <2>3, <1>7, FlattenConcat DEF F
    <2>5. FlattenSeq(sl) \in Seq(Fragments)
      BY <2>3, FlattenType
    <2>6. (F \o o) = F
      BY <1>7, <1>11, ConcatEmptySeq
    <2>7. Tiles((F \o o) \o FlattenSeq(sl), p, k + 1)
      BY <1>1, <1>4, TilesAdd
    <2>8. F \o FlattenSeq(sl) \in Seq(Fragments)
      BY <2>5, <1>7, ConcatProperties
    <2>9. (F \o FlattenSeq(sl)) \o nil = F \o FlattenSeq(sl)
      BY <2>8, ConcatEmptySeq
    <2>10. Tiles(FlattenSeq(r.pieces) \o r.open, p, k + 1)
      BY <2>1, <2>4, <2>6, <2>7, <2>9
    <2>11. A \o sl # <<>>
      BY <2>3, <1>4, <1>7, ConcatEqualIffEmpty
    <2> QED
      BY <2>1, <2>2, <2>10, <2>11, <1>8 DEF WellPacked
  <1>12. CASE ~(o # <<>> /\ Joined(Append(o, f)) > MaxChars) /\ ~(o = <<>> /\ Length(f) > MaxChars)
    <2>1. r.pieces = A /\ r.open = Append(o, f)
      BY <1>5, <1>12
    <2>2. Append(o, f) = o \o one
      BY <1>2, <1>7, AppendIsConcat DEF one
    <2>3. (F \o o) \o one = F \o (o \o one)
      BY <1>6, <1>7, ConcatAssociative
    <2>4. Tiles(FlattenSeq(r.pieces) \o r.open, p, k + 1)
      BY <2>1, <2>2, <2>3, <1>9 DEF F
    <2>5. /\ Append(o, f) \in Seq(Fragments) /\ Append(o, f) # <<>>
          /\ Len(Append(o, f)) = Len(o) + 1
          /\ \A i \in 1 .. Len(o) : Append(o, f)[i] = o[i]
          /\ Append(o, f)[Len(o) + 1] = f
      BY <1>2, <1>7, AppendProperties
    <2>6. \A j \in 1 .. Len(Append(o, f)) : Append(o, f)[j].p = p
      <3>1. Len(o) \in Nat
        BY <1>7, LenProperties
      <3>2. \A i \in 1 .. Len(o) : o[i].p = p
        <4>1. CASE o = <<>>
          <5>1. Len(o) = 0
            BY <4>1, EmptySeq
          <5> QED
            BY <5>1
        <4>2. CASE IsPiece(o, p)
          BY <4>2 DEF IsPiece
        <4> QED
          BY <4>1, <4>2, <1>1
      <3>3. ASSUME NEW j \in 1 .. Len(o) + 1
            PROVE  Append(o, f)[j].p = p
        <4>1. j \in 1 .. Len(o) \/ j = Len(o) + 1
          BY <3>1
        <4> QED
          BY <4>1, <3>2, <2>5, <1>2
      <3> QED
        BY <3>3, <2>5
    <2>7. Joined(Append(o, f)) <= MaxChars
      <3>1. CASE o # <<>>
        BY <3>1, <1>8, <1>12
      <3>2. CASE o = <<>>
        <4>1. Append(o, f) = one
          BY <3>2, <2>2, <1>6, ConcatEmptySeq
        <4>2. Joined(one) = Length(f)
          BY <1>2, JoinedOne DEF one
        <4> QED
          BY <4>1, <4>2, <3>2, <1>8, <1>12
      <3> QED
        BY <3>1, <3>2
    <2>8. IsPiece(Append(o, f), p)
      BY <2>5, <2>6, <2>7, <1>8 DEF IsPiece, WellCut
    <2> QED
      BY <2>1, <2>4, <2>5, <2>8, <1>1, <1>8 DEF WellPacked
  <1> QED
    BY <1>10, <1>11, <1>12

LEMMA PackedWell ==
    ASSUME NEW p, NEW n, Readable(p, n),
           NEW all \in Seq(Fragments), Len(all) = n, \A s \in 1 .. n : all[s] = Whole(p, s)
    PROVE  /\ Tiles(all, p, n)
           /\ WellPacked(FoldLeft(PackSentence, NonePacked, all), p, n)
  <1>1. n \in Nat \ {0}
    BY DEF Readable
  <1>2. Tiles(all, p, n)
    <2> DEFINE T == {k \in 0 .. n : Tiles(SubSeq(all, 1, k), p, k)}
    <2>1. 0 \in T
      <3>1. SubSeq(all, 1, 0) = <<>>
        BY SubSeqEmpty
      <3>2. Tiles(SubSeq(all, 1, 0), p, 0)
        BY <3>1, TilesNone, Zenon
      <3> QED
        BY <3>2, <1>1
    <2>2. ASSUME NEW k \in 0 .. n - 1, k \in T
          PROVE  k + 1 \in T
      <3>1. /\ k \in Nat /\ k + 1 \in 1 .. n /\ k + 1 \in 0 .. n /\ (k + 1) - 1 = k
            /\ 1 \in 1 .. n /\ k + 1 \in 1 .. n
        BY <1>1
      <3>2. SubSeq(all, 1, k + 1) = SubSeq(all, 1, (k + 1) - 1) \o <<all[k + 1]>>
        BY <3>1, SubSeqRecursiveSecond
      <3>3. all[k + 1] = Whole(p, k + 1)
        BY <3>1
      <3>4. IsSentence(<<Whole(p, k + 1)>>, p, k + 1)
        BY <3>1, WholeIs
      <3> DEFINE q == SubSeq(all, 1, k)
                 x == <<Whole(p, k + 1)>>
      <3>5. Tiles(q, p, k)
        BY <2>2
      <3>6. SubSeq(all, 1, k + 1) = q \o x
        BY <3>1, <3>2, <3>3
      <3> HIDE DEF q, x
      <3>7. Tiles(q \o x, p, k + 1)
        BY <3>1, <3>4, <3>5, TilesAdd DEF x
      <3> QED
        BY <3>1, <3>6, <3>7
    <2> HIDE DEF T
    <2>3. n \in T
      BY <1>1, <2>1, <2>2, InductTo
    <2>4. SubSeq(all, 1, n) = all
      BY SubSeqFull
    <2> QED
      BY <2>3, <2>4 DEF T
  <1>3. PICK g : Packs(g, all) /\ FoldLeft(PackSentence, NonePacked, all) = g[n]
    BY PackSteps
  <1>4. WellPacked(g[n], p, n)
    <2> DEFINE T == {k \in 0 .. n : WellPacked(g[k], p, k)}
    <2>1. 0 \in T
      <3> DEFINE acc == NonePacked
                 nil == <<>>
      <3>1. acc.pieces = <<>> /\ acc.open = <<>>
        BY DEF NonePacked
      <3>2. ArePieces(acc.pieces, p)
        BY <3>1, NoPieces
      <3>3. Tiles(FlattenSeq(acc.pieces) \o acc.open, p, 0)
        <4>1. nil \in Seq(Fragments)
          BY EmptySeq
        <4>2. FlattenSeq(acc.pieces) = nil /\ acc.open = nil
          BY <3>1, FlattenEmpty
        <4>3. nil \o nil = nil /\ Tiles(nil, p, 0)
          BY <4>1, ConcatEmptySeq, TilesNone
        <4> QED
          BY <4>2, <4>3
      <3> HIDE DEF acc
      <3>4. WellPacked(acc, p, 0)
        BY <3>1, <3>2, <3>3 DEF WellPacked
      <3> QED
        BY <3>4, <1>1, <1>3 DEF Packs, acc
    <2>2. ASSUME NEW k \in 0 .. n - 1, k \in T
          PROVE  k + 1 \in T
      <3>1. k \in Nat /\ k + 1 \in 1 .. n /\ k + 1 \in 0 .. n /\ (k + 1) - 1 = k
        BY <1>1
      <3>2. g[k + 1] = PackSentence(g[(k + 1) - 1], all[k + 1])
        BY <3>1, <1>3 DEF Packs
      <3>3. all[k + 1] = Whole(p, k + 1)
        BY <3>1
      <3>4. WellPacked(g[k], p, k)
        BY <2>2
      <3>5. WellPacked(PackSentence(g[k], Whole(p, k + 1)), p, k + 1)
        BY <3>1, <3>4, PackOne
      <3> QED
        BY <3>1, <3>2, <3>3, <3>5
    <2> HIDE DEF T
    <2>3. n \in T
      BY <1>1, <2>1, <2>2, InductTo
    <2> QED
      BY <2>3 DEF T
  <1> QED
    BY <1>2, <1>3, <1>4

\* What a paragraph is cut into.
LEMMA PiecesAre ==
    ASSUME NEW p, NEW n, Readable(p, n)
    PROVE  /\ ArePieces(Pieces(p), p)
           /\ Pieces(p) # <<>>
           /\ Tiles(FlattenSeq(Pieces(p)), p, n)
  <1> DEFINE all == [s \in DOMAIN doc[p].sentences |-> Whole(p, s)]
             packed == FoldLeft(PackSentence, NonePacked, all)
             one == <<all>>
             ps == Pieces(p)
  <1>1. n \in Nat \ {0} /\ DOMAIN doc[p].sentences = 1 .. n /\ n >= 1 /\ 1 \in 1 .. n
    BY DEF Readable
  <1>2. \A s \in 1 .. n : Whole(p, s) \in Fragments /\ Whole(p, s).p = p
    BY WholeIs
  <1>3. /\ all \in Seq(Fragments) /\ Len(all) = n
        /\ \A s \in 1 .. n : all[s] = Whole(p, s)
    BY <1>1, <1>2
  <1>4. ps = IF Joined(all) <= MaxChars THEN <<all>>
             ELSE IF Len(all) = 1 THEN Slices(all[1])
             ELSE IF packed.open = <<>> THEN packed.pieces
             ELSE Append(packed.pieces, packed.open)
    BY DEF Pieces, NonePacked
  <1> HIDE DEF all
  <1>5. Tiles(all, p, n) /\ WellPacked(packed, p, n)
    BY <1>3, PackedWell
  <1> HIDE DEF packed, ps
  <1>6. all # <<>>
    BY <1>1, <1>3, EmptySeq
  <1>7. CASE Joined(all) <= MaxChars
    <2>1. IsPiece(all, p)
      BY <1>2, <1>3, <1>6, <1>7, JoinedType, ChunkAssumption DEF IsPiece, WellCut
    <2> DEFINE nil == <<>>
    <2>2. ArePieces(nil, p)
      BY NoPieces
    <2>3. Append(nil, all) = one
      OBVIOUS
    <2>4. one # <<>> /\ ps = one
      BY <1>4, <1>7
    <2> HIDE DEF nil
    <2>5. ArePieces(Append(nil, all), p)
      BY <2>1, <2>2, MorePieces
    <2>6. FlattenSeq(one) = all
      BY <1>3, FlattenOne
    <2> HIDE DEF one
    <2>7. ArePieces(one, p)
      BY <2>3, <2>5
    <2> QED
      BY <2>4, <2>6, <2>7, <1>5 DEF ps
  <1>8. CASE ~(Joined(all) <= MaxChars) /\ Len(all) = 1
    <2>1. all[1] = Whole(p, 1) /\ n = 1
      BY <1>1, <1>3, <1>8
    <2>2. ps = Slices(Whole(p, 1))
      BY <1>4, <1>8, <2>1
    <2> DEFINE sl == Slices(Whole(p, 1))
               x == FlattenSeq(sl)
               nil == <<>>
    <2>3. ArePieces(sl, p) /\ sl # <<>> /\ IsSentence(x, p, 1)
      BY <1>1, SlicesAre
    <2>4. Tiles(nil, p, 0)
      BY TilesNone
    <2>5. nil \o x = x
      <3>1. x \in Seq(Fragments)
        BY <2>3 DEF IsSentence
      <3> HIDE DEF x
      <3> QED
        BY <3>1, ConcatEmptySeq
    <2>6. Tiles(nil \o x, p, 0 + 1)
      <3>1. IsSentence(x, p, 0 + 1) /\ 0 \in Nat
        BY <2>3
      <3> HIDE DEF nil, x
      <3> QED
        BY <3>1, <2>4, TilesAdd
    <2> HIDE DEF nil, sl
    <2>7. Tiles(x, p, n)
      BY <2>1, <2>5, <2>6
    <2> QED
      BY <2>2, <2>3, <2>7 DEF ps, sl
  <1>9. CASE ~(Joined(all) <= MaxChars) /\ Len(all) # 1
    <2>1. /\ ArePieces(packed.pieces, p)
          /\ packed.open = <<>> \/ IsPiece(packed.open, p)
          /\ packed.pieces # <<>> \/ packed.open # <<>>
          /\ Tiles(FlattenSeq(packed.pieces) \o packed.open, p, n)
      BY <1>1, <1>5 DEF WellPacked
    <2>2. packed.pieces \in Seq(Seq(Fragments))
      BY <2>1, PiecesType DEF ArePieces
    <2>3. FlattenSeq(packed.pieces) \in Seq(Fragments)
      BY <2>2, FlattenType
    <2>4. CASE packed.open = <<>>
      <3>1. ps = packed.pieces
        BY <1>4, <1>9, <2>4
      <3>2. FlattenSeq(packed.pieces) \o packed.open = FlattenSeq(packed.pieces)
        BY <2>3, <2>4, ConcatEmptySeq
      <3> QED
        BY <3>1, <3>2, <2>1, <2>4 DEF ps
    <2>5. CASE packed.open # <<>>
      <3>1. ps = Append(packed.pieces, packed.open)
        BY <1>4, <1>9, <2>5
      <3>2. IsPiece(packed.open, p)
        BY <2>1, <2>5
      <3>3. packed.open \in Seq(Fragments)
        BY <3>2 DEF IsPiece
      <3>4. FlattenSeq(Append(packed.pieces, packed.open))
              = FlattenSeq(packed.pieces) \o packed.open
        BY <2>2, <3>3, FlattenAppend
      <3>5. ArePieces(Append(packed.pieces, packed.open), p)
        BY <2>1, <3>2, MorePieces
      <3>6. Append(packed.pieces, packed.open) # <<>>
        BY <2>2, <3>3, AppendProperties
      <3> QED
        BY <3>1, <3>4, <3>5, <3>6, <2>1 DEF ps
    <2> QED
      BY <2>4, <2>5
  <1> QED
    BY <1>7, <1>8, <1>9

-----------------------------------------------------------------------------
(* Headings *)

LEMMA LastOfIs ==
    ASSUME NEW S, NEW t \in Seq(S), NEW m \in Nat \ {0}
    PROVE  /\ LastOf(t, m) \in Seq(S)
           /\ Len(t) <= m => LastOf(t, m) = t
           /\ Len(t) > m => /\ Len(LastOf(t, m)) = m
                            /\ \A i \in 1 .. m : LastOf(t, m)[i] = t[Len(t) - m + i]
  <1> DEFINE L == Len(t)
             c == Max({1, L - m + 1})
  <1>1. L \in Nat /\ LastOf(t, m) = SubSeq(t, c, L)
    BY LenProperties DEF LastOf
  <1>2. c = IF 1 >= L - m + 1 THEN 1 ELSE L - m + 1
    <2>1. 1 \in Int /\ L - m + 1 \in Int
      BY <1>1
    <2> QED
      BY <2>1, OfTwo
  <1> HIDE DEF c
  <1>3. CASE L <= m
    <2>1. c = 1
      BY <1>1, <1>2, <1>3
    <2>2. SubSeq(t, 1, L) = t
      BY SubSeqFull
    <2>3. LastOf(t, m) = t /\ ~(L > m)
      BY <2>1, <2>2, <1>1, <1>3
    <2> QED
      BY <2>3
  <1>4. CASE L > m
    <2>1. c = L - m + 1 /\ c \in 1 .. L /\ L - c + 1 = m
      BY <1>1, <1>2, <1>4
    <2>2. /\ SubSeq(t, c, L) \in Seq(S) /\ Len(SubSeq(t, c, L)) = L - c + 1
          /\ \A j \in 1 .. L - c + 1 : SubSeq(t, c, L)[j] = t[c + j - 1]
      BY <2>1, Suffixed
    <2>3. \A j \in 1 .. m : c + j - 1 = L - m + j
      BY <1>1, <2>1
    <2> QED
      BY <2>1, <2>2, <2>3, <1>1, <1>4
  <1> QED
    BY <1>1, <1>3, <1>4

HeadingsBefore(p) == {h \in 1 .. p - 1 : doc[h].heading}

\* LatestHeadings, with the length of t.
Latest(t, L, p, n) ==
    /\ L <= n
    /\ \A i, j \in 1 .. L : i < j => t[i] < t[j]
    /\ \A i \in 1 .. L : t[i] \in HeadingsBefore(p)
    /\ \A h \in HeadingsBefore(p) :
         (\E i \in 1 .. L : t[i] = h) \/ (L = n /\ h < t[1])

LEMMA LatestIs ==
    ASSUME NEW t \in Seq(Nat), NEW p, NEW n
    PROVE  LatestHeadings(t, p, n) <=> Latest(t, Len(t), p, n)
  <1>1. DOMAIN t = 1 .. Len(t)
    BY LenProperties
  <1>2. ToSet(t) = {t[i] : i \in 1 .. Len(t)}
    BY <1>1 DEF ToSet
  <1> QED
    BY <1>1, <1>2 DEF LatestHeadings, HeadingsBefore, Latest

LEMMA FewerHeadings ==
    ASSUME NEW t \in Seq(Nat), NEW p, NEW n \in Nat, LatestHeadings(t, p, n),
           NEW m \in 1 .. n
    PROVE  LatestHeadings(LastOf(t, m), p, m)
  <1> DEFINE L == Len(t)
             u == LastOf(t, m)
  <1>1. /\ L <= n
        /\ \A i, j \in 1 .. L : i < j => t[i] < t[j]
        /\ \A i \in 1 .. L : t[i] \in HeadingsBefore(p)
        /\ \A h \in HeadingsBefore(p) :
             (\E i \in 1 .. L : t[i] = h) \/ (L = n /\ h < t[1])
    BY LatestIs DEF Latest
  <1>2. L \in Nat /\ m \in Nat \ {0} /\ \A i \in 1 .. L : t[i] \in Nat
    BY LenProperties, ElementOfSeq
  <1>3. /\ u \in Seq(Nat)
        /\ L <= m => u = t
        /\ L > m => Len(u) = m /\ \A i \in 1 .. m : u[i] = t[L - m + i]
    BY <1>2, LastOfIs
  <1> HIDE DEF u
  <1>4. CASE L <= m
    <2>1. L = n => m = n
      BY <1>2, <1>4
    <2>2. Len(t) <= m
      BY <1>4
    <2>3. LatestHeadings(t, p, m)
      <3> HIDE DEF L
      <3>1. L <= m /\ \A h \in HeadingsBefore(p) :
              (\E i \in 1 .. L : t[i] = h) \/ (L = m /\ h < t[1])
        BY <1>1, <1>4, <2>1
      <3>2. Latest(t, L, p, m)
        BY <3>1, <1>1 DEF Latest
      <3> QED
        BY <3>2, LatestIs DEF L
    <2> QED
      BY <2>3, <1>3, <1>4 DEF u
  <1>5. CASE L > m
    <2>1. Len(u) = m /\ \A i \in 1 .. m : u[i] = t[L - m + i]
      BY <1>3, <1>5
    <2> HIDE DEF L
    <2>2. \A i \in 1 .. m : L - m + i \in 1 .. L
      BY <1>2, <1>5
    <2>3. ASSUME NEW i \in 1 .. m, NEW j \in 1 .. m, i < j
          PROVE  u[i] < u[j]
      <3>1. L - m + i < L - m + j
        BY <1>2, <2>3
      <3> QED
        BY <3>1, <2>1, <2>2, <1>1
    <2>4. \A i \in 1 .. m : u[i] \in HeadingsBefore(p)
      BY <2>1, <2>2, <1>1
    <2>5. ASSUME NEW h \in HeadingsBefore(p), ~\E i \in 1 .. m : u[i] = h
          PROVE  h < u[1]
      <3>1. 1 \in 1 .. m /\ 1 \in 1 .. L /\ L - m + 1 \in 1 .. L /\ 1 < L - m + 1
        BY <1>2, <1>5
      <3>2. u[1] = t[L - m + 1] /\ t[1] < t[L - m + 1] /\ t[1] \in Nat /\ t[L - m + 1] \in Nat
        BY <3>1, <2>1, <1>1, <1>2
      <3>3. CASE L = n /\ h < t[1]
        <4>1. h \in Int
          BY DEF HeadingsBefore
        <4> QED
          BY <4>1, <3>2, <3>3
      <3>4. CASE \E j \in 1 .. L : t[j] = h
        <4>1. PICK j \in 1 .. L : t[j] = h
          BY <3>4
        <4>2. j < L - m + 1
          <5> SUFFICES ASSUME j >= L - m + 1
                       PROVE  FALSE
            BY <1>2
          <5>1. j - (L - m) \in 1 .. m /\ L - m + (j - (L - m)) = j
            BY <1>2
          <5>2. u[j - (L - m)] = t[j]
            BY <5>1, <2>1
          <5> QED
            BY <5>1, <5>2, <4>1, <2>5
        <4>3. t[j] < t[L - m + 1]
          BY <4>2, <3>1, <1>1
        <4> QED
          BY <4>1, <4>3, <3>2
      <3> QED
        BY <3>3, <3>4, <1>1
    <2>6. LatestHeadings(u, p, m)
      <3>1. \A h \in HeadingsBefore(p) :
              (\E i \in 1 .. m : u[i] = h) \/ (m = m /\ h < u[1])
        BY <2>5
      <3>2. Latest(u, m, p, m)
        BY <3>1, <2>3, <2>4, <1>2 DEF Latest
      <3> QED
        BY <3>2, <2>1, <1>3, LatestIs
    <2> QED
      BY <2>6 DEF u
  <1> QED
    BY <1>2, <1>4, <1>5

LEMMA NextHeading ==
    ASSUME NEW t \in Seq(Nat), NEW p \in Nat, NEW n \in Nat, n >= 1,
           LatestHeadings(t, p, n), p >= 1, doc[p].heading
    PROVE  LatestHeadings(LastOf(Append(t, p), n), p + 1, n)
  <1> DEFINE L == Len(t)
             u == Append(t, p)
  <1>1. /\ L <= n
        /\ \A i, j \in 1 .. L : i < j => t[i] < t[j]
        /\ \A i \in 1 .. L : t[i] \in HeadingsBefore(p)
        /\ \A h \in HeadingsBefore(p) :
             (\E i \in 1 .. L : t[i] = h) \/ (L = n /\ h < t[1])
    BY LatestIs DEF Latest
  <1>2. /\ L \in Nat /\ u \in Seq(Nat) /\ Len(u) = L + 1
        /\ \A i \in 1 .. L : u[i] = t[i]
        /\ u[L + 1] = p
    BY LenProperties, AppendProperties
  <1>3. HeadingsBefore(p + 1) = HeadingsBefore(p) \union {p}
    BY DEF HeadingsBefore
  <1>4. \A h \in HeadingsBefore(p) : h \in Nat /\ h < p
    BY DEF HeadingsBefore
  <1> HIDE DEF L, u
  <1>5. ASSUME NEW i \in 1 .. L + 1, NEW j \in 1 .. L + 1, i < j
        PROVE  u[i] < u[j]
    <2>1. i \in 1 .. L
      BY <1>2, <1>5
    <2>2. CASE j \in 1 .. L
      BY <2>1, <2>2, <1>1, <1>2, <1>5
    <2>3. CASE j = L + 1
      BY <2>1, <2>3, <1>1, <1>2, <1>4
    <2> QED
      BY <2>2, <2>3, <1>2
  <1>6. ASSUME NEW i \in 1 .. L + 1
        PROVE  u[i] \in HeadingsBefore(p + 1)
    <2>1. i \in 1 .. L \/ i = L + 1
      BY <1>2
    <2> QED
      BY <2>1, <1>1, <1>2, <1>3
  <1>7. ASSUME NEW h \in HeadingsBefore(p + 1)
        PROVE  (\E i \in 1 .. L + 1 : u[i] = h) \/ (L + 1 = n + 1 /\ h < u[1])
    <2>1. CASE h = p
      <3>1. L + 1 \in 1 .. L + 1
        BY <1>2
      <3> QED
        BY <3>1, <2>1, <1>2
    <2>2. CASE h \in HeadingsBefore(p) /\ \E i \in 1 .. L : t[i] = h
      <3>1. PICK i \in 1 .. L : t[i] = h
        BY <2>2
      <3>2. i \in 1 .. L + 1 /\ u[i] = h
        BY <3>1, <1>2
      <3> QED
        BY <3>2
    <2>3. CASE h \in HeadingsBefore(p) /\ L = n /\ h < t[1]
      <3>1. 1 \in 1 .. L
        BY <2>3, <1>2
      <3> QED
        BY <3>1, <2>3, <1>2
    <2> QED
      BY <2>1, <2>2, <2>3, <1>1, <1>3
  <1>8. LatestHeadings(u, p + 1, n + 1)
    <2>1. L + 1 <= n + 1
      BY <1>1, <1>2
    <2>2. Latest(u, L + 1, p + 1, n + 1)
      BY <2>1, <1>5, <1>6, <1>7 DEF Latest
    <2> QED
      BY <2>2, <1>2, LatestIs
  <1>9. n + 1 \in Nat /\ n \in 1 .. n + 1
    OBVIOUS
  <1> QED
    BY <1>2, <1>8, <1>9, FewerHeadings DEF u

\* Between paragraphs q and p there is no heading.
LEMMA SameHeadings ==
    ASSUME NEW t \in Seq(Nat), NEW p \in Nat, NEW q \in Nat, NEW n,
           q <= p, \A h \in q .. p - 1 : ~doc[h].heading
    PROVE  LatestHeadings(t, p, n) <=> LatestHeadings(t, q, n)
  <1>1. HeadingsBefore(p) = HeadingsBefore(q)
    <2>1. ASSUME NEW h \in HeadingsBefore(p)
          PROVE  h \in HeadingsBefore(q)
      <3>1. h \in 1 .. p - 1 /\ doc[h].heading
        BY DEF HeadingsBefore
      <3>2. h \notin q .. p - 1
        BY <3>1
      <3>3. h \in 1 .. q - 1
        BY <3>1, <3>2
      <3> QED
        BY <3>1, <3>3 DEF HeadingsBefore
    <2>2. ASSUME NEW h \in HeadingsBefore(q)
          PROVE  h \in HeadingsBefore(p)
      BY DEF HeadingsBefore
    <2> QED
      BY <2>1, <2>2
  <1> QED
    BY <1>1, LatestIs DEF Latest

-----------------------------------------------------------------------------
(* What is new in a chunk *)

LEMMA AfterPrefix ==
    ASSUME NEW S, NEW a \in Seq(S), NEW b \in Seq(S)
    PROVE  /\ SubSeq(a \o b, 1, Len(a)) = a
           /\ SubSeq(a \o b, Len(a) + 1, Len(a \o b)) = b
  <1> DEFINE n == Len(a)
             m == Len(b)
             c == a \o b
             r == SubSeq(c, n + 1, Len(c))
             l == SubSeq(c, 1, n)
  <1>1. /\ c \in Seq(S) /\ Len(c) = n + m
        /\ \A i \in 1 .. n + m : c[i] = IF i <= n THEN a[i] ELSE b[i - n]
    BY ConcatProperties
  <1>2. n \in Nat /\ m \in Nat
    BY LenProperties
  <1> HIDE DEF c, n, m
  <1>3. \A i \in 1 .. n + m : c[i] \in S
    BY <1>1, ElementOfSeq
  <1>4. l = a
    <2>1. /\ l \in Seq(S) /\ Len(l) = IF 1 <= n THEN n - 1 + 1 ELSE 0
          /\ \A i \in 1 .. n - 1 + 1 : l[i] = c[1 + i - 1]
      <3>1. 1 \in Int /\ n \in Int /\ \A i \in 1 .. n : c[i] \in S
        BY <1>2, <1>3
      <3> QED
        BY <3>1, SubSeqProperties
    <2>2. Len(l) = n /\ \A i \in 1 .. n : l[i] = a[i]
      BY <2>1, <1>1, <1>2
    <2> HIDE DEF l
    <2> QED
      BY <2>1, <2>2, SeqEqual DEF n
  <1>5. r = b
    <2> DEFINE k == n + 1
               e == n + m
    <2>4. k \in Int /\ e \in Int /\ k = n + 1 /\ e = n + m /\ \A i \in k .. e : c[i] \in S
      BY <1>2, <1>3
    <2>5. r = SubSeq(c, k, e)
      BY <1>1
    <2> HIDE DEF k, e, r
    <2>1. /\ r \in Seq(S) /\ Len(r) = IF k <= e THEN e - k + 1 ELSE 0
          /\ \A i \in 1 .. e - k + 1 : r[i] = c[k + i - 1]
      BY <2>4, <2>5, SubSeqProperties
    <2>2. Len(r) = m
      BY <2>1, <2>4, <1>2
    <2>3. ASSUME NEW i \in 1 .. m
          PROVE  r[i] = b[i]
      <3>1. /\ i \in 1 .. e - k + 1 /\ k + i - 1 = n + i
            /\ n + i \in 1 .. n + m /\ ~(n + i <= n) /\ (n + i) - n = i
        BY <2>4, <1>2
      <3> QED
        BY <3>1, <2>1, <1>1
    <2> QED
      BY <2>1, <2>2, <2>3, SeqEqual DEF m
  <1> QED
    BY <1>4, <1>5 DEF c, n

\* What the pieces cur hold besides the fragments ld.
NewPart(cur, ld) == SubSeq(FlattenSeq(cur), Len(ld) + 1, Len(FlattenSeq(cur)))

Begins(cur, ld) ==
    /\ cur \in Seq(Seq(Fragments) \ {<<>>})
    /\ ld \in Seq(Fragments)
    /\ ld = <<>> \/ (cur # <<>> /\ Head(cur) = ld)

LEMMA NewPartIs ==
    ASSUME NEW cur, NEW ld, Begins(cur, ld)
    PROVE  /\ FlattenSeq(cur) \in Seq(Fragments)
           /\ SubSeq(FlattenSeq(cur), 1, Len(ld)) = ld
           /\ NewPart(cur, ld) \in Seq(Fragments)
           /\ FlattenSeq(cur) = ld \o NewPart(cur, ld)
           /\ \A x \in Seq(Fragments) : FlattenSeq(cur) = ld \o x => NewPart(cur, ld) = x
  <1> DEFINE F == FlattenSeq(cur)
  <1>1. cur \in Seq(Seq(Fragments)) /\ ld \in Seq(Fragments)
    BY PiecesType DEF Begins
  <1>2. F \in Seq(Fragments)
    BY <1>1, FlattenType
  <1>3. \E x \in Seq(Fragments) : F = ld \o x
    <2>1. CASE ld = <<>>
      <3>1. ld \o F = F
        BY <2>1, <1>2, ConcatEmptySeq
      <3> QED
        BY <3>1, <1>2
    <2>2. CASE cur # <<>> /\ Head(cur) = ld
      <3>1. Tail(cur) \in Seq(Seq(Fragments))
        BY <2>2, <1>1, HeadTailProperties
      <3>2. FlattenSeq(Tail(cur)) \in Seq(Fragments)
        BY <3>1, FlattenType
      <3>3. F = Head(cur) \o FlattenSeq(Tail(cur))
        BY <2>2, <1>1, FlattenHead
      <3> QED
        BY <3>2, <3>3, <2>2
    <2> QED
      BY <2>1, <2>2 DEF Begins
  <1>4. ASSUME NEW x \in Seq(Fragments), F = ld \o x
        PROVE  NewPart(cur, ld) = x /\ SubSeq(F, 1, Len(ld)) = ld
    <2>1. /\ SubSeq(ld \o x, 1, Len(ld)) = ld
          /\ SubSeq(ld \o x, Len(ld) + 1, Len(ld \o x)) = x
      BY <1>1, AfterPrefix
    <2> QED
      BY <2>1, <1>4 DEF NewPart
  <1> QED
    BY <1>2, <1>3, <1>4

LEMMA NewPartFew ==
    ASSUME NEW ld \in Seq(Fragments) \ {<<>>}, NEW a \in Seq(Fragments) \ {<<>>}
    PROVE  /\ Begins(<<>>, <<>>) /\ NewPart(<<>>, <<>>) = <<>>
           /\ Begins(<<ld>>, ld) /\ NewPart(<<ld>>, ld) = <<>>
           /\ Begins(<<ld, a>>, ld) /\ NewPart(<<ld, a>>, ld) = a
           /\ Begins(<<a>>, <<>>) /\ NewPart(<<a>>, <<>>) = a
  <1> DEFINE nil == <<>>
             one == <<ld>>
             two == <<ld, a>>
             other == <<a>>
  <1>1. /\ nil \in Seq(Seq(Fragments) \ {<<>>}) /\ nil \in Seq(Fragments)
        /\ one \in Seq(Seq(Fragments) \ {<<>>}) /\ one # <<>> /\ Head(one) = ld
        /\ two \in Seq(Seq(Fragments) \ {<<>>}) /\ two # <<>> /\ Head(two) = ld
        /\ other \in Seq(Seq(Fragments) \ {<<>>})
    BY EmptySeq
  <1>2. /\ FlattenSeq(nil) = nil /\ FlattenSeq(one) = ld /\ FlattenSeq(two) = ld \o a
        /\ FlattenSeq(other) = a
    BY FlattenEmpty, FlattenOne, FlattenTwo
  <1>3. nil \o nil = nil /\ ld \o nil = ld /\ nil \o a = a
    BY <1>1, ConcatEmptySeq
  <1>4. nil = <<>>
    OBVIOUS
  <1> HIDE DEF nil, one, two, other
  <1>5. Begins(nil, nil) /\ Begins(one, ld) /\ Begins(two, ld) /\ Begins(other, nil)
    BY <1>1, <1>4 DEF Begins
  <1>6. NewPart(nil, nil) = nil
    BY <1>1, <1>2, <1>3, <1>5, NewPartIs
  <1>7. NewPart(one, ld) = nil
    BY <1>1, <1>2, <1>3, <1>5, NewPartIs
  <1>8. NewPart(two, ld) = a
    BY <1>2, <1>5, NewPartIs
  <1>9. NewPart(other, nil) = a
    BY <1>2, <1>3, <1>5, NewPartIs
  <1> QED
    BY <1>4, <1>5, <1>6, <1>7, <1>8, <1>9 DEF one, two, other, nil

LEMMA NewPartAppend ==
    ASSUME NEW cur, NEW ld, Begins(cur, ld), NEW a \in Seq(Fragments) \ {<<>>}
    PROVE  /\ Begins(Append(cur, a), ld)
           /\ NewPart(Append(cur, a), ld) = NewPart(cur, ld) \o a
  <1> DEFINE S == Seq(Fragments) \ {<<>>}
             c == Append(cur, a)
             x == NewPart(cur, ld)
  <1>1. /\ cur \in Seq(Seq(Fragments)) /\ cur \in Seq(S) /\ ld \in Seq(Fragments)
        /\ a \in S /\ a \in Seq(Fragments)
    BY PiecesType DEF Begins
  <1>2. FlattenSeq(c) = FlattenSeq(cur) \o a
    BY <1>1, FlattenAppend
  <1>3. x \in Seq(Fragments) /\ FlattenSeq(cur) = ld \o x
    BY NewPartIs
  <1> HIDE DEF x, S
  <1>4. FlattenSeq(c) = ld \o (x \o a) /\ x \o a \in Seq(Fragments)
    <2>1. (ld \o x) \o a = ld \o (x \o a)
      BY <1>1, <1>3, ConcatAssociative
    <2>2. x \o a \in Seq(Fragments)
      BY <1>1, <1>3, ConcatProperties
    <2> QED
      BY <2>1, <2>2, <1>2, <1>3
  <1>5. c \in Seq(S) /\ c # <<>>
    BY <1>1, AppendProperties
  <1>6. cur # <<>> => Head(c) = Head(cur)
    BY <1>1, HeadTailAppend
  <1> HIDE DEF c
  <1>7. Begins(c, ld)
    BY <1>1, <1>5, <1>6 DEF Begins, S
  <1> QED
    BY <1>4, <1>7, NewPartIs DEF c, x

LEMMA LastOfFlat ==
    ASSUME NEW cur \in Seq(Seq(Fragments) \ {<<>>}), cur # <<>>
    PROVE  /\ FlattenSeq(cur) # <<>>
           /\ Last(FlattenSeq(cur)) = Last(Last(cur))
  <1> DEFINE S == Seq(Fragments) \ {<<>>}
             F == FlattenSeq(cur)
  <1> HIDE DEF S
  <1>1. PICK s \in Seq(S), e \in S : cur = Append(s, e)
    <2>1. cur \in Seq(S)
      BY DEF S
    <2> QED
      BY <2>1, SequenceEmptyOrAppend
  <1>2. e \in Seq(Fragments) /\ e # <<>> /\ s \in Seq(Seq(Fragments))
    BY <1>1, PiecesType DEF S
  <1> DEFINE G == FlattenSeq(s)
  <1>3. F = G \o e
    BY <1>1, <1>2, FlattenAppend
  <1>4. G \in Seq(Fragments)
    BY <1>2, FlattenType
  <1> HIDE DEF F, G
  <1>5. Len(G) \in Nat /\ Len(e) \in Nat /\ Len(e) >= 1
    BY <1>2, <1>4, LenProperties, EmptySeq
  <1>6. /\ G \o e \in Seq(Fragments) /\ Len(G \o e) = Len(G) + Len(e)
        /\ \A i \in 1 .. Len(G) + Len(e) : (G \o e)[i] = IF i <= Len(G) THEN G[i] ELSE e[i - Len(G)]
    BY <1>2, <1>4, ConcatProperties
  <1>7. F # <<>>
    BY <1>3, <1>5, <1>6, EmptySeq
  <1>8. Last(cur) = e
    <2>1. Len(cur) = Len(s) + 1 /\ cur[Len(s) + 1] = e
      BY <1>1, AppendProperties
    <2> QED
      BY <2>1 DEF Last
  <1>9. Last(F) = e[Len(e)]
    <2>1. /\ Len(G) + Len(e) \in 1 .. Len(G) + Len(e) /\ ~(Len(G) + Len(e) <= Len(G))
          /\ (Len(G) + Len(e)) - Len(G) = Len(e)
      BY <1>5
    <2>2. (G \o e)[Len(G) + Len(e)] = e[Len(e)]
      BY <2>1, <1>6
    <2> QED
      BY <2>2, <1>3, <1>6 DEF Last
  <1> QED
    BY <1>7, <1>8, <1>9 DEF Last, F

-----------------------------------------------------------------------------
(* A chunk that is closed *)

LEMMA OpenIs ==
    ASSUME ChunkingTypeOK, LeadKept
    PROVE  /\ Begins(current, lead)
           /\ OpenText = IF chunked THEN <<>> ELSE NewPart(current, lead)
           /\ OpenText \in Seq(Fragments)
           /\ NewPieces \in Nat
  <1>1. /\ current \in Seq(Seq(Fragments) \ {<<>>}) /\ lead \in Seq(Fragments)
        /\ chunked \in BOOLEAN
    BY DEF ChunkingTypeOK
  <1>2. lead = <<>> \/ (current # <<>> /\ Head(current) = lead)
    BY DEF LeadKept
  <1>3. Begins(current, lead)
    BY <1>1, <1>2 DEF Begins
  <1>4. OpenText = IF chunked THEN <<>> ELSE NewPart(current, lead)
    BY DEF OpenText, NewPart
  <1>5. NewPart(current, lead) \in Seq(Fragments)
    BY <1>3, NewPartIs
  <1>6. OpenText \in Seq(Fragments)
    <2> DEFINE nil == <<>>
    <2>1. nil \in Seq(Fragments) /\ OpenText = IF chunked THEN nil ELSE NewPart(current, lead)
      BY <1>4, EmptySeq
    <2> HIDE DEF nil
    <2> QED
      BY <2>1, <1>5
  <1>7. NewPieces \in Nat
    <2>1. Len(current) \in Nat /\ (current # <<>> => Len(current) >= 1)
      BY <1>1, LenProperties, EmptySeq
    <2> QED
      BY <2>1, <1>2 DEF NewPieces
  <1> QED
    BY <1>3, <1>4, <1>6, <1>7

\* The only new piece of a chunk is its new text.
LEMMA OneNewPiece ==
    ASSUME ChunkingTypeOK, LeadKept, PiecesWellCut, NewPieces = 1
    PROVE  WellCut(NewPart(current, lead))
  <1> DEFINE S == Seq(Fragments) \ {<<>>}
             one == <<current[1]>>
             two == <<lead, current[2]>>
  <1>1. current \in Seq(S) /\ lead \in Seq(Fragments)
    BY DEF ChunkingTypeOK
  <1>2. lead = <<>> \/ (current # <<>> /\ Head(current) = lead)
    BY DEF LeadKept
  <1>3. \A i \in DOMAIN current : lead = <<>> \/ i > 1 => WellCut(current[i])
    BY DEF PiecesWellCut, IsNew
  <1> HIDE DEF S
  <1>4. Len(current) \in Nat /\ DOMAIN current = 1 .. Len(current)
    BY <1>1, LenProperties
  <1>5. CASE lead = <<>>
    <2>1. Len(current) = 1 /\ 1 \in 1 .. Len(current)
      BY <1>4, <1>5 DEF NewPieces
    <2>2. current[1] \in S /\ WellCut(current[1])
      BY <2>1, <1>1, <1>3, <1>4, <1>5, ElementOfSeq
    <2>3. one \in Seq(S) /\ Len(one) = 1 /\ \A i \in 1 .. 1 : current[i] = one[i]
      BY <2>2
    <2> HIDE DEF one
    <2>4. current = one
      BY <2>1, <2>3, <1>1, SeqEqual
    <2>5. PICK x \in Seq(Fragments) \ {<<>>} : TRUE
      BY <2>2 DEF S
    <2>6. NewPart(one, <<>>) = current[1]
      BY <2>2, <2>5, NewPartFew DEF S, one
    <2> QED
      BY <2>2, <2>4, <2>6, <1>5
  <1>6. CASE lead # <<>>
    <2>1. Len(current) = 2 /\ 1 \in 1 .. Len(current) /\ 2 \in 1 .. Len(current)
      BY <1>4, <1>6 DEF NewPieces
    <2>2. current[2] \in S /\ WellCut(current[2])
      BY <2>1, <1>1, <1>3, <1>4, ElementOfSeq
    <2>3. current[1] = lead /\ lead \in S
      BY <1>1, <1>2, <1>6 DEF S
    <2>4. two \in Seq(S) /\ Len(two) = 2 /\ two[1] = lead /\ two[2] = current[2]
      BY <2>2, <2>3
    <2> HIDE DEF two
    <2>5. \A i \in 1 .. 2 : current[i] = two[i]
      BY <2>3, <2>4
    <2>6. current = two
      BY <2>1, <2>4, <2>5, <1>1, SeqEqual
    <2>7. NewPart(two, lead) = current[2]
      BY <2>2, <2>3, NewPartFew DEF S, two
    <2> QED
      BY <2>2, <2>6, <2>7
  <1> QED
    BY <1>5, <1>6

LEMMA BucketSound ==
    ASSUME ChunkingInv, ~chunked, current # <<>>
    PROVE  /\ Bucket \in Chunks
           /\ Bucket.text = FlattenSeq(current)
           /\ NewText(Bucket) = OpenText
           /\ ChunkSound(Bucket, Append(buckets, Bucket))
  <1> DEFINE b == Bucket
             text == FlattenSeq(current)
             bs == Append(buckets, b)
             over == SubSeq(b.text, 1, b.lead)
  <1>1. /\ ChunkingTypeOK /\ LeadKept /\ SizeKept /\ PiecesWellCut /\ PlacesKept
    BY DEF ChunkingInv
  <1>2. /\ current \in Seq(Seq(Fragments) \ {<<>>}) /\ lead \in Seq(Fragments)
        /\ path \in Seq(Nat) /\ buckets \in Seq(Chunks) /\ size \in Nat
        /\ doc \in Seq(Paragraphs) /\ at \in 1 .. Len(doc) + 1
    BY <1>1 DEF ChunkingTypeOK
  <1>3. /\ b.text = text /\ b.lead = Len(lead) /\ b.size = Stacked(current)
        /\ b.new = NewPieces /\ b.path = LastOf(path, 3)
    BY DEF Bucket, NewPieces
  <1>4. Begins(current, lead) /\ OpenText = NewPart(current, lead) /\ NewPieces \in Nat
    BY <1>1, OpenIs
  <1>5. /\ text \in Seq(Fragments) /\ over = lead
        /\ NewText(b) = NewPart(current, lead)
    <2>1. text \in Seq(Fragments) /\ SubSeq(text, 1, Len(lead)) = lead
      BY <1>4, NewPartIs
    <2> QED
      BY <2>1, <1>3 DEF NewText, NewPart
  <1>6. size = Stacked(current)
    BY <1>1 DEF SizeKept
  <1>7. Len(lead) \in Nat /\ LastOf(path, 3) \in Seq(Nat)
    BY <1>2, LenProperties, LastOfIs
  <1>8. b \in Chunks
    <2>1. b \in [text : Seq(Fragments), lead : Nat, size : Nat, new : Nat, path : Seq(Nat)]
      <3>1. b = [text |-> text, lead |-> Len(lead), size |-> Stacked(current),
                 new |-> NewPieces, path |-> LastOf(path, 3)]
        BY DEF Bucket, NewPieces
      <3> HIDE DEF b, text
      <3> QED
        BY <3>1, <1>2, <1>4, <1>5, <1>6, <1>7
    <2> QED
      BY <2>1 DEF Chunks
  <1> HIDE DEF b, text
  <1>9. /\ bs \in Seq(Chunks) /\ Len(bs) = Len(buckets) + 1 /\ Len(buckets) \in Nat
        /\ \A i \in 1 .. Len(buckets) : bs[i] = buckets[i]
    BY <1>2, <1>8, LenProperties, AppendProperties
  <1> HIDE DEF bs
  <1>10. over = IF Len(bs) = 1 THEN <<>> ELSE LastChars(bs[Len(bs) - 1].text, Joined(over))
    <2>1. CASE buckets = <<>>
      <3>1. Len(bs) = 1
        BY <2>1, <1>9, EmptySeq
      <3>2. lead = <<>>
        BY <2>1, <1>1 DEF LeadKept
      <3> QED
        BY <3>1, <3>2, <1>5
    <2>2. CASE buckets # <<>>
      <3>1. Len(buckets) >= 1
        BY <2>2, <1>2, EmptySeq
      <3>2. /\ Len(bs) # 1 /\ Len(bs) - 1 = Len(buckets)
            /\ Len(buckets) \in 1 .. Len(buckets)
        BY <3>1, <1>9
      <3>3. bs[Len(bs) - 1] = Last(buckets)
        BY <3>2, <1>9 DEF Last
      <3>4. lead = LastChars(Last(buckets).text, Joined(lead))
        BY <2>2, <1>1 DEF LeadKept
      <3>5. lead = LastChars(bs[Len(bs) - 1].text, Joined(lead))
        BY <3>3, <3>4
      <3> HIDE DEF over
      <3> QED
        BY <3>2, <3>5, <1>5
    <2> QED
      BY <2>1, <2>2
  <1>11. ASSUME NEW i \in DOMAIN NewText(b)
         PROVE  LatestHeadings(b.path, NewText(b)[i].p, 3)
    <2> DEFINE p == OpenText[i].p
    <2>1. i \in DOMAIN OpenText
      BY <1>4, <1>5
    <2>2. p \in 1 .. at - 1 /\ \A h \in p .. at - 1 : ~doc[h].heading
      BY <2>1, <1>1 DEF PlacesKept
    <2>3. LatestHeadings(path, at, 4)
      BY <1>1 DEF PlacesKept
    <2>4. at \in Nat
      <3>1. Len(doc) \in Nat
        BY <1>2, LenProperties
      <3> QED
        BY <3>1, <1>2
    <2>5. NewText(b)[i].p = p
      BY <1>4, <1>5
    <2> HIDE DEF p
    <2>6. p \in Nat /\ p <= at
      BY <2>2, <2>4
    <2>7. LatestHeadings(path, p, 4)
      BY <2>2, <2>3, <2>4, <2>6, <1>2, SameHeadings
    <2>8. LatestHeadings(LastOf(path, 3), p, 3)
      <3>1. 4 \in Nat /\ 3 \in 1 .. 4
        OBVIOUS
      <3> QED
        BY <3>1, <2>7, <1>2, FewerHeadings
    <2> QED
      BY <2>5, <2>8, <1>3
  <1>12. b.size > MaxChars => b.new <= 1
    BY <1>1, <1>3, <1>6 DEF SizeKept
  <1>13. b.new = 1 => WellCut(NewText(b))
    BY <1>1, <1>3, <1>5, OneNewPiece
  <1>14. WellCarried(over)
    BY <1>1, <1>5 DEF LeadKept
  <1>15. b.new = 0 => doc[Last(over).p + 1].heading
    <2> SUFFICES ASSUME NewPieces = 0
                 PROVE  doc[Last(over).p + 1].heading
      BY <1>3
    <2>1. doc[LastParagraph + 1].heading
      BY <1>1 DEF PlacesKept
    <2>2. Len(current) \in Nat /\ Len(current) >= 1
      BY <1>2, LenProperties, EmptySeq
    <2>3. lead # <<>> /\ Len(current) = 1
      BY <2>2 DEF NewPieces
    <2>4. Last(current) = lead
      <3>1. current[1] = lead
        BY <2>3, <1>4 DEF Begins
      <3> QED
        BY <3>1, <2>3 DEF Last
    <2>5. Last(over).p = LastParagraph
      BY <2>4, <1>5 DEF LastParagraph
    <2> QED
      BY <2>1, <2>5
  <1>16. ChunkSound(b, bs)
    BY <1>10, <1>11, <1>12, <1>13, <1>14, <1>15 DEF ChunkSound
  <1> QED
    BY <1>3, <1>4, <1>5, <1>8, <1>16 DEF b, bs, text

LEMMA CarryIs ==
    ASSUME ChunkingTypeOK, current # <<>>
    PROVE  /\ Carried = Carryover(FlattenSeq(current))
           /\ Carried \in Seq(Fragments) \ {<<>>}
           /\ Carried = LastChars(FlattenSeq(current), Joined(Carried))
           /\ WellCarried(Carried)
           /\ Last(Carried).p = LastParagraph
  <1> DEFINE text == FlattenSeq(current)
  <1>1. current \in Seq(Seq(Fragments) \ {<<>>})
    BY DEF ChunkingTypeOK
  <1>2. text \in Seq(Fragments)
    BY <1>1, PiecesType, FlattenType
  <1>3. text # <<>> /\ Last(text) = Last(Last(current))
    BY <1>1, LastOfFlat
  <1>4. Carried = Carryover(text)
    BY DEF Carried
  <1> HIDE DEF text
  <1>5. /\ Carryover(text) \in Seq(Fragments) /\ Carryover(text) # <<>>
        /\ Carryover(text) = LastChars(text, Joined(Carryover(text)))
        /\ WellCarried(Carryover(text))
        /\ Last(Carryover(text)).p = Last(text).p
    BY <1>2, <1>3, CarryoverEnds
  <1> QED
    BY <1>3, <1>4, <1>5 DEF LastParagraph, text

LEMMA SoundAppend ==
    ASSUME ChunksSound, buckets \in Seq(Chunks), NEW b \in Chunks,
           ChunkSound(b, Append(buckets, b))
    PROVE  \A k \in DOMAIN Append(buckets, b) :
             ChunkSound(Append(buckets, b)[k], SubSeq(Append(buckets, b), 1, k))
  <1> DEFINE n == Len(buckets)
             bs == Append(buckets, b)
             one == <<b>>
  <1>1. n \in Nat /\ DOMAIN buckets = 1 .. n
    BY LenProperties
  <1>2. /\ bs \in Seq(Chunks) /\ Len(bs) = n + 1 /\ bs[n + 1] = b
        /\ \A i \in 1 .. n : bs[i] = buckets[i]
    BY AppendProperties
  <1>3. bs = buckets \o one /\ one \in Seq(Chunks)
    BY AppendIsConcat
  <1> HIDE DEF bs, one
  <1>4. DOMAIN bs = 1 .. n + 1 /\ SubSeq(bs, 1, n + 1) = bs
    BY <1>2, LenProperties, SubSeqFull
  <1>5. ASSUME NEW k \in 1 .. n + 1
        PROVE  ChunkSound(bs[k], SubSeq(bs, 1, k))
    <2>1. CASE k = n + 1
      BY <2>1, <1>2, <1>4 DEF bs
    <2>2. CASE k # n + 1
      <3>1. k \in 1 .. n /\ 1 \in 1 .. n
        BY <2>2, <1>1
      <3>2. SubSeq(buckets \o one, 1, k) = SubSeq(buckets, 1, k)
        BY <3>1, <1>3, SubSeqOfConcat1
      <3>3. ChunkSound(buckets[k], SubSeq(buckets, 1, k))
        BY <3>1, <1>1 DEF ChunksSound
      <3> QED
        BY <3>1, <3>2, <3>3, <1>2, <1>3
    <2> QED
      BY <2>1, <2>2
  <1> QED
    BY <1>4, <1>5 DEF bs

-----------------------------------------------------------------------------
(* The text of the chunks, of the open one, and of what is still to be packed *)

NewTexts(bs) == [k \in DOMAIN bs |-> NewText(bs[k])]
PackedOf(bs, o, t) == FlattenSeq(NewTexts(bs)) \o o \o FlattenSeq(t)

LEMMA NewTextType ==
    ASSUME NEW b \in Chunks
    PROVE  NewText(b) \in Seq(Fragments)
  <1> DEFINE n == Len(b.text)
             m == b.lead + 1
  <1>1. b.text \in Seq(Fragments) /\ b.lead \in Nat
    BY DEF Chunks
  <1>2. n \in Nat /\ m \in Nat /\ m >= 1
    BY <1>1, LenProperties
  <1>3. \A i \in m .. n : b.text[i] \in Fragments
    <2> SUFFICES ASSUME NEW i \in m .. n
                 PROVE  b.text[i] \in Fragments
      OBVIOUS
    <2>1. i \in 1 .. Len(b.text)
      BY <1>2
    <2> QED
      BY <2>1, <1>1, ElementOfSeq
  <1> HIDE DEF n, m
  <1>4. m \in Int /\ n \in Int
    BY <1>2
  <1>5. SubSeq(b.text, m, n) \in Seq(Fragments)
    BY <1>3, <1>4, SubSeqProperties
  <1> QED
    BY <1>5 DEF NewText, m, n

LEMMA NewTextsType ==
    ASSUME NEW bs \in Seq(Chunks)
    PROVE  /\ NewTexts(bs) \in Seq(Seq(Fragments))
           /\ FlattenSeq(NewTexts(bs)) \in Seq(Fragments)
           /\ \A b \in Chunks : FlattenSeq(NewTexts(Append(bs, b)))
                                  = FlattenSeq(NewTexts(bs)) \o NewText(b)
  <1> DEFINE n == Len(bs)
             S == Seq(Fragments)
             t == NewTexts(bs)
  <1>1. n \in Nat /\ DOMAIN bs = 1 .. n /\ \A i \in 1 .. n : bs[i] \in Chunks
    BY LenProperties, ElementOfSeq
  <1>2. \A i \in 1 .. n : NewText(bs[i]) \in S
    BY <1>1, NewTextType
  <1> HIDE DEF S
  <1>3. t \in Seq(S) /\ Len(t) = n /\ \A i \in 1 .. n : t[i] = NewText(bs[i])
    BY <1>1, <1>2 DEF NewTexts
  <1>4. FlattenSeq(t) \in Seq(Fragments)
    BY <1>3, FlattenType DEF S
  <1>5. ASSUME NEW b \in Chunks
        PROVE  FlattenSeq(NewTexts(Append(bs, b))) = FlattenSeq(t) \o NewText(b)
    <2> DEFINE cs == Append(bs, b)
               u == NewTexts(cs)
               v == Append(t, NewText(b))
    <2>1. /\ cs \in Seq(Chunks) /\ Len(cs) = n + 1 /\ cs[n + 1] = b
          /\ \A i \in 1 .. n : cs[i] = bs[i]
      BY AppendProperties
    <2>2. NewText(b) \in S
      BY NewTextType DEF S
    <2> HIDE DEF cs
    <2>3. DOMAIN cs = 1 .. n + 1 /\ \A i \in 1 .. n + 1 : cs[i] \in Chunks
      BY <2>1, LenProperties, ElementOfSeq
    <2>4. \A i \in 1 .. n + 1 : NewText(cs[i]) \in S
      BY <2>3, NewTextType DEF S
    <2> HIDE DEF n
    <2>5. u \in Seq(S) /\ Len(u) = n + 1 /\ \A i \in 1 .. n + 1 : u[i] = NewText(cs[i])
      BY <2>3, <2>4, <1>1 DEF NewTexts
    <2> HIDE DEF u, t
    <2>6. /\ v \in Seq(S) /\ Len(v) = n + 1 /\ v[n + 1] = NewText(b)
          /\ \A i \in 1 .. n : v[i] = t[i]
      BY <2>2, <1>3, AppendProperties
    <2> HIDE DEF v
    <2>7. \A i \in 1 .. n + 1 : u[i] = v[i]
      <3> TAKE i \in 1 .. n + 1
      <3>1. i \in 1 .. n \/ i = n + 1
        BY <1>1
      <3> QED
        BY <3>1, <2>1, <2>5, <2>6, <1>3
    <2>8. u = v
      BY <2>5, <2>6, <2>7, SeqEqual
    <2>9. FlattenSeq(Append(t, NewText(b))) = FlattenSeq(t) \o NewText(b)
      BY <2>2, <1>3, FlattenAppend DEF S
    <2> QED
      BY <2>8, <2>9 DEF u, v, cs
  <1> QED
    BY <1>3, <1>4, <1>5 DEF S

LEMMA PackedMoves ==
    ASSUME NEW bs \in Seq(Chunks), NEW o \in Seq(Fragments), NEW t \in Seq(Seq(Fragments))
    PROVE  /\ PackedOf(bs, o, t) \in Seq(Fragments)
           /\ \A b \in Chunks : PackedOf(Append(bs, b), o, t) = PackedOf(bs, NewText(b) \o o, t)
           /\ t # <<>> => PackedOf(bs, o \o Head(t), Tail(t)) = PackedOf(bs, o, t)
           /\ PackedOf(bs, o, t) = PackedOf(bs, o, <<>>) \o FlattenSeq(t)
  <1> DEFINE x == FlattenSeq(NewTexts(bs))
             y == FlattenSeq(t)
  <1>1. x \in Seq(Fragments) /\ y \in Seq(Fragments)
    BY NewTextsType, FlattenType
  <1>2. PackedOf(bs, o, t) = (x \o o) \o y
    BY DEF PackedOf
  <1>3. x \o o \in Seq(Fragments) /\ (x \o o) \o y \in Seq(Fragments)
    <2> HIDE DEF x, y
    <2>1. x \o o \in Seq(Fragments)
      BY <1>1, ConcatProperties
    <2> QED
      BY <2>1, <1>1, ConcatProperties
  <1>4. ASSUME NEW b \in Chunks
        PROVE  PackedOf(Append(bs, b), o, t) = PackedOf(bs, NewText(b) \o o, t)
    <2> DEFINE z == NewText(b)
    <2>1. FlattenSeq(NewTexts(Append(bs, b))) = x \o z /\ z \in Seq(Fragments)
      BY NewTextsType, NewTextType
    <2>2. PackedOf(Append(bs, b), o, t) = ((x \o z) \o o) \o y
      BY <2>1 DEF PackedOf
    <2>3. PackedOf(bs, z \o o, t) = (x \o (z \o o)) \o y
      BY DEF PackedOf
    <2> HIDE DEF x, y, z
    <2>4. (x \o z) \o o = x \o (z \o o)
      BY <2>1, <1>1, ConcatAssociative
    <2> QED
      BY <2>2, <2>3, <2>4 DEF z
  <1>5. ASSUME t # <<>>
        PROVE  PackedOf(bs, o \o Head(t), Tail(t)) = PackedOf(bs, o, t)
    <2> DEFINE h == Head(t)
               r == FlattenSeq(Tail(t))
    <2>1. h \in Seq(Fragments) /\ r \in Seq(Fragments)
      BY <1>5, HeadTailProperties, FlattenType
    <2>2. y = h \o r
      BY <1>5, FlattenHead
    <2>3. PackedOf(bs, o \o h, Tail(t)) = (x \o (o \o h)) \o r
      BY DEF PackedOf
    <2> HIDE DEF x, y, h, r
    <2>4. (x \o o) \o (h \o r) = ((x \o o) \o h) \o r
      <3> DEFINE w == x \o o
      <3>1. w \in Seq(Fragments)
        BY <1>3
      <3> HIDE DEF w
      <3>2. w \o (h \o r) = (w \o h) \o r
        BY <2>1, <3>1, ConcatAssociative
      <3> QED
        BY <3>2 DEF w
    <2>5. (x \o o) \o h = x \o (o \o h)
      BY <2>1, <1>1, ConcatAssociative
    <2> QED
      BY <2>2, <2>3, <2>4, <2>5, <1>2 DEF h
  <1>6. PackedOf(bs, o, <<>>) = x \o o
    <2> DEFINE nil == <<>>
    <2>1. FlattenSeq(nil) = nil
      BY FlattenEmpty
    <2>2. PackedOf(bs, o, nil) = (x \o o) \o FlattenSeq(nil)
      BY DEF PackedOf
    <2>3. (x \o o) \o nil = x \o o
      BY <1>3, ConcatEmptySeq
    <2> QED
      BY <2>1, <2>2, <2>3
  <1> HIDE DEF x, y
  <1> QED
    BY <1>2, <1>3, <1>4, <1>5, <1>6 DEF y

-----------------------------------------------------------------------------
(* The invariant *)

LEMMA PackedIs ==
    /\ Packed = PackedOf(buckets, OpenText, todo)
    /\ Packed' = PackedOf(buckets', OpenText', todo')
  BY DEF Packed, PackedOf, NewTexts

\* Texts do not change: what is said of the next state's chunks can be said of
\* them in this one.
LEMMA SameDoc ==
    ASSUME doc' = doc
    PROVE  /\ WellCarried(lead)' <=> WellCarried(lead')
           /\ LatestHeadings(path, at, 4)' <=> LatestHeadings(path', at', 4)
           /\ ChunksSound' <=> \A k \in DOMAIN buckets' :
                                 ChunkSound(buckets'[k], SubSeq(buckets', 1, k))
  <1>1. WellCarried(lead)' <=> WellCarried(lead')
    BY DEF WellCarried, SentenceStarts, EndsSentence, Sentence
  <1>2. LatestHeadings(path, at, 4)' <=> LatestHeadings(path', at', 4)
    BY DEF LatestHeadings
  <1>3. ChunksSound' <=> \A k \in DOMAIN buckets' :
                           ChunkSound(buckets'[k], SubSeq(buckets', 1, k))
    BY DEF ChunksSound, ChunkSound, LatestHeadings, WellCarried, SentenceStarts,
           EndsSentence, Sentence
  <1> QED
    BY <1>1, <1>2, <1>3

LEMMA ChunkingStart == ChunkingInit => ChunkingInv
  <1> SUFFICES ASSUME ChunkingInit
               PROVE  ChunkingInv
    OBVIOUS
  <1> DEFINE nil == <<>>
  <1>1. /\ doc \in Texts /\ at = 1 /\ todo = nil /\ current = nil /\ size = 0
        /\ lead = nil /\ path = nil /\ buckets = nil /\ chunked = FALSE
    BY DEF ChunkingInit
  <1>2. doc \in Seq(Paragraphs)
    BY <1>1, TextAssumption
  <1>3. \A S : nil \in Seq(S)
    BY EmptySeq
  <1>4. Len(nil) = 0 /\ nil = <<>> /\ DOMAIN nil = {}
    BY EmptySeq
  <1>5. Joined(nil) = 0 /\ Stacked(nil) = 0
    BY JoinedEmpty, StackedEmpty
  <1> HIDE DEF nil
  <1>6. MaxChars \in Nat \ {0} /\ Overlap \in Nat
    BY ChunkAssumption
  <1>7. ChunkingTypeOK
    <2>1. Len(doc) \in Nat
      BY <1>2, LenProperties
    <2>2. at \in 1 .. Len(doc) + 1
      BY <2>1, <1>1
    <2> QED
      BY <2>2, <1>1, <1>2, <1>3 DEF ChunkingTypeOK
  <1>8. LeadKept
    BY <1>1, <1>4, <1>5, <1>6 DEF LeadKept, WellCarried
  <1>9. SizeKept
    BY <1>1, <1>5, <1>6 DEF SizeKept
  <1>10. PiecesWellCut
    BY <1>1, <1>4 DEF PiecesWellCut, IsNew
  <1>11. OpenText = nil
    <2>1. Begins(current, lead) /\ OpenText = NewPart(current, lead)
      BY <1>1, <1>7, <1>8, OpenIs
    <2>2. FlattenSeq(nil) = nil /\ nil \o nil = nil
      BY <1>3, <1>4, FlattenEmpty, ConcatEmptySeq
    <2>3. NewPart(nil, nil) = nil
      BY <2>1, <2>2, <1>1, <1>3, NewPartIs
    <2> QED
      BY <2>1, <2>3, <1>1
  <1>12. PlacesKept
    <2>1. LatestHeadings(path, at, 4)
      <3>1. Latest(nil, 0, 1, 4)
        BY DEF Latest, HeadingsBefore
      <3>2. LatestHeadings(nil, 1, 4) <=> Latest(nil, Len(nil), 1, 4)
        BY <1>3, LatestIs
      <3> QED
        BY <3>1, <3>2, <1>1, <1>4
    <2>2. NewPieces = 0
      BY <1>1, <1>4 DEF NewPieces
    <2> QED
      BY <2>1, <2>2, <1>1, <1>4, <1>11 DEF PlacesKept
  <1>13. Packed = nil
    <2>1. Packed = PackedOf(nil, nil, nil)
      BY <1>1, <1>11, PackedIs
    <2>2. NewTexts(nil) = nil
      <3>1. NewTexts(nil) \in Seq(Seq(Fragments)) /\ DOMAIN NewTexts(nil) = {}
        BY <1>3, <1>4, NewTextsType DEF NewTexts
      <3>2. Len(NewTexts(nil)) \in Nat /\ DOMAIN NewTexts(nil) = 1 .. Len(NewTexts(nil))
        BY <3>1, LenProperties
      <3>3. Len(NewTexts(nil)) = 0
        BY <3>1, <3>2
      <3> QED
        BY <3>1, <3>3, <1>4, EmptySeq
    <2>3. FlattenSeq(nil) = nil /\ nil \o nil = nil
      BY <1>3, <1>4, FlattenEmpty, ConcatEmptySeq
    <2> QED
      BY <2>1, <2>2, <2>3 DEF PackedOf
  <1>14. TextKept
    BY <1>1, <1>4, <1>13 DEF TextKept
  <1>15. ChunksSound
    BY <1>1, <1>4 DEF ChunksSound
  <1> QED
    BY <1>7, <1>8, <1>9, <1>10, <1>12, <1>14, <1>15 DEF ChunkingInv

\* Chunks are closed, and begun, as they should be.
LEMMA FlushKeeps ==
    ASSUME ChunkingInv, doc' = doc, ~chunked, current # <<>>, FlushBucket,
           lead' = Carried, current' # <<>>, Head(current') = lead'
    PROVE  /\ buckets' = Append(buckets, Bucket) /\ Bucket \in Chunks
           /\ buckets' \in Seq(Chunks)
           /\ lead' \in Seq(Fragments) \ {<<>>}
           /\ Last(lead').p = LastParagraph
           /\ NewText(Bucket) = OpenText
           /\ LeadKept' /\ ChunksSound'
  <1>1. ChunkingTypeOK /\ ChunksSound /\ buckets \in Seq(Chunks)
    BY DEF ChunkingInv, ChunkingTypeOK
  <1>2. buckets' = Append(buckets, Bucket)
    BY DEF FlushBucket
  <1>3. /\ Bucket \in Chunks /\ Bucket.text = FlattenSeq(current)
        /\ NewText(Bucket) = OpenText
        /\ ChunkSound(Bucket, Append(buckets, Bucket))
    BY BucketSound
  <1>4. /\ lead' \in Seq(Fragments) \ {<<>>}
        /\ lead' = LastChars(FlattenSeq(current), Joined(lead'))
        /\ WellCarried(lead')
        /\ Last(lead').p = LastParagraph
    BY <1>1, CarryIs
  <1> DEFINE b == Bucket
  <1> HIDE DEF b
  <1>5. b \in Chunks /\ buckets' = Append(buckets, b) /\ b.text = FlattenSeq(current)
    BY <1>2, <1>3 DEF b
  <1>6. /\ buckets' \in Seq(Chunks) /\ buckets' # <<>> /\ Last(buckets') = b
    <2>1. /\ Append(buckets, b) \in Seq(Chunks) /\ Append(buckets, b) # <<>>
          /\ Len(Append(buckets, b)) = Len(buckets) + 1
          /\ Append(buckets, b)[Len(buckets) + 1] = b
      BY <1>1, <1>5, AppendProperties
    <2>2. Last(Append(buckets, b)) = b
      BY <2>1 DEF Last
    <2> QED
      BY <2>1, <2>2, <1>5
  <1>7. LeadKept'
    <2>1. WellCarried(lead)'
      BY <1>4, SameDoc
    <2>2. lead' # <<>> /\ lead' = LastChars(Last(buckets').text, Joined(lead'))
      BY <1>4, <1>5, <1>6
    <2> QED
      BY <2>1, <2>2, <1>6 DEF LeadKept
  <1>8. ChunksSound'
    <2>1. \A k \in DOMAIN buckets' : ChunkSound(buckets'[k], SubSeq(buckets', 1, k))
      BY <1>1, <1>2, <1>3, SoundAppend
    <2> QED
      BY <2>1, SameDoc
  <1> QED
    BY <1>2, <1>3, <1>4, <1>6, <1>7, <1>8

\* What is read before a heading, or without reading on, stays as it is.
LEMMA TextStays ==
    ASSUME ChunkingInv, doc' = doc, Packed' = Packed,
           at' = at \/ (at' = at + 1 /\ at <= Len(doc) /\ doc[at].heading)
    PROVE  TextKept'
  <1>1. /\ TextKept /\ doc \in Seq(Paragraphs) /\ at \in 1 .. Len(doc) + 1
        /\ Packed \in Seq(Fragments)
    <2>1. /\ ChunkingTypeOK /\ LeadKept /\ TextKept
      BY DEF ChunkingInv
    <2>2. todo \in Seq(Seq(Fragments)) /\ buckets \in Seq(Chunks)
      BY <2>1, PiecesType DEF ChunkingTypeOK
    <2>3. OpenText \in Seq(Fragments)
      BY <2>1, OpenIs
    <2>4. PackedOf(buckets, OpenText, todo) \in Seq(Fragments)
      BY <2>2, <2>3, PackedMoves
    <2> QED
      BY <2>1, <2>4, PackedIs DEF ChunkingTypeOK
  <1>2. Len(doc) \in Nat /\ at \in Nat /\ at >= 1
    BY <1>1, LenProperties
  <1>3. \A i \in DOMAIN Packed : Packed[i].p \in Nat
    <2>1. DOMAIN Packed = 1 .. Len(Packed)
      BY <1>1, LenProperties
    <2>2. \A i \in 1 .. Len(Packed) : Packed[i] \in Fragments
      BY <1>1, ElementOfSeq
    <2> QED
      BY <2>1, <2>2 DEF Fragments
  <1>4. \A i \in DOMAIN Packed : Packed[i].p < at'
    <2>1. \A i \in DOMAIN Packed : Packed[i].p < at
      BY <1>1 DEF TextKept
    <2> QED
      BY <2>1, <1>2, <1>3
  <1>5. ASSUME NEW p \in 1 .. at' - 1, NEW s \in DOMAIN doc[p].sentences
        PROVE  Held(Packed, p, s) = doc[p].sentences[s].len
    <2>1. CASE p \in 1 .. at - 1
      BY <2>1, <1>1 DEF TextKept
    <2>2. CASE p \notin 1 .. at - 1
      <3>1. p = at /\ at <= Len(doc) /\ doc[at].heading
        BY <2>2, <1>2
      <3>2. doc[at] \in Paragraphs
        <4>1. at \in 1 .. Len(doc)
          BY <3>1, <1>2
        <4> QED
          BY <4>1, <1>1, ElementOfSeq
      <3>3. doc[at].sentences = <<>>
        BY <3>1, <3>2 DEF Paragraphs
      <3>4. DOMAIN doc[at].sentences = {}
        BY <3>3
      <3> QED
        BY <3>1, <3>4
    <2> QED
      BY <2>1, <2>2
  <1>6. \A i, j \in DOMAIN Packed : i < j => Before(Packed[i], Packed[j])
    BY <1>1 DEF TextKept
  <1> QED
    BY <1>4, <1>5, <1>6 DEF TextKept

LEMMA NewPartNone == NewPart(<<>>, <<>>) = <<>>
  <1> DEFINE nil == <<>>
  <1>1. /\ nil \in Seq(Seq(Fragments) \ {<<>>}) /\ nil \in Seq(Fragments)
        /\ nil = <<>>
    BY EmptySeq
  <1>2. FlattenSeq(nil) = nil
    BY FlattenEmpty
  <1>3. nil \o nil = nil
    BY <1>1, ConcatEmptySeq
  <1> HIDE DEF nil
  <1>4. Begins(nil, nil)
    BY <1>1 DEF Begins
  <1>5. NewPart(nil, nil) = nil
    BY <1>1, <1>2, <1>3, <1>4, NewPartIs
  <1> QED
    BY <1>5 DEF nil

\* A chunk is closed, and nothing follows what it carries over.
LEMMA Closed ==
    ASSUME ChunkingInv, doc' = doc, ~chunked, todo = <<>>, todo' = todo,
           FlushBucket, lead' = Carried, size' = Joined(lead'),
           current' = IF current = <<>> THEN <<>> ELSE <<lead'>>
    PROVE  /\ buckets' \in Seq(Chunks) /\ lead' \in Seq(Fragments) /\ size' \in Nat
           /\ current' \in Seq(Seq(Fragments) \ {<<>>})
           /\ LeadKept' /\ SizeKept' /\ PiecesWellCut' /\ ChunksSound'
           /\ OpenText' = <<>> /\ Packed' = Packed /\ NewPieces' = 0
           /\ current' # <<>> => current # <<>> /\ LastParagraph' = LastParagraph
  <1> DEFINE nil == <<>>
             S == Seq(Fragments) \ {<<>>}
             o == OpenText
  <1>1. ChunkingTypeOK /\ LeadKept /\ buckets \in Seq(Chunks) /\ todo = nil /\ todo' = nil
    BY DEF ChunkingInv, ChunkingTypeOK
  <1>2. /\ \A T : nil \in Seq(T)
        /\ nil = <<>> /\ DOMAIN nil = {} /\ Len(nil) = 0
        /\ Joined(nil) = 0 /\ Stacked(nil) = 0 /\ NewPart(nil, nil) = nil
    BY EmptySeq, JoinedEmpty, StackedEmpty, NewPartNone
  <1>3. MaxChars \in Nat \ {0} /\ Overlap \in Nat
    BY ChunkAssumption
  <1>4. OpenText' = IF chunked' THEN nil ELSE NewPart(current', lead')
    BY DEF OpenText, NewPart
  <1>5. o \in Seq(Fragments) /\ o = NewPart(current, lead)
    BY <1>1, OpenIs
  <1>6. Packed = PackedOf(buckets, o, nil) /\ Packed' = PackedOf(buckets', OpenText', nil)
    BY <1>1, PackedIs
  <1> HIDE DEF nil, S, o
  <1>7. CASE current = nil
    <2>1. buckets = nil /\ lead = nil
      BY <1>1, <1>2, <1>7 DEF LeadKept
    <2>2. buckets' = nil /\ lead' = nil /\ current' = nil /\ size' = 0
      BY <1>2, <1>7, <2>1 DEF FlushBucket, Carried
    <2>3. OpenText' = nil /\ o = nil
      BY <2>1, <2>2, <1>2, <1>4, <1>5, <1>7
    <2>4. WellCarried(lead)'
      <3>1. WellCarried(lead')
        BY <2>2, <1>2, <1>3 DEF WellCarried
      <3> QED
        BY <3>1, SameDoc
    <2>5. LeadKept'
      BY <2>2, <2>4, <1>2 DEF LeadKept
    <2>6. SizeKept'
      BY <2>2, <1>2, <1>3 DEF SizeKept
    <2>7. PiecesWellCut'
      BY <2>2, <1>1, <1>2 DEF PiecesWellCut, IsNew
    <2>9. NewPieces' = 0
      BY <2>2, <1>2 DEF NewPieces
    <2>8. ChunksSound'
      BY <2>2, <1>2 DEF ChunksSound
    <2> QED
      BY <2>1, <2>2, <2>3, <2>5, <2>6, <2>7, <2>8, <2>9, <1>2, <1>6 DEF S
  <1>8. CASE current # nil
    <2> DEFINE one == <<lead'>>
               b == Bucket
    <2>1. current' = one /\ one # nil /\ Head(one) = lead'
      BY <1>2, <1>8
    <2>2. /\ buckets' = Append(buckets, b) /\ b \in Chunks /\ buckets' \in Seq(Chunks)
          /\ lead' \in S
          /\ Last(lead').p = LastParagraph
          /\ NewText(b) = o
          /\ LeadKept' /\ ChunksSound'
      BY <2>1, <1>2, <1>8, FlushKeeps DEF o, S
    <2>3. one \in Seq(S) /\ Len(one) = 1 /\ DOMAIN one = {1} /\ one[1] = lead'
      BY <2>2
    <2>4. NewPart(one, lead') = nil
      BY <2>2, <1>2, NewPartFew DEF S
    <2>5. Stacked(one) = Joined(lead')
      BY <2>2, StackedFew DEF S
    <2>6. Joined(lead') \in Nat
      BY <2>2, JoinedType DEF S
    <2> HIDE DEF one, b
    <2>7. OpenText' = nil
      BY <2>1, <2>4, <1>4
    <2>8. Packed' = Packed
      <3>1. PackedOf(buckets', nil, nil) = PackedOf(buckets, o \o nil, nil)
        <4>1. nil \in Seq(Fragments) /\ nil \in Seq(Seq(Fragments))
          BY <1>2
        <4>2. PackedOf(Append(buckets, b), nil, nil) = PackedOf(buckets, NewText(b) \o nil, nil)
          BY <4>1, <2>2, <1>1, PackedMoves
        <4> QED
          BY <4>2, <2>2
      <3>2. o \o nil = o
        BY <1>2, <1>5, ConcatEmptySeq
      <3> QED
        BY <3>1, <3>2, <2>7, <1>6
    <2>12. NewPieces' = 0
      <3>1. Len(current') = 1 /\ lead' # <<>>
        BY <2>1, <2>2, <2>3 DEF S
      <3> QED
        BY <3>1 DEF NewPieces
    <2>9. SizeKept'
      BY <2>12, <2>1, <2>5 DEF SizeKept
    <2>10. PiecesWellCut'
      <3>1. \A i \in DOMAIN one : ~(lead' = <<>> \/ i > 1)
        BY <2>2, <2>3 DEF S
      <3> QED
        BY <3>1, <2>1, <1>1, <1>2 DEF PiecesWellCut, IsNew
    <2>11. LastParagraph' = LastParagraph
      BY <2>1, <2>2, <2>3 DEF LastParagraph, Last
    <2> QED
      BY <2>1, <2>2, <2>3, <2>6, <2>7, <2>8, <2>9, <2>10, <2>11, <2>12,
         <1>2, <1>8 DEF S
  <1> QED
    BY <1>7, <1>8

LEMMA HeadingKeeps == ChunkingInv /\ Heading => ChunkingInv'
  <1> SUFFICES ASSUME ChunkingInv, Heading
               PROVE  ChunkingInv'
    OBVIOUS
  <1>1. /\ ChunkingTypeOK /\ LeadKept /\ PlacesKept
        /\ doc \in Seq(Paragraphs) /\ at \in 1 .. Len(doc) + 1 /\ path \in Seq(Nat)
    BY DEF ChunkingInv, ChunkingTypeOK
  <1>2. /\ todo = <<>> /\ at <= Len(doc) /\ doc[at].heading /\ FlushBucket
        /\ lead' = Carried /\ size' = Joined(lead')
        /\ current' = IF current = <<>> THEN <<>> ELSE <<lead'>>
        /\ path' = LastOf(Append(path, at), 4) /\ at' = at + 1
        /\ doc' = doc /\ todo' = todo /\ chunked' = chunked
    BY DEF Heading
  <1>3. Len(doc) \in Nat /\ at \in Nat /\ at >= 1 /\ at - 1 + 1 = at
    BY <1>1, LenProperties
  <1>4. ~chunked
    BY <1>1, <1>2, <1>3 DEF PlacesKept
  <1>5. /\ buckets' \in Seq(Chunks) /\ lead' \in Seq(Fragments) /\ size' \in Nat
        /\ current' \in Seq(Seq(Fragments) \ {<<>>})
        /\ LeadKept' /\ SizeKept' /\ PiecesWellCut' /\ ChunksSound'
        /\ OpenText' = <<>> /\ Packed' = Packed /\ NewPieces' = 0
        /\ current' # <<>> => current # <<>> /\ LastParagraph' = LastParagraph
    BY <1>2, <1>4, Closed
  <1>6. path' \in Seq(Nat)
    <2>1. Append(path, at) \in Seq(Nat)
      BY <1>1, <1>3, AppendProperties
    <2>2. 4 \in Nat \ {0}
      OBVIOUS
    <2> QED
      BY <2>1, <2>2, <1>2, LastOfIs
  <1>7. ChunkingTypeOK'
    <2>1. at' \in 1 .. Len(doc) + 1
      BY <1>2, <1>3
    <2> QED
      BY <2>1, <1>1, <1>2, <1>5, <1>6 DEF ChunkingTypeOK
  <1>8. PlacesKept'
    <2>1. LatestHeadings(path, at, 4)'
      <3>1. LatestHeadings(path, at, 4) /\ 4 \in Nat /\ 4 >= 1
        BY <1>1 DEF PlacesKept
      <3>2. LatestHeadings(LastOf(Append(path, at), 4), at + 1, 4)
        BY <3>1, <1>1, <1>2, <1>3, NextHeading
      <3> QED
        BY <3>2, <1>2, SameDoc
    <2>2. DOMAIN todo' = {} /\ DOMAIN OpenText' = {} /\ todo' = <<>>
      BY <1>2, <1>5
    <2>3. ASSUME current' # <<>>
          PROVE  doc'[LastParagraph' + 1].heading
      <3>1. current # <<>> /\ LastParagraph' = LastParagraph
        BY <2>3, <1>5
      <3>2. NewPieces = 0 \/ NewPieces > 0
        <4>1. NewPieces \in Nat
          BY <1>1, OpenIs
        <4> QED
          BY <4>1
      <3>3. doc[LastParagraph + 1].heading
        BY <3>1, <3>2, <1>1, <1>2, <1>3, <1>4 DEF PlacesKept
      <3> QED
        BY <3>1, <3>3, <1>2
    <2>4. ~(NewPieces' > 0) /\ ~chunked'
      BY <1>2, <1>4, <1>5
    <2> QED
      BY <2>1, <2>2, <2>3, <2>4 DEF PlacesKept
  <1>9. TextKept'
    BY <1>2, <1>5, TextStays
  <1> QED
    BY <1>5, <1>7, <1>8, <1>9 DEF ChunkingInv

LEMMA FinishKeeps == ChunkingInv /\ FinishChunks => ChunkingInv'
  <1> SUFFICES ASSUME ChunkingInv, FinishChunks
               PROVE  ChunkingInv'
    OBVIOUS
  <1>1. /\ ChunkingTypeOK /\ PlacesKept
        /\ doc \in Seq(Paragraphs) /\ at \in 1 .. Len(doc) + 1 /\ path \in Seq(Nat)
    BY DEF ChunkingInv, ChunkingTypeOK
  <1>2. /\ todo = <<>> /\ at > Len(doc) /\ ~chunked /\ FlushBucket
        /\ lead' = Carried /\ size' = Joined(lead')
        /\ current' = IF current = <<>> THEN <<>> ELSE <<lead'>>
        /\ path' = path /\ at' = at /\ doc' = doc /\ todo' = todo /\ chunked' = TRUE
    BY DEF FinishChunks
  <1>3. /\ buckets' \in Seq(Chunks) /\ lead' \in Seq(Fragments) /\ size' \in Nat
        /\ current' \in Seq(Seq(Fragments) \ {<<>>})
        /\ LeadKept' /\ SizeKept' /\ PiecesWellCut' /\ ChunksSound'
        /\ Packed' = Packed
    BY <1>2, Closed
  <1>4. ChunkingTypeOK'
    BY <1>1, <1>2, <1>3 DEF ChunkingTypeOK
  <1>5. PlacesKept'
    <2>1. LatestHeadings(path, at, 4)'
      BY <1>1, <1>2, SameDoc DEF PlacesKept
    <2>2. DOMAIN todo' = {} /\ todo' = <<>>
      BY <1>2
    <2>3. at' > Len(doc') /\ chunked'
      BY <1>2
    <2> QED
      BY <2>1, <2>2, <2>3 DEF PlacesKept
  <1>6. TextKept'
    BY <1>2, <1>3, TextStays
  <1> QED
    BY <1>3, <1>4, <1>5, <1>6 DEF ChunkingInv

LEMMA StayKeeps == ChunkingInv /\ UNCHANGED chunkVars => ChunkingInv'
  <1> SUFFICES ASSUME ChunkingInv, UNCHANGED chunkVars
               PROVE  ChunkingInv'
    OBVIOUS
  <1>1. /\ doc' = doc /\ at' = at /\ todo' = todo /\ current' = current /\ size' = size
        /\ lead' = lead /\ path' = path /\ buckets' = buckets /\ chunked' = chunked
    BY DEF chunkVars
  <1>2. OpenText' = OpenText
    BY <1>1 DEF OpenText
  <1>3. Packed' = Packed
    BY <1>1, <1>2 DEF Packed
  <1>4. NewPieces' = NewPieces /\ LastParagraph' = LastParagraph
    BY <1>1 DEF NewPieces, LastParagraph
  <1>5. ChunkingTypeOK'
    BY <1>1 DEF ChunkingInv, ChunkingTypeOK
  <1>6. LeadKept'
    BY <1>1, SameDoc DEF ChunkingInv, LeadKept
  <1>7. SizeKept' /\ PiecesWellCut'
    BY <1>1, <1>4 DEF ChunkingInv, SizeKept, PiecesWellCut, IsNew
  <1>8. PlacesKept'
    BY <1>1, <1>2, <1>4, SameDoc DEF ChunkingInv, PlacesKept
  <1>9. TextKept'
    BY <1>1, <1>3 DEF ChunkingInv, TextKept
  <1>10. ChunksSound'
    BY <1>1, SameDoc DEF ChunkingInv, ChunksSound
  <1> QED
    BY <1>5, <1>6, <1>7, <1>8, <1>9, <1>10 DEF ChunkingInv

\* A paragraph is read.
LEMMA TextReadOn ==
    ASSUME ChunkingInv, doc' = doc, at' = at + 1, at <= Len(doc), NEW F,
           Tiles(F, at, Len(doc[at].sentences)), Readable(at, Len(doc[at].sentences)),
           Packed' = Packed \o F
    PROVE  TextKept'
  <1> DEFINE P == Packed
             Q == P \o F
             n == Len(P)
             m == Len(F)
             len == Len(doc[at].sentences)
  <1>1. TextKept /\ P \in Seq(Fragments) /\ at \in Nat /\ at >= 1
    <2>1. /\ ChunkingTypeOK /\ LeadKept /\ TextKept
      BY DEF ChunkingInv
    <2>2. /\ todo \in Seq(Seq(Fragments)) /\ buckets \in Seq(Chunks)
          /\ doc \in Seq(Paragraphs) /\ at \in 1 .. Len(doc) + 1
      BY <2>1, PiecesType DEF ChunkingTypeOK
    <2>3. OpenText \in Seq(Fragments)
      BY <2>1, OpenIs
    <2>4. PackedOf(buckets, OpenText, todo) \in Seq(Fragments)
      BY <2>2, <2>3, PackedMoves
    <2>5. Len(doc) \in Nat
      BY <2>2, LenProperties
    <2> QED
      BY <2>1, <2>2, <2>4, <2>5, PackedIs
  <1>2. /\ F \in Seq(Fragments) /\ InOrder(F)
        /\ \A i \in 1 .. m : F[i].p = at /\ F[i].s \in 1 .. len
        /\ \A s \in 1 .. len : Held(F, at, s) = doc[at].sentences[s].len
        /\ DOMAIN doc[at].sentences = 1 .. len
    BY DEF Tiles, Readable
  <1>3. DOMAIN P = 1 .. n /\ n \in Nat /\ m \in Nat /\ \A i \in 1 .. n : P[i] \in Fragments
    BY <1>1, <1>2, LenProperties, ElementOfSeq
  <1>4. \A i \in 1 .. n : P[i].p < at /\ P[i].p \in Nat
    BY <1>1, <1>3 DEF TextKept, Fragments
  <1>5. InOrder(P)
    BY <1>1, <1>3 DEF TextKept, InOrder
  <1>6. \A p \in 1 .. at - 1 : \A s \in DOMAIN doc[p].sentences :
          Held(P, p, s) = doc[p].sentences[s].len
    BY <1>1 DEF TextKept
  <1>7. Packed' = Q
    OBVIOUS
  <1> HIDE DEF P, len
  <1>8. /\ Q \in Seq(Fragments) /\ Len(Q) = n + m
        /\ \A i \in 1 .. n + m : Q[i] = IF i <= n THEN P[i] ELSE F[i - n]
    BY <1>1, <1>2, ConcatProperties
  <1>9. InOrder(Q)
    <2>1. \A i \in 1 .. n : \A j \in 1 .. m : Before(P[i], F[j])
      BY <1>2, <1>4 DEF Before
    <2> QED
      BY <2>1, <1>1, <1>2, <1>5, InOrderConcat
  <1>10. \A p, s : Held(Q, p, s) = Held(P, p, s) + Held(F, p, s)
    BY <1>1, <1>2, HeldConcat
  <1> HIDE DEF Q, n, m
  <1>11. DOMAIN Q = 1 .. n + m
    BY <1>8, LenProperties
  <1>12. ASSUME NEW i \in 1 .. n + m
         PROVE  Q[i].p < at + 1
    <2>1. CASE i <= n
      <3>1. i \in 1 .. n /\ Q[i] = P[i]
        BY <2>1, <1>3, <1>8
      <3>2. Q[i].p < at /\ Q[i].p \in Nat
        BY <3>1, <1>4
      <3> QED
        BY <3>2, <1>1
    <2>2. CASE ~(i <= n)
      <3>1. i - n \in 1 .. m /\ Q[i] = F[i - n]
        BY <2>2, <1>3, <1>8
      <3>2. Q[i].p = at
        BY <3>1, <1>2
      <3> QED
        BY <3>2, <1>1
    <2> QED
      BY <2>1, <2>2
  <1>13. ASSUME NEW p \in 1 .. at, NEW s \in DOMAIN doc[p].sentences
         PROVE  Held(Q, p, s) = doc[p].sentences[s].len
    <2>1. Held(P, p, s) \in Int /\ Held(F, p, s) \in Int
      BY <1>1, <1>2, HeldsType
    <2>2. CASE p = at
      <3>1. \A i \in 1 .. Len(P) : ~(P[i].p = p /\ P[i].s = s)
        BY <2>2, <1>1, <1>4 DEF n
      <3>2. Held(P, p, s) = 0
        BY <3>1, <1>1, HeldNone
      <3>3. s \in 1 .. len /\ Held(F, p, s) = doc[p].sentences[s].len
        BY <2>2, <1>2
      <3> QED
        BY <3>2, <3>3, <2>1, <1>10
    <2>3. CASE p # at
      <3>1. \A i \in 1 .. Len(F) : ~(F[i].p = p /\ F[i].s = s)
        BY <2>3, <1>2 DEF m
      <3>2. Held(F, p, s) = 0
        BY <3>1, <1>2, HeldNone
      <3>3. p \in 1 .. at - 1
        BY <2>3, <1>1
      <3>4. Held(P, p, s) = doc[p].sentences[s].len
        BY <3>3, <1>6
      <3> QED
        BY <3>2, <3>4, <2>1, <1>10
    <2> QED
      BY <2>2, <2>3
  <1>14. \A i, j \in 1 .. n + m : i < j => Before(Q[i], Q[j])
    BY <1>9, <1>11 DEF InOrder
  <1>15. at' - 1 = at
    BY <1>1
  <1> QED
    BY <1>7, <1>11, <1>12, <1>13, <1>14, <1>15 DEF TextKept

LEMMA ParagraphKeeps == ChunkingInv /\ Paragraph => ChunkingInv'
  <1> SUFFICES ASSUME ChunkingInv, Paragraph
               PROVE  ChunkingInv'
    OBVIOUS
  <1> DEFINE ps == Pieces(at)
             len == Len(doc[at].sentences)
             o == OpenText
             nil == <<>>
  <1>1. /\ ChunkingTypeOK /\ LeadKept /\ PlacesKept
        /\ doc \in Seq(Paragraphs) /\ at \in 1 .. Len(doc) + 1 /\ path \in Seq(Nat)
        /\ buckets \in Seq(Chunks)
    BY DEF ChunkingInv, ChunkingTypeOK
  <1>2. /\ todo = nil /\ at <= Len(doc) /\ ~doc[at].heading
        /\ todo' = ps /\ at' = at + 1
        /\ doc' = doc /\ current' = current /\ size' = size /\ lead' = lead
        /\ path' = path /\ buckets' = buckets /\ chunked' = chunked
    BY DEF Paragraph
  <1>3. Len(doc) \in Nat /\ at \in Nat /\ at >= 1 /\ at \in 1 .. Len(doc)
    BY <1>1, <1>2, LenProperties
  <1>4. ~chunked
    BY <1>1, <1>2, <1>3 DEF PlacesKept
  <1>5. /\ o' = o /\ NewPieces' = NewPieces /\ LastParagraph' = LastParagraph
        /\ o \in Seq(Fragments)
    BY <1>1, <1>2, OpenIs DEF OpenText, NewPieces, LastParagraph
  <1>6. /\ Readable(at, len) /\ ArePieces(ps, at) /\ ps # nil
        /\ Tiles(FlattenSeq(ps), at, len)
    <2>1. Readable(at, len)
      BY <1>1, <1>2, <1>3, ReadableIs
    <2> QED
      BY <2>1, PiecesAre
  <1> HIDE DEF ps, len
  <1>7. /\ ps \in Seq(Seq(Fragments) \ {<<>>})
        /\ ps \in Seq(Seq(Fragments))
        /\ \A i \in 1 .. Len(ps) : IsPiece(ps[i], at)
    BY <1>6, PiecesType DEF ArePieces
  <1>8. \A i \in DOMAIN ps : WellCut(ps[i]) /\ \A j \in DOMAIN ps[i] : ps[i][j].p = at
    <2>1. DOMAIN ps = 1 .. Len(ps)
      BY <1>7, LenProperties
    <2> SUFFICES ASSUME NEW i \in 1 .. Len(ps)
                 PROVE  WellCut(ps[i]) /\ \A j \in DOMAIN ps[i] : ps[i][j].p = at
      BY <2>1
    <2>2. /\ ps[i] \in Seq(Fragments) /\ WellCut(ps[i])
          /\ \A j \in 1 .. Len(ps[i]) : ps[i][j].p = at
      BY <1>7 DEF IsPiece
    <2>3. DOMAIN ps[i] = 1 .. Len(ps[i])
      BY <2>2, LenProperties
    <2> QED
      BY <2>2, <2>3
  <1>9. ChunkingTypeOK'
    <2>1. at' \in 1 .. Len(doc) + 1
      BY <1>2, <1>3
    <2> QED
      BY <2>1, <1>1, <1>2, <1>7 DEF ChunkingTypeOK
  <1>10. LeadKept'
    BY <1>1, <1>2, SameDoc DEF LeadKept
  <1>11. SizeKept'
    BY <1>2, <1>5 DEF ChunkingInv, SizeKept
  <1>12. PiecesWellCut'
    BY <1>2, <1>8 DEF ChunkingInv, PiecesWellCut, IsNew
  <1>13. PlacesKept'
    <2>1. LatestHeadings(path, at, 4)'
      <3>1. LatestHeadings(path, at, 4)
        BY <1>1 DEF PlacesKept
      <3> DEFINE p == at + 1
      <3>2. p \in Nat /\ at <= p /\ p - 1 = at
        BY <1>3
      <3> HIDE DEF p
      <3>4. \A h \in at .. p - 1 : ~doc[h].heading
        <4>1. \A h \in at .. p - 1 : h = at
          BY <3>2, <1>3
        <4> QED
          BY <4>1, <1>2
      <3>5. LatestHeadings(path, p, 4)
        BY <3>1, <3>2, <3>4, <1>1, <1>3, SameHeadings
      <3>3. LatestHeadings(path, at + 1, 4)
        BY <3>5 DEF p
      <3> QED
        BY <3>3, <1>2, SameDoc
    <2>2. at' - 1 = at
      BY <1>2, <1>3
    <2>3. ASSUME NEW i \in DOMAIN o
          PROVE  /\ o[i].p \in 1 .. at
                 /\ \A h \in o[i].p .. at : ~doc[h].heading
      <3>1. o[i].p \in 1 .. at - 1 /\ \A h \in o[i].p .. at - 1 : ~doc[h].heading
        BY <1>1, <1>4 DEF PlacesKept
      <3>2. \A h \in o[i].p .. at : h \in o[i].p .. at - 1 \/ h = at
        BY <3>1, <1>3
      <3> QED
        BY <3>1, <3>2, <1>2, <1>3
    <2>4. current # <<>> /\ NewPieces = 0 => doc[LastParagraph + 1].heading
      BY <1>1, <1>4 DEF PlacesKept
    <2> HIDE DEF o
    <2>5. \A i \in DOMAIN todo' : \A j \in DOMAIN todo'[i] : todo'[i][j].p = at' - 1
      BY <2>2, <1>2, <1>8
    <2>6. ~doc'[at' - 1].heading /\ at' > 1 /\ ~chunked' /\ todo' # <<>>
      BY <2>2, <1>2, <1>3, <1>4, <1>6
    <2>7. \A i \in DOMAIN o' : /\ o'[i].p \in 1 .. at' - 1
                               /\ \A h \in o'[i].p .. at' - 1 : ~doc'[h].heading
      BY <2>2, <2>3, <1>2, <1>5
    <2>8. current' # <<>> /\ NewPieces' = 0 => doc'[LastParagraph' + 1].heading
      BY <2>4, <1>2, <1>5
    <2> QED
      BY <2>1, <2>5, <2>6, <2>7, <2>8 DEF PlacesKept, o
  <1>14. TextKept'
    <2>1. Packed = PackedOf(buckets, o, nil) /\ Packed' = PackedOf(buckets, o, ps)
      BY <1>2, <1>5, PackedIs
    <2> HIDE DEF o, nil
    <2>2. PackedOf(buckets, o, ps) = PackedOf(buckets, o, <<>>) \o FlattenSeq(ps)
      BY <1>1, <1>5, <1>7, PackedMoves
    <2>3. Packed' = Packed \o FlattenSeq(ps)
      BY <2>1, <2>2 DEF nil
    <2> QED
      BY <2>3, <1>2, <1>3, <1>6, TextReadOn DEF len
  <1>15. ChunksSound'
    BY <1>2, SameDoc DEF ChunkingInv, ChunksSound
  <1> QED
    BY <1>9, <1>10, <1>11, <1>12, <1>13, <1>14, <1>15 DEF ChunkingInv

\* The piece that comes next.
LEMMA NextPiece ==
    ASSUME ChunkingInv, todo # <<>>
    PROVE  /\ ~chunked /\ at \in Nat /\ at > 1 /\ ~doc[at - 1].heading
           /\ Head(todo) \in Seq(Fragments) \ {<<>>} /\ WellCut(Head(todo))
           /\ \A j \in 1 .. Len(Head(todo)) : Head(todo)[j].p = at - 1
           /\ Last(Head(todo)).p = at - 1
           /\ Tail(todo) \in Seq(Seq(Fragments) \ {<<>>})
           /\ \A i \in DOMAIN Tail(todo) :
                /\ WellCut(Tail(todo)[i])
                /\ \A j \in DOMAIN Tail(todo)[i] : Tail(todo)[i][j].p = at - 1
  <1> DEFINE S == Seq(Fragments) \ {<<>>}
             a == Head(todo)
             t == Tail(todo)
  <1>1. /\ todo \in Seq(S) /\ at \in 1 .. Len(doc) + 1 /\ doc \in Seq(Paragraphs)
        /\ ~chunked /\ at > 1 /\ ~doc[at - 1].heading
        /\ \A i \in DOMAIN todo : /\ WellCut(todo[i])
                                  /\ \A j \in DOMAIN todo[i] : todo[i][j].p = at - 1
    BY DEF ChunkingInv, ChunkingTypeOK, PlacesKept, PiecesWellCut
  <1>2. at \in Nat
    <2>1. Len(doc) \in Nat
      BY <1>1, LenProperties
    <2> QED
      BY <2>1, <1>1
  <1> HIDE DEF S
  <1>3. /\ a \in S /\ t \in Seq(S) /\ Len(t) = Len(todo) - 1
        /\ \A i \in 1 .. Len(t) : t[i] = todo[i + 1]
    BY <1>1, HeadTailProperties
  <1>4. Len(todo) \in Nat \ {0} /\ DOMAIN todo = 1 .. Len(todo) /\ a = todo[1]
    BY <1>1, LenProperties, EmptySeq
  <1> HIDE DEF a, t
  <1>5. DOMAIN t = 1 .. Len(t)
    BY <1>3, LenProperties
  <1>6. WellCut(a) /\ \A j \in DOMAIN a : a[j].p = at - 1
    BY <1>1, <1>4
  <1>7. DOMAIN a = 1 .. Len(a) /\ Len(a) \in 1 .. Len(a)
    <2>1. a \in Seq(Fragments) /\ a # <<>>
      BY <1>3 DEF S
    <2>2. DOMAIN a = 1 .. Len(a) /\ Len(a) \in Nat /\ Len(a) # 0
      BY <2>1, LenProperties, EmptySeq
    <2> QED
      BY <2>2
  <1>8. Last(a).p = at - 1
    BY <1>6, <1>7 DEF Last
  <1>9. ASSUME NEW i \in DOMAIN t
        PROVE  WellCut(t[i]) /\ \A j \in DOMAIN t[i] : t[i][j].p = at - 1
    <2>1. i + 1 \in DOMAIN todo /\ t[i] = todo[i + 1]
      BY <1>3, <1>4, <1>5
    <2> QED
      BY <2>1, <1>1
  <1> QED
    BY <1>1, <1>2, <1>3, <1>6, <1>7, <1>8, <1>9 DEF a, t, S

LEMMA PlacesNext ==
    ASSUME ChunkingInv, todo # <<>>, todo' = Tail(todo), doc' = doc, at' = at,
           path' = path, chunked' = chunked,
           \A i \in DOMAIN OpenText' : \/ OpenText'[i].p = at - 1
                                       \/ \E k \in DOMAIN OpenText : OpenText'[i] = OpenText[k],
           NewPieces' \in Nat \ {0}, LastParagraph' = at - 1
    PROVE  PlacesKept'
  <1>1. /\ ~chunked /\ at \in Nat /\ at > 1 /\ ~doc[at - 1].heading
        /\ \A i \in DOMAIN todo' : \A j \in DOMAIN todo'[i] : todo'[i][j].p = at - 1
    BY NextPiece
  <1>2. LatestHeadings(path, at, 4)'
    <2>1. LatestHeadings(path, at, 4)
      BY DEF ChunkingInv, PlacesKept
    <2> QED
      BY <2>1, SameDoc
  <1>3. \A k \in DOMAIN OpenText : /\ OpenText[k].p \in 1 .. at - 1
                                   /\ \A h \in OpenText[k].p .. at - 1 : ~doc[h].heading
    BY <1>1 DEF ChunkingInv, PlacesKept
  <1>4. /\ at - 1 \in 1 .. at - 1
        /\ \A h \in at - 1 .. at - 1 : ~doc[h].heading
    <2>1. \A h \in at - 1 .. at - 1 : h = at - 1
      BY <1>1
    <2> QED
      BY <2>1, <1>1
  <1>5. \A i \in DOMAIN OpenText' : /\ OpenText'[i].p \in 1 .. at - 1
                                    /\ \A h \in OpenText'[i].p .. at - 1 : ~doc[h].heading
    <2> TAKE i \in DOMAIN OpenText'
    <2>1. CASE OpenText'[i].p = at - 1
      BY <2>1, <1>4
    <2>2. CASE \E k \in DOMAIN OpenText : OpenText'[i] = OpenText[k]
      BY <2>2, <1>3
    <2> QED
      BY <2>1, <2>2
  <1>6. NewPieces' # 0
    OBVIOUS
  <1> QED
    BY <1>1, <1>2, <1>5, <1>6 DEF PlacesKept

LEMMA FitsKeeps == ChunkingInv /\ PieceFits => ChunkingInv'
  <1> SUFFICES ASSUME ChunkingInv, PieceFits
               PROVE  ChunkingInv'
    OBVIOUS
  <1> DEFINE S == Seq(Fragments) \ {<<>>}
             a == Head(todo)
             t == Tail(todo)
             c == Append(current, a)
             o == OpenText
             n == Len(current)
  <1>1. /\ ChunkingTypeOK /\ LeadKept /\ SizeKept /\ PiecesWellCut /\ buckets \in Seq(Chunks)
        /\ current \in Seq(S) /\ lead \in Seq(Fragments) /\ size \in Nat
        /\ todo \in Seq(Seq(Fragments))
    BY PiecesType DEF ChunkingInv, ChunkingTypeOK
  <1>2. /\ todo # <<>>
        /\ (current = <<>> \/ NextSize <= MaxChars)
        /\ current' = c /\ size' = NextSize /\ todo' = t
        /\ doc' = doc /\ at' = at /\ lead' = lead /\ path' = path
        /\ buckets' = buckets /\ chunked' = chunked
    BY DEF PieceFits
  <1>3. /\ ~chunked /\ a \in S /\ WellCut(a) /\ Last(a).p = at - 1 /\ t \in Seq(S)
        /\ \A j \in 1 .. Len(a) : a[j].p = at - 1
        /\ \A i \in DOMAIN t : WellCut(t[i])
    BY <1>2, NextPiece
  <1>4. a \in Seq(Fragments) /\ Joined(a) \in Nat /\ MaxChars \in Nat
    BY <1>3, JoinedType, ChunkAssumption
  <1>5. Begins(current, lead) /\ o = NewPart(current, lead) /\ o \in Seq(Fragments) /\ NewPieces \in Nat
    BY <1>1, <1>3, OpenIs
  <1>6. o' = o \o a
    <2>1. NewPart(c, lead) = NewPart(current, lead) \o a
      BY <1>3, <1>5, NewPartAppend
    <2>2. o' = NewPart(c, lead)
      BY <1>2, <1>3 DEF OpenText, NewPart
    <2> QED
      BY <2>1, <2>2, <1>5
  <1>7. Packed' = Packed
    <2>1. Packed = PackedOf(buckets, o, todo) /\ Packed' = PackedOf(buckets, o \o a, t)
      BY <1>2, <1>6, PackedIs
    <2>2. PackedOf(buckets, o \o a, t) = PackedOf(buckets, o, todo)
      BY <1>1, <1>2, <1>5, PackedMoves
    <2> QED
      BY <2>1, <2>2
  <1>8. Stacked(c) = NextSize
    <2>1. current \in Seq(Seq(Fragments)) /\ (current = <<>> => Stacked(current) = 0)
      BY <1>1, PiecesType, StackedEmpty
    <2>2. Stacked(c) = Stacked(current) + Joined(a) + IF current = <<>> THEN 0 ELSE 2
      BY <2>1, <1>4, StackedAppend
    <2>3. size = Stacked(current)
      BY <1>1 DEF SizeKept
    <2> QED
      BY <2>1, <2>2, <2>3 DEF NextSize
  <1> HIDE DEF a, t, S, o
  <1>9. /\ c \in Seq(S) /\ c # <<>> /\ Len(c) = n + 1 /\ c[n + 1] = a /\ n \in Nat
        /\ \A i \in 1 .. n : c[i] = current[i]
    BY <1>1, <1>3, LenProperties, AppendProperties
  <1>20. current # <<>> => Head(c) = Head(current)
    BY <1>1, <1>3, HeadTailAppend
  <1>10. DOMAIN c = 1 .. n + 1 /\ DOMAIN current = 1 .. n
    BY <1>1, <1>9, LenProperties
  <1> HIDE DEF c
  <1>11. NewPieces' = NewPieces + 1
    BY <1>2, <1>5, <1>9 DEF NewPieces
  <1>12. LastParagraph' = at - 1
    BY <1>2, <1>3, <1>9 DEF LastParagraph, Last
  <1>13. ChunkingTypeOK'
    <2>1. NextSize \in Nat
      BY <1>1, <1>4 DEF NextSize, a
    <2> QED
      BY <2>1, <1>1, <1>2, <1>3, <1>9 DEF ChunkingTypeOK, S
  <1>14. LeadKept'
    BY <1>1, <1>2, <1>9, <1>20, SameDoc DEF LeadKept
  <1>15. SizeKept'
    <2>1. size' > MaxChars => NewPieces' <= 1
      <3>1. current = <<>> => NewPieces = 0
        <4>1. current = <<>> => n = 0 /\ lead = <<>>
          BY <1>1, EmptySeq DEF LeadKept
        <4> QED
          BY <4>1 DEF NewPieces
      <3>2. size' \in Nat
        BY <1>13 DEF ChunkingTypeOK
      <3> QED
        BY <3>1, <3>2, <1>2, <1>4, <1>11
    <2> QED
      BY <2>1, <1>2, <1>8 DEF SizeKept
  <1>16. PiecesWellCut'
    <2>1. ASSUME NEW i \in DOMAIN c, lead = <<>> \/ i > 1
          PROVE  WellCut(c[i])
      <3>1. CASE i = n + 1
        BY <3>1, <1>3, <1>9
      <3>2. CASE i # n + 1
        <4>1. i \in 1 .. n
          BY <3>2, <1>9, <1>10
        <4>2. WellCut(current[i])
          BY <4>1, <2>1, <1>1, <1>10 DEF PiecesWellCut, IsNew
        <4> QED
          BY <4>1, <4>2, <1>9
      <3> QED
        BY <3>1, <3>2
    <2> QED
      BY <2>1, <1>2, <1>3 DEF PiecesWellCut, IsNew
  <1>17. PlacesKept'
    <2>1. \A i \in DOMAIN o' : o'[i].p = at - 1 \/ \E k \in DOMAIN o : o'[i] = o[k]
      <3> DEFINE x == o \o a
                 m == Len(o)
                 l == Len(a)
      <3>1. /\ x \in Seq(Fragments) /\ Len(x) = m + l /\ m \in Nat /\ l \in Nat
            /\ \A i \in 1 .. m + l : x[i] = IF i <= m THEN o[i] ELSE a[i - m]
        BY <1>4, <1>5, LenProperties, ConcatProperties
      <3>2. DOMAIN o = 1 .. m
        BY <1>5, LenProperties
      <3> HIDE DEF x, m
      <3>3. DOMAIN x = 1 .. m + l
        BY <3>1, LenProperties
      <3>4. ASSUME NEW i \in 1 .. m + l
            PROVE  x[i].p = at - 1 \/ \E k \in DOMAIN o : x[i] = o[k]
        <4>1. CASE i <= m
          <5>1. i \in DOMAIN o /\ x[i] = o[i]
            BY <4>1, <3>1, <3>2
          <5> QED
            BY <5>1
        <4>2. CASE ~(i <= m)
          <5>1. i - m \in 1 .. l /\ x[i] = a[i - m]
            BY <4>2, <3>1
          <5> QED
            BY <5>1, <1>3
        <4> QED
          BY <4>1, <4>2
      <3> QED
        BY <3>3, <3>4, <1>6 DEF x
    <2>2. NewPieces' \in Nat \ {0}
      BY <1>5, <1>11
    <2> QED
      BY <2>1, <2>2, <1>2, <1>12, PlacesNext DEF o, t
  <1>18. TextKept'
    BY <1>2, <1>7, TextStays
  <1>19. ChunksSound'
    BY <1>2, SameDoc DEF ChunkingInv, ChunksSound
  <1> QED
    BY <1>13, <1>14, <1>15, <1>16, <1>17, <1>18, <1>19 DEF ChunkingInv

LEMMA OverflowKeeps == ChunkingInv /\ PieceOverflows => ChunkingInv'
  <1> SUFFICES ASSUME ChunkingInv, PieceOverflows
               PROVE  ChunkingInv'
    OBVIOUS
  <1> DEFINE S == Seq(Fragments) \ {<<>>}
             a == Head(todo)
             t == Tail(todo)
             two == <<lead', a>>
             b == Bucket
             o == OpenText
  <1>1. /\ ChunkingTypeOK /\ LeadKept /\ buckets \in Seq(Chunks)
        /\ todo \in Seq(Seq(Fragments))
    BY PiecesType DEF ChunkingInv, ChunkingTypeOK
  <1>2. /\ todo # <<>> /\ current # <<>> /\ FlushBucket /\ lead' = Carried
        /\ current' = two /\ size' = Joined(lead') + Joined(a) + 2 /\ todo' = t
        /\ doc' = doc /\ at' = at /\ path' = path /\ chunked' = chunked
    BY DEF PieceOverflows
  <1>3. /\ ~chunked /\ a \in S /\ WellCut(a) /\ Last(a).p = at - 1 /\ t \in Seq(S)
        /\ \A j \in 1 .. Len(a) : a[j].p = at - 1
        /\ \A i \in DOMAIN t : WellCut(t[i])
    BY <1>2, NextPiece
  <1>4. two # <<>> /\ Head(two) = lead'
    OBVIOUS
  <1>5. /\ buckets' = Append(buckets, b) /\ b \in Chunks /\ buckets' \in Seq(Chunks)
        /\ lead' \in S
        /\ NewText(b) = o
        /\ LeadKept' /\ ChunksSound'
    BY <1>2, <1>3, <1>4, FlushKeeps
  <1>6. o \in Seq(Fragments)
    BY <1>1, OpenIs
  <1>7. /\ lead' \in Seq(Fragments) /\ lead' # <<>> /\ a \in Seq(Fragments)
        /\ Joined(lead') \in Nat /\ Joined(a) \in Nat
    BY <1>3, <1>5, JoinedType
  <1>8. NewPart(two, lead') = a /\ Stacked(two) = Joined(lead') + Joined(a) + 2
    <2>1. NewPart(two, lead') = a
      BY <1>3, <1>5, NewPartFew
    <2>2. Stacked(two) = Joined(lead') + Joined(a) + 2
      BY <1>7, StackedFew
    <2> QED
      BY <2>1, <2>2
  <1>9. o' = a
    BY <1>2, <1>3, <1>8 DEF OpenText, NewPart
  <1>10. Packed' = Packed
    <2>1. Packed = PackedOf(buckets, o, todo) /\ Packed' = PackedOf(Append(buckets, b), a, t)
      BY <1>2, <1>5, <1>9, PackedIs
    <2>2. PackedOf(buckets, o \o a, t) = PackedOf(buckets, o, todo)
      BY <1>1, <1>2, <1>6, PackedMoves
    <2>3. t \in Seq(Seq(Fragments))
      BY <1>3, PiecesType
    <2> HIDE DEF b, a, t, o
    <2>4. PackedOf(Append(buckets, b), a, t) = PackedOf(buckets, NewText(b) \o a, t)
      BY <2>3, <1>1, <1>5, <1>7, PackedMoves
    <2> QED
      BY <2>1, <2>2, <2>4, <1>5
  <1> HIDE DEF a, t, S, b
  <1>11. /\ two \in Seq(S) /\ Len(two) = 2 /\ DOMAIN two = {1, 2} /\ two[1] = lead' /\ two[2] = a
    BY <1>3, <1>5
  <1> HIDE DEF two
  <1>12. NewPieces' = 1
    <2>1. Len(current') = 2 /\ lead' # <<>>
      BY <1>2, <1>7, <1>11
    <2> QED
      BY <2>1 DEF NewPieces
  <1>13. LastParagraph' = at - 1
    BY <1>2, <1>3, <1>11 DEF LastParagraph, Last
  <1>14. ChunkingTypeOK'
    <2>1. Joined(lead') + Joined(a) + 2 \in Nat
      BY <1>7
    <2> QED
      BY <2>1, <1>1, <1>2, <1>3, <1>5, <1>7, <1>11 DEF ChunkingTypeOK, S
  <1>15. SizeKept'
    BY <1>2, <1>8, <1>12 DEF SizeKept
  <1>16. PiecesWellCut'
    <2>1. \A i \in DOMAIN two : lead' = <<>> \/ i > 1 => WellCut(two[i])
      BY <1>3, <1>7, <1>11
    <2> QED
      BY <2>1, <1>2, <1>3 DEF PiecesWellCut, IsNew
  <1>17. PlacesKept'
    <2>1. \A i \in DOMAIN o' : o'[i].p = at - 1
      <3>1. DOMAIN a = 1 .. Len(a)
        BY <1>7, LenProperties
      <3> QED
        BY <3>1, <1>3, <1>9
    <2>2. NewPieces' \in Nat \ {0}
      BY <1>12
    <2> QED
      BY <2>1, <2>2, <1>2, <1>13, PlacesNext DEF t
  <1>18. TextKept'
    BY <1>2, <1>10, TextStays
  <1> QED
    BY <1>5, <1>14, <1>15, <1>16, <1>17, <1>18 DEF ChunkingInv

-----------------------------------------------------------------------------
(* The theorems *)

\* A chunk, as the properties see it.
LEMMA ChunkIs ==
    ASSUME ChunkingInv, NEW k \in DOMAIN buckets
    PROVE  LET b == buckets[k] over == SubSeq(b.text, 1, b.lead) IN
           /\ over = IF k = 1 THEN <<>> ELSE LastChars(buckets[k - 1].text, Joined(over))
           /\ \A i \in DOMAIN NewText(b) : LatestHeadings(b.path, NewText(b)[i].p, 3)
           /\ b.size > MaxChars => b.new <= 1
           /\ b.new = 1 /\ Joined(NewText(b)) > MaxChars =>
                /\ Len(NewText(b)) = 1
                /\ NewText(b)[1].s > 1
           /\ WellCarried(over)
           /\ b.new = 0 => doc[Last(over).p + 1].heading
  <1> DEFINE bs == SubSeq(buckets, 1, k)
             b == buckets[k]
             over == SubSeq(b.text, 1, b.lead)
  <1>1. buckets \in Seq(Chunks) /\ ChunkSound(b, bs)
    BY DEF ChunkingInv, ChunkingTypeOK, ChunksSound
  <1>2. Len(buckets) \in Nat /\ k \in 1 .. Len(buckets)
    BY <1>1, LenProperties
  <1>3. Len(bs) = k /\ (k > 1 => bs[k - 1] = buckets[k - 1])
    <2>1. /\ Len(bs) = k
          /\ \A i \in 1 .. k : bs[i] = buckets[i]
      BY <1>1, <1>2, Prefixed
    <2>2. k > 1 => k - 1 \in 1 .. k
      BY <1>2
    <2> QED
      BY <2>1, <2>2
  <1>4. /\ over = IF Len(bs) = 1 THEN <<>> ELSE LastChars(bs[Len(bs) - 1].text, Joined(over))
        /\ \A i \in DOMAIN NewText(b) : LatestHeadings(b.path, NewText(b)[i].p, 3)
        /\ b.size > MaxChars => b.new <= 1
        /\ b.new = 1 => WellCut(NewText(b))
        /\ WellCarried(over)
        /\ b.new = 0 => doc[Last(over).p + 1].heading
    BY <1>1 DEF ChunkSound
  <1> HIDE DEF bs
  <1>5. over = IF k = 1 THEN <<>> ELSE LastChars(buckets[k - 1].text, Joined(over))
    <2>1. k = 1 \/ k > 1
      BY <1>2
    <2> HIDE DEF over
    <2> QED
      BY <2>1, <1>3, <1>4
  <1> QED
    BY <1>4, <1>5 DEF WellCut

\* What chunk_document builds up is well formed, and fits together, at every
\* step: the invariant holds of every text, every max_chars and every overlap.
THEOREM ChunkingInvariant == ChunkingSpec => []ChunkingInv
  <1>1. ChunkingInit => ChunkingInv
    BY ChunkingStart
  <1>2. ChunkingInv /\ [ChunkingNext]_chunkVars => ChunkingInv'
    BY HeadingKeeps, ParagraphKeeps, FitsKeeps, OverflowKeeps, FinishKeeps, StayKeeps
       DEF ChunkingNext
  <1> QED
    BY <1>1, <1>2, PTL DEF ChunkingSpec

\* chunk_document loses no text, repeats none but what it carries over, keeps
\* its order, and files no new text under another heading than its own.
THEOREM ChunksTileTheText == ChunkingSpec => []ChunksTile
  <1>1. ChunkingInv => ChunksTile
    <2> SUFFICES ASSUME ChunkingInv
                 PROVE  ChunksTile
      OBVIOUS
    <2>1. TextKept
      BY DEF ChunkingInv
    <2>2. \A k \in DOMAIN buckets :
            LET over == SubSeq(buckets[k].text, 1, buckets[k].lead)
            IN over = IF k = 1 THEN <<>> ELSE LastChars(buckets[k - 1].text, Joined(over))
      BY ChunkIs
    <2>3. \A k \in DOMAIN buckets : \A i \in DOMAIN NewText(buckets[k]) :
            LatestHeadings(buckets[k].path, NewText(buckets[k])[i].p, 3)
      BY ChunkIs
    <2> QED
      BY <2>1, <2>2, <2>3 DEF ChunksTile, TextKept
  <1> QED
    BY <1>1, ChunkingInvariant, PTL

\* current_size is the length of the open chunk, and the chunks are as large as
\* max_chars and overlap_chars allow, but for the sentences that are too long.
THEOREM ChunksAreBounded == ChunkingSpec => []ChunksBounded
  <1>1. ChunkingInv => ChunksBounded
    <2> SUFFICES ASSUME ChunkingInv
                 PROVE  ChunksBounded
      OBVIOUS
    <2>1. size = Stacked(current)
      BY DEF ChunkingInv, SizeKept
    <2>2. \A k \in DOMAIN buckets : LET b == buckets[k] over == SubSeq(b.text, 1, b.lead) IN
            /\ b.size > MaxChars => b.new <= 1
            /\ b.new = 1 /\ Joined(NewText(b)) > MaxChars =>
                 /\ Len(NewText(b)) = 1
                 /\ NewText(b)[1].s > 1
            /\ WellCarried(over)
            /\ b.new = 0 => doc[Last(over).p + 1].heading
      BY ChunkIs
    <2> QED
      BY <2>1, <2>2 DEF ChunksBounded, WellCarried
  <1> QED
    BY <1>1, ChunkingInvariant, PTL
=============================================================================
