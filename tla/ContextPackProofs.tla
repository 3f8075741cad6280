-------------------------- MODULE ContextPackProofs --------------------------
(* Proofs about ContextPack and EvidenceSearch: what is logged and who is cited. *)
EXTENDS EvidenceSearch, TLAPS, FiniteSetTheorems, SequenceTheorems

USE PackAssumption, NullAssumption

-----------------------------------------------------------------------------
(* The ranking *)

\* A ranked order of finitely many chunks is a sequence of them.
LEMMA OrderIsSequence ==
    ASSUME NEW cs \in SUBSET Chunks, NEW r \in Orders(cs)
    PROVE  /\ r \in Seq(Chunks)
           /\ \A i \in DOMAIN r : r[i] \in cs
  <1>1. IsFiniteSet(cs)
    BY FS_Subset
  <1>2. Cardinality(cs) \in Nat
    BY <1>1, FS_CardinalityType
  <1>3. r \in [1 .. Cardinality(cs) -> cs]
    BY DEF Orders
  <1> QED
    BY <1>2, <1>3, SeqDef

\* What a query returns is of chunks it ranked.
LEMMA ReturnedIsRanked ==
    ASSUME TypeOK, NEW q \in Queries
    PROVE  /\ ReturnedChunks(q) \subseteq Kept(q)
           /\ ReturnedDocs(q) \subseteq {DocOf[c] : c \in Kept(q)}
           /\ Kept(q) \subseteq Chunks
           /\ Window(q) \subseteq Kept(q)
           /\ \A i \in DOMAIN ranked[q] : DocAt(q, i) \in Docs
  <1>1. ranked[q] \in Seq(Chunks)
    BY DEF TypeOK
  <1>2. \A i \in DOMAIN ranked[q] : ranked[q][i] \in Chunks
    BY <1>1, ElementOfSeq, LenProperties
  <1>3. Kept(q) \subseteq Chunks
    BY <1>2 DEF Kept
  <1>4. \A i \in DOMAIN ranked[q] : DocAt(q, i) \in Docs
    BY <1>2 DEF DocAt
  <1>5. Items(q) \subseteq DOMAIN ranked[q]
    BY DEF Items, Relevant, Firsts
  <1>6. ReturnedDocs(q) \subseteq {DocOf[c] : c \in Kept(q)}
    BY <1>5 DEF ReturnedDocs, DocAt, Kept
  <1>7. ReturnedChunks(q) \subseteq Kept(q)
    <2>1. \A i : {ranked[q][j] : j \in Cites(q, i)} \subseteq Kept(q)
      BY DEF Cites, Kept
    <2> QED
      BY <2>1, Zenon DEF ReturnedChunks
  <1>8. Window(q) \subseteq Kept(q)
    BY DEF Window, Kept
  <1> QED
    BY <1>3, <1>4, <1>6, <1>7, <1>8

\* A log row and an answer have the types of theirs.
LEMMA RowTypes ==
    ASSUME TypeOK, NEW q \in Queries
    PROVE  /\ LogRow(q) \in LogRows
           /\ Confidence(q) \in Confidences
           /\ [docs |-> ReturnedDocs(q), chunks |-> ReturnedChunks(q),
               confidence |-> Confidence(q)] \in Answers
  <1>1. Cardinality(found[q]) \in Nat
    BY FS_Subset, FS_CardinalityType DEF TypeOK
  <1>2. ReturnedDocs(q) \subseteq Docs
    BY ReturnedIsRanked
  <1>3. ReturnedChunks(q) \subseteq Chunks
    BY ReturnedIsRanked
  <1>4. Confidence(q) \in Confidences
    BY DEF Confidence, Confidences
  <1>5. LogRow(q) \in LogRows
    BY <1>1, <1>2, <1>3 DEF LogRow, LogRows
  <1> QED
    BY <1>2, <1>3, <1>4, <1>5 DEF Answers

\* While its ranking stands, a query returns the same.
LEMMA RankingStands ==
    ASSUME NEW q \in Queries,
           limit'[q] = limit[q], least'[q] = least[q], found'[q] = found[q],
           total'[q] = total[q], ranked'[q] = ranked[q]
    PROVE  /\ Kept(q)' = Kept(q)
           /\ Window(q)' = Window(q)
           /\ ReturnedDocs(q)' = ReturnedDocs(q)
           /\ ReturnedChunks(q)' = ReturnedChunks(q)
           /\ LogRow(q)' = LogRow(q)
           /\ Confidence(q)' = Confidence(q)
  <1>1. Items(q)' = Items(q)
    BY DEF Items, Relevant, Firsts, DocAt
  <1>2. \A i : Cites(q, i)' = Cites(q, i)
    BY DEF Cites, DocAt
  <1>3. ReturnedDocs(q)' = ReturnedDocs(q)
    BY <1>1 DEF ReturnedDocs, DocAt
  <1>4. ReturnedChunks(q)' = ReturnedChunks(q)
    BY <1>1, <1>2 DEF ReturnedChunks
  <1>5. CitedSignals(q)' = CitedSignals(q)
    <2> DEFINE First == {k \in Items(q) : \A j \in Items(q) : k <= j}
               Cited == {Cites(q, i) : i \in First}
    <2>1. First' = First
      BY <1>1
    <2>2. Cited' = Cited
      <3> HIDE DEF First
      <3> QED
        BY <1>2, <2>1
    <2>3. CitedSignals(q) = Cardinality(UNION Cited)
      BY DEF CitedSignals
    <2>4. CitedSignals(q)' = Cardinality(UNION Cited')
      BY DEF CitedSignals
    <2> QED
      BY <2>2, <2>3, <2>4, Zenon
  <1>6. LogRow(q)' = LogRow(q)
    BY <1>3, <1>4 DEF LogRow
  <1>7. Confidence(q)' = Confidence(q)
    BY <1>5 DEF Confidence
  <1>8. Kept(q)' = Kept(q) /\ Window(q)' = Window(q)
    BY DEF Kept, Window
  <1> QED
    BY <1>3, <1>4, <1>6, <1>7, <1>8

-----------------------------------------------------------------------------
(* The invariant *)

\* How far one query is: Stages and VerdictMatches, query by query.
StageOf(q) ==
    /\ pc[q] # "off" => limit[q] > 0
    /\ pc[q] \in Running => Docs \ hidden \subseteq shown[q]
    /\ pc[q] \in {"off", "search"} => found[q] = {}
    /\ {DocOf[c] : c \in found[q]} \subseteq shown[q]
    /\ Kept(q) \subseteq found[q]
    /\ pc[q] \in {"off", "search", "vectors"} => ranked[q] = <<>>
    /\ pc[q] \in {"log", "reply", "answered"} => stored[q] = Window(q)
    /\ pc[q] \in {"reply", "answered"} => log[q] = LogRow(q)
    /\ pc[q] \in {"off", "search", "vectors", "store", "log", "errlog"} => log[q] = NoLog
    /\ answer[q] # NoAnswer <=> pc[q] = "answered"
    /\ answer[q] # NoAnswer => /\ answer[q].docs = ReturnedDocs(q)
                               /\ answer[q].chunks = ReturnedChunks(q)
                               /\ answer[q].confidence = Confidence(q)
    /\ log[q] # NoLog =>
        /\ log[q].status = "ok" => pc[q] \in {"reply", "answered", "gone"}
        /\ log[q].status = "error" => pc[q] = "failed" /\ answer[q] = NoAnswer

\* The two conjuncts over all queries, one query at a time.
LEMMA StagesByQuery == Stages /\ VerdictMatches <=> \A q \in Queries : StageOf(q)
  BY Zenon DEF Stages, VerdictMatches, StageOf

\* A query another query's step, or the corpus, leaves alone keeps its stage.
LEMMA Untouched ==
    ASSUME NEW q \in Queries, StageOf(q),
           pc'[q] = pc[q], limit'[q] = limit[q], least'[q] = least[q], found'[q] = found[q],
           total'[q] = total[q], ranked'[q] = ranked[q], stored'[q] = stored[q],
           log'[q] = log[q], answer'[q] = answer[q], shown[q] \subseteq shown'[q],
           pc[q] \in Running => Docs \ hidden' \subseteq shown'[q]
    PROVE  StageOf(q)'
  <1>1. /\ Kept(q)' = Kept(q)
        /\ Window(q)' = Window(q)
        /\ ReturnedDocs(q)' = ReturnedDocs(q)
        /\ ReturnedChunks(q)' = ReturnedChunks(q)
        /\ LogRow(q)' = LogRow(q)
        /\ Confidence(q)' = Confidence(q)
    BY RankingStands
  <1> QED
    BY <1>1 DEF StageOf

\* Nobody has asked anything.
LEMMA InitEstablishesPackInv == Init => PackInv
  <1> SUFFICES ASSUME Init PROVE PackInv
    OBVIOUS
  <1>1. TypeOK
    <2>1. <<>> \in Seq(Chunks)
      BY EmptySeq
    <2> QED
      BY <2>1 DEF Init, TypeOK, Running
  <1>2. ASSUME NEW q \in Queries PROVE StageOf(q)
    <2>1. Kept(q) = {}
      <3>1. DOMAIN ranked[q] = {}
        BY DEF Init
      <3> QED
        BY <3>1 DEF Kept
    <2> QED
      BY <2>1 DEF Init, StageOf, Running
  <1> QED
    BY <1>1, <1>2, StagesByQuery DEF PackInv
\* What a step of another query, or of the corpus, leaves alone in query p.
UnchangedFor(p) ==
    /\ pc'[p] = pc[p] /\ limit'[p] = limit[p] /\ least'[p] = least[p]
    /\ found'[p] = found[p] /\ total'[p] = total[p] /\ ranked'[p] = ranked[p]
    /\ stored'[p] = stored[p] /\ log'[p] = log[p] /\ answer'[p] = answer[p]
    /\ shown[p] \subseteq shown'[p]
    /\ pc[p] \in Running => Docs \ hidden' \subseteq shown'[p]

\* The same, for the conjunction a step of another query gives.
LEMMA UntouchedQuery ==
    ASSUME NEW q \in Queries, StageOf(q), UnchangedFor(q) PROVE StageOf(q)'
  BY Untouched DEF UnchangedFor

\* A step of a query keeps the invariant, action by action.
LEMMA QueryKeepsPackInv ==
    ASSUME PackInv, NEW q \in Queries, QueryStep(q)
    PROVE  PackInv'
  <1>1. TypeOK /\ \A p \in Queries : StageOf(p)
    BY StagesByQuery DEF PackInv
  <1>2. ASSUME TypeOK', StageOf(q)', \A p \in Queries \ {q} : StageOf(p)' PROVE PackInv'
    <2>1. \A p \in Queries : StageOf(p)'
      BY <1>2
    <2> QED
      BY <1>2, <2>1, Zenon DEF PackInv, Stages, VerdictMatches, StageOf
  <1> USE <1>1
  <1>3. CASE \E n \in 1 .. MaxItems, m \in 0 .. MaxScore : Start(q, n, m)
    <2> USE <1>3 DEF Start, Goto
    <2>0. ranked[q] = <<>> /\ ranked'[q] = <<>> /\ Kept(q)' = {}
      BY <1>1 DEF StageOf, Kept, ranking
    <2>1. TypeOK'
      BY DEF TypeOK, Running, corpus, request, ranking, audit
    <2>2. StageOf(q)'
      BY <1>1, <2>0 DEF TypeOK, StageOf, Running, corpus, audit, ranking
    <2>3. ASSUME NEW p \in Queries \ {q} PROVE StageOf(p)'
      <3>1. UnchangedFor(p)
        BY <1>1 DEF TypeOK, StageOf, UnchangedFor, corpus, request, ranking, audit
      <3> QED
        BY <1>1, <3>1, UntouchedQuery
    <2> QED
      BY <2>1, <2>2, <2>3, <1>2
  <1>4. CASE \E cs \in SUBSET Visible : Search(q, cs)
    <2> PICK cs \in SUBSET Visible : Search(q, cs)
      BY <1>4
    <2> USE DEF Search, Goto
    <2>0. ranked[q] = <<>> /\ ranked'[q] = <<>> /\ Kept(q)' = {}
      BY <1>1 DEF StageOf, Kept
    <2>4. cs \subseteq Chunks /\ \A c \in cs : DocOf[c] \in Docs \ hidden
      BY DEF TypeOK, Visible
    <2>5. pc[q] \in Running
      BY DEF Running
    <2>6. \A c \in cs : DocOf[c] \in shown[q]
      BY <1>1, <2>4, <2>5 DEF StageOf
    <2>1. TypeOK'
      BY <2>4 DEF TypeOK, Running, corpus, request, audit
    <2>2. StageOf(q)'
      <3>1. found'[q] = cs /\ shown' = shown
        BY DEF TypeOK
      <3>2. {DocOf[c] : c \in found'[q]} \subseteq shown'[q]
        BY <2>6, <3>1
      <3> QED
        BY <1>1, <2>0, <3>2 DEF TypeOK, StageOf, Running, corpus, audit, request
    <2>3. ASSUME NEW p \in Queries \ {q} PROVE StageOf(p)'
      <3>1. UnchangedFor(p)
        BY <1>1 DEF TypeOK, StageOf, UnchangedFor, corpus, request, audit
      <3> QED
        BY <1>1, <3>1, UntouchedQuery
    <2> QED
      BY <2>1, <2>2, <2>3, <1>2
  <1>5. CASE \E cs \in SUBSET found[q] : \E r \in Orders(cs), t \in Scores(cs) :
                \E k \in [Docs -> 0 .. MaxKey] : Rank(q, cs, k, t, r)
    <2> PICK cs \in SUBSET found[q] : \E r \in Orders(cs), t \in Scores(cs) :
                \E k \in [Docs -> 0 .. MaxKey] : Rank(q, cs, k, t, r)
      BY <1>5
    <2> PICK r \in Orders(cs), t \in Scores(cs) :
                \E k \in [Docs -> 0 .. MaxKey] : Rank(q, cs, k, t, r)
      OBVIOUS
    <2> PICK k \in [Docs -> 0 .. MaxKey] : Rank(q, cs, k, t, r)
      OBVIOUS
    <2> USE DEF Rank, Goto
    <2>4. cs \subseteq Chunks
      BY DEF TypeOK
    <2>5. r \in Seq(Chunks) /\ \A i \in DOMAIN r : r[i] \in cs
      BY <2>4, OrderIsSequence
    <2>6. t \in [Chunks -> Nat]
      BY <2>4 DEF Scores
    <2>7. k \in [Docs -> Nat]
      OBVIOUS
    <2>1. TypeOK'
      BY <2>5, <2>6, <2>7 DEF TypeOK, Running, corpus, request, audit
    <2>8. ranked'[q] = r /\ Kept(q)' \subseteq cs
      BY <2>5 DEF TypeOK, Kept
    <2>2. StageOf(q)'
      BY <1>1, <2>8 DEF TypeOK, StageOf, Running, corpus, request, audit
    <2>3. ASSUME NEW p \in Queries \ {q} PROVE StageOf(p)'
      <3>1. UnchangedFor(p)
        BY <1>1 DEF TypeOK, StageOf, UnchangedFor, corpus, request, audit
      <3> QED
        BY <1>1, <3>1, UntouchedQuery
    <2> QED
      BY <2>1, <2>2, <2>3, <1>2
  <1>6. CASE StoreScores(q)
    <2> USE <1>6 DEF StoreScores, Goto
    <2>0. /\ Kept(q)' = Kept(q)
          /\ Window(q)' = Window(q)
          /\ ReturnedDocs(q)' = ReturnedDocs(q)
          /\ ReturnedChunks(q)' = ReturnedChunks(q)
          /\ LogRow(q)' = LogRow(q)
          /\ Confidence(q)' = Confidence(q)
      BY RankingStands DEF request, ranking, audit
    <2>1. TypeOK'
      BY ReturnedIsRanked DEF TypeOK, Running, corpus, request, ranking, audit
    <2>2. StageOf(q)'
      BY <1>1, <2>0 DEF TypeOK, StageOf, Running, corpus, request, ranking, audit
    <2>3. ASSUME NEW p \in Queries \ {q} PROVE StageOf(p)'
      <3>1. UnchangedFor(p)
        BY <1>1 DEF TypeOK, StageOf, UnchangedFor, corpus, request, ranking, audit
      <3> QED
        BY <1>1, <3>1, UntouchedQuery
    <2> QED
      BY <2>1, <2>2, <2>3, <1>2
  <1>7. CASE WriteLog(q)
    <2> USE <1>7 DEF WriteLog, Goto
    <2>0. /\ Kept(q)' = Kept(q)
          /\ Window(q)' = Window(q)
          /\ ReturnedDocs(q)' = ReturnedDocs(q)
          /\ ReturnedChunks(q)' = ReturnedChunks(q)
          /\ LogRow(q)' = LogRow(q)
          /\ Confidence(q)' = Confidence(q)
      BY RankingStands DEF request, ranking, audit
    <2>1. TypeOK'
      BY RowTypes DEF TypeOK, Running, corpus, request, ranking, audit
    <2>2. StageOf(q)'
      <3>1. log'[q] = LogRow(q) /\ LogRow(q).status = "ok" /\ stored' = stored
        BY DEF TypeOK, LogRow, audit
      <3>2. pc[q] = "log" /\ pc'[q] = "reply" /\ answer' = answer /\ shown' = shown
        BY DEF TypeOK
      <3>3. limit' = limit /\ found' = found /\ ranked' = ranked /\ hidden' = hidden
        BY DEF request, ranking, corpus
      <3> HIDE DEF WriteLog, Goto
      <3> QED
        BY <1>1, <2>0, <3>1, <3>2, <3>3 DEF StageOf, Running
    <2>3. ASSUME NEW p \in Queries \ {q} PROVE StageOf(p)'
      <3>1. UnchangedFor(p)
        BY <1>1 DEF TypeOK, StageOf, UnchangedFor, corpus, request, ranking, audit
      <3> QED
        BY <1>1, <3>1, UntouchedQuery
    <2> QED
      BY <2>1, <2>2, <2>3, <1>2
  <1>8. CASE Reply(q)
    <2> USE <1>8 DEF Reply, Goto
    <2>0. /\ Kept(q)' = Kept(q)
          /\ Window(q)' = Window(q)
          /\ ReturnedDocs(q)' = ReturnedDocs(q)
          /\ ReturnedChunks(q)' = ReturnedChunks(q)
          /\ LogRow(q)' = LogRow(q)
          /\ Confidence(q)' = Confidence(q)
      BY RankingStands DEF request, ranking, audit
    <2>1. TypeOK'
      BY RowTypes DEF TypeOK, Running, corpus, request, ranking, audit
    <2>2. StageOf(q)'
      <3>1. /\ answer'[q] # NoAnswer
            /\ answer'[q].docs = ReturnedDocs(q)
            /\ answer'[q].chunks = ReturnedChunks(q)
            /\ answer'[q].confidence = Confidence(q)
        BY RowTypes DEF TypeOK
      <3>2. pc[q] = "reply" /\ pc'[q] = "answered" /\ log' = log /\ stored' = stored
        BY DEF TypeOK, audit
      <3>3. /\ limit' = limit /\ found' = found /\ ranked' = ranked /\ hidden' = hidden
            /\ shown' = shown
        BY DEF request, ranking, corpus
      <3>4. LogRow(q).status = "ok"
        BY DEF LogRow
      <3> HIDE DEF Reply, Goto
      <3> QED
        BY <1>1, <2>0, <3>1, <3>2, <3>3, <3>4 DEF StageOf, Running
    <2>3. ASSUME NEW p \in Queries \ {q} PROVE StageOf(p)'
      <3>1. UnchangedFor(p)
        BY <1>1 DEF TypeOK, StageOf, UnchangedFor, corpus, request, ranking, audit
      <3> QED
        BY <1>1, <3>1, UntouchedQuery
    <2> QED
      BY <2>1, <2>2, <2>3, <1>2
  <1>9. CASE Raise(q)
    <2> USE <1>9 DEF Raise, Event
    <2>0. /\ Kept(q)' = Kept(q)
          /\ Window(q)' = Window(q)
          /\ ReturnedDocs(q)' = ReturnedDocs(q)
          /\ ReturnedChunks(q)' = ReturnedChunks(q)
          /\ LogRow(q)' = LogRow(q)
          /\ Confidence(q)' = Confidence(q)
      BY RankingStands DEF request, ranking, audit
    <2>1. TypeOK'
      BY DEF TypeOK, Running, corpus, request, ranking, audit
    <2>2. StageOf(q)'
      BY <1>1, <2>0 DEF TypeOK, StageOf, Running, corpus, request, ranking, audit
    <2>3. ASSUME NEW p \in Queries \ {q} PROVE StageOf(p)'
      <3>1. UnchangedFor(p)
        BY <1>1 DEF TypeOK, StageOf, UnchangedFor, corpus, request, ranking, audit
      <3> QED
        BY <1>1, <3>1, UntouchedQuery
    <2> QED
      BY <2>1, <2>2, <2>3, <1>2
  <1>10. CASE LogError(q)
    <2> USE <1>10 DEF LogError, Goto
    <2>0. /\ Kept(q)' = Kept(q)
          /\ Window(q)' = Window(q)
          /\ ReturnedDocs(q)' = ReturnedDocs(q)
          /\ ReturnedChunks(q)' = ReturnedChunks(q)
          /\ LogRow(q)' = LogRow(q)
          /\ Confidence(q)' = Confidence(q)
      BY RankingStands DEF request, ranking, audit
    <2>1. TypeOK'
      BY DEF TypeOK, Running, LogRows, corpus, request, ranking, audit
    <2>2. StageOf(q)'
      BY <1>1, <2>0 DEF TypeOK, StageOf, Running, corpus, request, ranking, audit
    <2>3. ASSUME NEW p \in Queries \ {q} PROVE StageOf(p)'
      <3>1. UnchangedFor(p)
        BY <1>1 DEF TypeOK, StageOf, UnchangedFor, corpus, request, ranking, audit
      <3> QED
        BY <1>1, <3>1, UntouchedQuery
    <2> QED
      BY <2>1, <2>2, <2>3, <1>2
  <1>11. CASE LogErrorRaises(q)
    <2> USE <1>11 DEF LogErrorRaises, Goto, Event
    <2>0. /\ Kept(q)' = Kept(q)
          /\ Window(q)' = Window(q)
          /\ ReturnedDocs(q)' = ReturnedDocs(q)
          /\ ReturnedChunks(q)' = ReturnedChunks(q)
          /\ LogRow(q)' = LogRow(q)
          /\ Confidence(q)' = Confidence(q)
      BY RankingStands DEF request, ranking, audit
    <2>1. TypeOK'
      BY DEF TypeOK, Running, corpus, request, ranking, audit
    <2>2. StageOf(q)'
      BY <1>1, <2>0 DEF TypeOK, StageOf, Running, corpus, request, ranking, audit
    <2>3. ASSUME NEW p \in Queries \ {q} PROVE StageOf(p)'
      <3>1. UnchangedFor(p)
        BY <1>1 DEF TypeOK, StageOf, UnchangedFor, corpus, request, ranking, audit
      <3> QED
        BY <1>1, <3>1, UntouchedQuery
    <2> QED
      BY <2>1, <2>2, <2>3, <1>2
  <1>12. CASE Crash(q)
    <2> USE <1>12 DEF Crash, Event
    <2>0. /\ Kept(q)' = Kept(q)
          /\ Window(q)' = Window(q)
          /\ ReturnedDocs(q)' = ReturnedDocs(q)
          /\ ReturnedChunks(q)' = ReturnedChunks(q)
          /\ LogRow(q)' = LogRow(q)
          /\ Confidence(q)' = Confidence(q)
      BY RankingStands DEF request, ranking, audit
    <2>1. TypeOK'
      BY DEF TypeOK, Running, corpus, request, ranking, audit
    <2>2. StageOf(q)'
      BY <1>1, <2>0 DEF TypeOK, StageOf, Running, corpus, request, ranking, audit
    <2>3. ASSUME NEW p \in Queries \ {q} PROVE StageOf(p)'
      <3>1. UnchangedFor(p)
        BY <1>1 DEF TypeOK, StageOf, UnchangedFor, corpus, request, ranking, audit
      <3> QED
        BY <1>1, <3>1, UntouchedQuery
    <2> QED
      BY <2>1, <2>2, <2>3, <1>2
  <1> QED
    BY <1>3, <1>4, <1>5, <1>6, <1>7, <1>8, <1>9, <1>10, <1>11, <1>12 DEF QueryStep
\* A change of the corpus keeps it: a document that is shown again is shown to
\* every query under way.
LEMMA CorpusKeepsPackInv ==
    ASSUME PackInv, NEW d \in Docs, CorpusStep(d)
    PROVE  PackInv'
  <1>1. TypeOK /\ \A q \in Queries : StageOf(q)
    BY StagesByQuery DEF PackInv
  <1>2. TypeOK'
    <2>1. CASE \E cs \in SUBSET RowsOf(d) : Rewrite(d, cs)
      BY <1>1, <2>1 DEF Rewrite, RowsOf, Event, TypeOK, Running, request, ranking, audit
    <2>2. CASE Suppress(d)
      BY <1>1, <2>2 DEF Suppress, RowsOf, Event, TypeOK, Running, request, ranking, audit
    <2>3. CASE Unsuppress(d)
      BY <1>1, <2>3 DEF Unsuppress, Event, TypeOK, Running, request, ranking, audit
    <2> QED
      BY <2>1, <2>2, <2>3 DEF CorpusStep
  <1>3. ASSUME NEW q \in Queries PROVE StageOf(q)'
    <2>1. /\ UNCHANGED <<pc, request, ranking, audit, answer>>
          /\ hidden' \subseteq hidden \cup {d}
      BY DEF CorpusStep, Rewrite, Suppress, Unsuppress
    <2>2. shown[q] \subseteq shown'[q] /\ (pc[q] \in Running => Docs \ hidden' \subseteq shown'[q])
      <3>1. CASE UNCHANGED shown /\ hidden \subseteq hidden'
        BY <1>1, <3>1 DEF StageOf
      <3>2. CASE Unsuppress(d)
        BY <1>1, <3>2 DEF StageOf, Unsuppress
      <3> QED
        BY <3>1, <3>2 DEF CorpusStep, Rewrite, Suppress
    <2>3. UnchangedFor(q)
      BY <2>1, <2>2 DEF UnchangedFor, request, ranking, audit
    <2> QED
      BY <1>1, <2>3, UntouchedQuery
  <1> QED
    BY <1>2, <1>3, Zenon DEF PackInv, Stages, VerdictMatches, StageOf

\* A stuttering step keeps the invariant.
LEMMA StutterKeepsPackInv ==
    ASSUME PackInv, UNCHANGED vars PROVE PackInv'
  <1>1. TypeOK /\ \A q \in Queries : StageOf(q)
    BY StagesByQuery DEF PackInv
  <1>2. TypeOK'
    BY <1>1 DEF TypeOK, vars, corpus, request, ranking, audit
  <1>3. ASSUME NEW q \in Queries PROVE StageOf(q)'
    <2>1. UnchangedFor(q)
      BY <1>1 DEF StageOf, UnchangedFor, vars, corpus, request, ranking, audit
    <2> QED
      BY <1>1, <2>1, UntouchedQuery
  <1> QED
    BY <1>2, <1>3, Zenon DEF PackInv, Stages, VerdictMatches, StageOf

-----------------------------------------------------------------------------
(* Theorems *)

\* The types, what each query has written by each of its steps, and that error
\* rows and clients agree, for any number of queries, documents and failures.
THEOREM PackInvariance == Spec => []PackInv
  <1>1. Init => PackInv
    BY InitEstablishesPackInv
  <1>2. PackInv /\ [Next]_vars => PackInv'
    BY QueryKeepsPackInv, CorpusKeepsPackInv, StutterKeepsPackInv DEF Next
  <1> QED
    BY <1>1, <1>2, PTL DEF Spec

\* A query's log row and its client agree on the outcome.
THEOREM VerdictsMatch == Spec => []VerdictMatches
  <1>1. PackInv => VerdictMatches
    BY DEF PackInv
  <1> QED
    BY <1>1, PackInvariance, PTL

\* At the answer, the stages say what was logged and stored.
LEMMA PackInvImpliesAudited == PackInv => Audited
  <1> SUFFICES ASSUME PackInv, NEW q \in Queries, answer[q] # NoAnswer
               PROVE  /\ log[q] # NoLog
                      /\ log[q].status = "ok"
                      /\ log[q].docs = answer[q].docs
                      /\ log[q].chunks = answer[q].chunks
                      /\ log[q].count >= Cardinality(answer[q].chunks)
                      /\ ranked[q] # <<>> => ranked[q][1] \in stored[q]
    BY DEF Audited
  <1>1. TypeOK /\ StageOf(q)
    BY StagesByQuery DEF PackInv
  <1>2. /\ log[q] = LogRow(q) /\ stored[q] = Window(q) /\ limit[q] > 0
        /\ answer[q].docs = ReturnedDocs(q) /\ answer[q].chunks = ReturnedChunks(q)
        /\ Kept(q) \subseteq found[q]
    BY <1>1 DEF StageOf
  <1>3. log[q] # NoLog
    BY <1>1, <1>2, RowTypes
  <1>4. /\ log[q].status = "ok" /\ log[q].docs = ReturnedDocs(q)
        /\ log[q].chunks = ReturnedChunks(q) /\ log[q].count = Cardinality(found[q])
    BY <1>2 DEF LogRow
  <1>5. Cardinality(found[q]) >= Cardinality(ReturnedChunks(q))
    <2>1. found[q] \subseteq Chunks /\ ReturnedChunks(q) \subseteq found[q]
      BY <1>1, <1>2, ReturnedIsRanked DEF TypeOK
    <2>2. IsFiniteSet(found[q])
      BY <2>1, FS_Subset
    <2>3. Cardinality(ReturnedChunks(q)) <= Cardinality(found[q])
      BY <2>1, <2>2, FS_Subset
    <2>4. /\ Cardinality(ReturnedChunks(q)) \in Nat
          /\ Cardinality(found[q]) \in Nat
      BY <2>1, <2>2, FS_Subset, FS_CardinalityType
    <2> QED
      BY <2>3, <2>4
  <1>6. ASSUME ranked[q] # <<>> PROVE ranked[q][1] \in Window(q)
    <2>1. ranked[q] \in Seq(Chunks)
      BY <1>1 DEF TypeOK
    <2>2. 1 \in DOMAIN ranked[q]
      BY <2>1, <1>6, EmptySeq, LenProperties
    <2>3. limit[q] \in Nat \ {0}
      BY <1>1, <1>2 DEF TypeOK
    <2>4. StoreFactor * limit[q] >= 1
      BY <2>3
    <2>5. StoreFactor * limit[q] \in Nat
      BY <2>3
    <2>6. 1 \in 1 .. StoreFactor * limit[q]
      BY <2>4, <2>5
    <2> QED
      BY <2>2, <2>6 DEF Window
  <1> QED
    BY <1>2, <1>3, <1>4, <1>5, <1>6

\* Every answer is in the log as it was given, with the score behind its
\* confidence stored.
THEOREM AnswersAreAudited == Spec => []Audited
  BY PackInvariance, PackInvImpliesAudited, PTL

\* What an answer returns was found while it was not suppressed.
LEMMA PackInvImpliesExcluded == PackInv => SuppressedExcluded
  <1> SUFFICES ASSUME PackInv, NEW q \in Queries, answer[q] # NoAnswer
               PROVE  answer[q].docs \subseteq shown[q]
    BY DEF SuppressedExcluded
  <1>1. TypeOK /\ StageOf(q)
    BY StagesByQuery DEF PackInv
  <1>2. answer[q].docs = ReturnedDocs(q)
    BY <1>1 DEF StageOf
  <1>3. ReturnedDocs(q) \subseteq {DocOf[c] : c \in found[q]}
    BY <1>1, ReturnedIsRanked DEF StageOf
  <1> QED
    BY <1>1, <1>2, <1>3 DEF StageOf

\* Nobody is shown a document that was suppressed throughout the query.
THEOREM SuppressedAreExcluded == Spec => []SuppressedExcluded
  BY PackInvariance, PackInvImpliesExcluded, PTL

\* High confidence names the first item: either it holds the first rank, or that
\* rank was below the minimum and the item is not.
LEMMA PackInvImpliesEarned == PackInv => ConfidenceEarned
  <1> SUFFICES ASSUME PackInv, NEW q \in Queries, answer[q] # NoAnswer,
                      answer[q].confidence = "high"
               PROVE  \E i \in Items(q) :
                        /\ \A j \in Items(q) : i <= j
                        /\ total[q][ranked[q][i]] >= High
                        /\ Cardinality(Cites(q, i)) >= 2
    BY DEF ConfidenceEarned
  <1> DEFINE First == {k \in Items(q) : \A j \in Items(q) : k <= j}
  <1>1. TypeOK /\ Confidence(q) = "high" /\ limit[q] \in Nat \ {0}
    BY StagesByQuery DEF PackInv, StageOf, TypeOK
  <1>2. ranked[q] \in Seq(Chunks) /\ total[q] \in [Chunks -> Nat] /\ least[q] \in Nat
    BY <1>1 DEF TypeOK
  <1>3. /\ DOMAIN ranked[q] = 1 .. Len(ranked[q]) /\ Len(ranked[q]) \in Nat
        /\ \A i \in DOMAIN ranked[q] : ranked[q][i] \in Chunks
    BY <1>2, LenProperties, ElementOfSeq
  <1>4. Items(q) \subseteq Relevant(q) /\ Relevant(q) \subseteq Firsts(q)
        /\ Firsts(q) \subseteq DOMAIN ranked[q]
    BY DEF Items, Relevant, Firsts
  <1>5. ranked[q] # <<>> /\ total[q][ranked[q][1]] >= High /\ CitedSignals(q) >= 2
    <2>1. CASE ranked[q] = <<>>
      <3>1. Items(q) = {}
        BY <2>1, <1>3, <1>4, EmptySeq
      <3>2. CitedSignals(q) = Cardinality({})
        BY <3>1 DEF CitedSignals
      <3>3. CitedSignals(q) = 0
        BY <3>2, FS_EmptySet
      <3> QED
        BY <1>1, <2>1, <3>3 DEF Confidence
    <2>2. CASE ranked[q] # <<>>
      BY <1>1, <2>2 DEF Confidence
    <2> QED
      BY <2>1, <2>2
  <1>6. PICK i \in First : TRUE
    <2>1. CASE First = {}
      <3>1. CitedSignals(q) = Cardinality({})
        BY <2>1 DEF CitedSignals
      <3> QED
        BY <1>5, <3>1, FS_EmptySet
    <2> QED
      BY <2>1
  <1>7. i \in Items(q) /\ \A j \in Items(q) : i <= j
    OBVIOUS
  <1>8. First = {i}
    BY <1>3, <1>4, <1>7
  <1>9. CitedSignals(q) = Cardinality(Cites(q, i))
    <2>1. UNION {Cites(q, k) : k \in First} = Cites(q, i)
      <3> HIDE DEF First
      <3> QED
        BY <1>8
    <2> QED
      BY <2>1 DEF CitedSignals
  <1>10. total[q][ranked[q][i]] >= High
    <2>1. CASE i = 1
      BY <1>5, <2>1
    <2>2. CASE i # 1
      <3>1. 1 \in DOMAIN ranked[q]
        BY <1>3, <1>4, <1>7
      <3>2. 1 \in Firsts(q)
        BY <3>1 DEF Firsts
      <3>3. CASE 1 \in Relevant(q)
        <4>1. {j \in Relevant(q) : j < 1} = {}
          BY <1>3, <1>4
        <4>2. 1 \in Items(q)
          BY <1>1, <3>3, <4>1, FS_EmptySet DEF Items
        <4> QED
          BY <1>3, <1>4, <1>7, <2>2, <4>2
      <3>4. CASE 1 \notin Relevant(q)
        <4>1. total[q][ranked[q][1]] \in Nat /\ total[q][ranked[q][i]] \in Nat
          BY <1>2, <1>3, <1>4, <1>7, <3>1
        <4>2. ~(total[q][ranked[q][1]] >= least[q])
          BY <3>2, <3>4 DEF Relevant
        <4>3. total[q][ranked[q][i]] >= least[q]
          BY <1>4, <1>7 DEF Relevant
        <4> QED
          BY <1>2, <1>5, <4>1, <4>2, <4>3
      <3> QED
        BY <3>3, <3>4
    <2> QED
      BY <2>1, <2>2
  <1> QED
    BY <1>5, <1>7, <1>9, <1>10

\* Confidence is high only for a first item that has the score and citations.
THEOREM ConfidenceIsEarned == Spec => []ConfidenceEarned
  BY PackInvariance, PackInvImpliesEarned, PTL

-----------------------------------------------------------------------------
(* Places of numbers in a finite set of them *)

\* How many members of S are below i.
Place(S, i) == Cardinality({j \in S : j < i})

\* The members of S take the places from 0 on, in their order.
LEMMA Places ==
    ASSUME NEW S \in SUBSET Nat, IsFiniteSet(S)
    PROVE  /\ Cardinality(S) \in Nat
           /\ \A i \in S : Place(S, i) \in 0 .. Cardinality(S) - 1
           /\ \A i, j \in S : i < j => Place(S, i) < Place(S, j)
           /\ \A n \in 0 .. Cardinality(S) - 1 : \E i \in S : Place(S, i) = n
  <1> DEFINE Below(i) == {j \in S : j < i}
             T == 0 .. Cardinality(S) - 1
             place == [i \in S |-> Place(S, i)]
  <1>0. \A i \in S : i \in Nat
    OBVIOUS
  <1>1. Cardinality(S) \in Nat
    BY FS_CardinalityType
  <1>2. ASSUME NEW i \in S
        PROVE  IsFiniteSet(Below(i)) /\ Cardinality(Below(i)) \in Nat
    BY FS_Subset, FS_CardinalityType
  <1>3. ASSUME NEW i \in S PROVE Place(S, i) \in T
    <2>1. Below(i) \subseteq S \ {i}
      OBVIOUS
    <2>2. /\ IsFiniteSet(S \ {i})
          /\ Cardinality(S \ {i}) = Cardinality(S) - 1
      BY FS_RemoveElement
    <2>3. Cardinality(Below(i)) <= Cardinality(S) - 1
      BY <2>1, <2>2, FS_Subset
    <2> QED
      BY <1>1, <1>2, <2>3 DEF Place
  <1>4. ASSUME NEW i \in S, NEW j \in S, i < j PROVE Place(S, i) < Place(S, j)
    <2>0. i \in Nat /\ j \in Nat
      BY <1>0
    <2>1. Below(i) \subseteq Below(j) \ {i} /\ i \in Below(j)
      <3>1. \A k \in S : k < i => k < j /\ k # i
        BY <1>0, <1>4, <2>0
      <3> QED
        BY <1>4, <3>1
    <2>2. /\ IsFiniteSet(Below(j) \ {i})
          /\ Cardinality(Below(j) \ {i}) = Cardinality(Below(j)) - 1
      BY <1>2, <2>1, FS_RemoveElement
    <2>3. Cardinality(Below(i)) <= Cardinality(Below(j)) - 1
      BY <2>1, <2>2, FS_Subset
    <2> QED
      BY <1>2, <2>3 DEF Place
  <1>5. place \in Injection(S, T)
    <2>1. place \in [S -> T]
      BY <1>3
    <2>2. ASSUME NEW i \in S, NEW j \in S, place[i] = place[j] PROVE i = j
      <3>1. Place(S, i) = Place(S, j) /\ Place(S, i) \in Nat /\ Place(S, j) \in Nat
        BY <1>2, <2>2 DEF Place
      <3>2. ~ i < j /\ ~ j < i
        BY <1>4, <3>1
      <3> QED
        BY <1>0, <3>2
    <2> HIDE DEF place
    <2> QED
      BY <2>1, <2>2 DEF Injection, IsInjective
  <1>6. IsFiniteSet(T) /\ Cardinality(T) = Cardinality(S)
    <2>1. IsFiniteSet(T)
          /\ Cardinality(T) = IF 0 > Cardinality(S) - 1 THEN 0 ELSE Cardinality(S) - 1 - 0 + 1
      BY <1>1, FS_Interval
    <2> QED
      BY <1>1, <2>1
  <1>7. place \in Surjection(S, T)
    BY <1>5, <1>6, FS_Injection
  <1>8. ASSUME NEW n \in T PROVE \E i \in S : Place(S, i) = n
    <2>1. PICK i \in S : place[i] = n
      BY <1>7 DEF Surjection
    <2> QED
      BY <2>1
  <1> QED
    BY <1>1, <1>3, <1>4, <1>8

\* The loop that stops after n members has taken n, if there are as many.
LEMMA FirstPlaces ==
    ASSUME NEW S \in SUBSET Nat, IsFiniteSet(S), NEW n \in Nat, n <= Cardinality(S)
    PROVE  Cardinality({i \in S : Place(S, i) < n}) = n
  <1> DEFINE P == {i \in S : Place(S, i) < n}
             T == 0 .. n - 1
             place == [i \in P |-> Place(S, i)]
  <1>1. /\ Cardinality(S) \in Nat
        /\ \A i \in S : Place(S, i) \in 0 .. Cardinality(S) - 1
        /\ \A i, j \in S : i < j => Place(S, i) < Place(S, j)
        /\ \A m \in 0 .. Cardinality(S) - 1 : \E i \in S : Place(S, i) = m
    BY Places
  <1>0. \A i \in S : i \in Nat
    OBVIOUS
  <1>2. place \in [P -> T]
    <2>1. \A i \in P : Place(S, i) \in Nat /\ Place(S, i) < n
      BY <1>1
    <2>2. \A i \in P : Place(S, i) \in T
      BY <2>1
    <2> HIDE DEF T, P
    <2> QED
      BY <2>2
  <1>3. place \in Injection(P, T)
    <2>1. ASSUME NEW i \in P, NEW j \in P, place[i] = place[j] PROVE i = j
      <3>1. Place(S, i) = Place(S, j) /\ Place(S, i) \in Nat
        BY <1>1, <2>1
      <3>2. ~ i < j /\ ~ j < i
        BY <1>1, <3>1
      <3> QED
        BY <1>0, <3>2
    <2> HIDE DEF place
    <2> QED
      BY <1>2, <2>1 DEF Injection, IsInjective
  <1>4. place \in Surjection(P, T)
    <2>1. ASSUME NEW m \in T PROVE \E i \in P : place[i] = m
      <3>1. PICK i \in S : Place(S, i) = m
        BY <1>1
      <3> QED
        BY <3>1
    <2> QED
      BY <1>2, <2>1 DEF Surjection
  <1>5. IsFiniteSet(P)
    BY FS_Subset
  <1>6. Cardinality(T) = Cardinality(P)
    <2> HIDE DEF P, place, T
    <2> QED
      BY <1>3, <1>4, <1>5, FS_Surjection
  <1>7. Cardinality(T) = n
    <2>1. Cardinality(T) = IF 0 > n - 1 THEN 0 ELSE n - 1 - 0 + 1
      BY FS_Interval
    <2> QED
      BY <2>1
  <1> QED
    BY <1>6, <1>7

\* A set of numbers has a first member.
LEMMA FirstMember ==
    ASSUME NEW S \in SUBSET Nat, IsFiniteSet(S), S # {}
    PROVE  \E i \in S : \A j \in S : i <= j
  <1>1. /\ Cardinality(S) \in Nat
        /\ \A i, j \in S : i < j => Place(S, i) < Place(S, j)
        /\ \A i \in S : Place(S, i) \in 0 .. Cardinality(S) - 1
        /\ \A m \in 0 .. Cardinality(S) - 1 : \E i \in S : Place(S, i) = m
    BY Places
  <1>2. 0 \in 0 .. Cardinality(S) - 1
    <2>1. PICK i \in S : TRUE
      OBVIOUS
    <2> QED
      BY <1>1, <2>1
  <1>3. PICK i \in S : Place(S, i) = 0
    BY <1>1, <1>2
  <1>4. ASSUME NEW j \in S, j < i PROVE FALSE
    BY <1>1, <1>3, <1>4
  <1> QED
    BY <1>4

-----------------------------------------------------------------------------
(* The pack by its scores alone *)

\* Every query's chunks are in the order of the request and of their scores.
RankingsSorted == \A q \in Queries : Sorted(ranked[q], key[q], total[q])

\* Only Rank writes a ranking, and it sorts.
LEMMA RankingsSortedStep ==
    ASSUME TypeOK, RankingsSorted, [Next]_vars
    PROVE  RankingsSorted'
  <1>1. CASE UNCHANGED ranking
    BY <1>1 DEF RankingsSorted, Sorted, ranking
  <1>2. ASSUME NEW q \in Queries, \E cs \in SUBSET Visible : Search(q, cs)
        PROVE  RankingsSorted'
    BY <1>2 DEF Search, RankingsSorted, Sorted
  <1>3. ASSUME NEW q \in Queries,
               \E cs \in SUBSET found[q] : \E r \in Orders(cs), t \in Scores(cs) :
                 \E k \in [Docs -> 0 .. MaxKey] : Rank(q, cs, k, t, r)
        PROVE  RankingsSorted'
    <2>1. PICK r, k, t : /\ Sorted(r, k, t)
                         /\ key' = [key EXCEPT ![q] = k]
                         /\ total' = [total EXCEPT ![q] = t]
                         /\ ranked' = [ranked EXCEPT ![q] = r]
      BY <1>3 DEF Rank
    <2>2. /\ key'[q] = k /\ total'[q] = t /\ ranked'[q] = r
          /\ \A p \in Queries \ {q} :
               key'[p] = key[p] /\ total'[p] = total[p] /\ ranked'[p] = ranked[p]
      BY <2>1 DEF TypeOK
    <2>3. Sorted(ranked'[q], key'[q], total'[q])
      BY <2>1, <2>2
    <2>4. \A p \in Queries \ {q} : Sorted(ranked'[p], key'[p], total'[p])
      BY <2>2 DEF RankingsSorted
    <2>5. \A p \in Queries : Sorted(ranked'[p], key'[p], total'[p])
      BY <2>3, <2>4
    <2> QED
      BY <2>5 DEF RankingsSorted, Sorted
  <1>4. ASSUME NEW q \in Queries, QueryStep(q) PROVE RankingsSorted'
    BY <1>1, <1>2, <1>3, <1>4
       DEF QueryStep, Start, StoreScores, WriteLog, Reply, Raise, LogError,
           LogErrorRaises, Crash
  <1>5. ASSUME NEW d \in Docs, CorpusStep(d) PROVE RankingsSorted'
    BY <1>1, <1>5 DEF CorpusStep, Rewrite, Suppress, Unsuppress
  <1> QED
    BY <1>1, <1>4, <1>5 DEF Next, vars

\* A sorted ranking makes the pack exact: the row in hand of a document is its
\* best, and the loop that stops at max_items leaves out only what comes after.
LEMMA SortedIsExact == TypeOK /\ RankingsSorted => PackExact
  <1> SUFFICES ASSUME TypeOK, RankingsSorted, NEW q \in Queries
               PROVE
        LET best(d) == {total[q][c] : c \in {b \in Kept(q) : DocOf[b] = d}}
            good == {d \in Docs : \E s \in best(d) : s >= least[q]}
            in(d) == d \in ReturnedDocs(q)
            ahead(d, e) == \/ key[q][d] > key[q][e]
                           \/ /\ key[q][d] = key[q][e]
                              /\ \E s \in best(d) : \A u \in best(e) : s > u
        IN  /\ \A i \in Items(q) : \A s \in best(DocAt(q, i)) : s <= total[q][ranked[q][i]]
            /\ Cardinality(ReturnedDocs(q)) = Cardinality(Items(q))
            /\ ReturnedDocs(q) \subseteq good
            /\ \A d \in good : in(d) \/ /\ Cardinality(Items(q)) = limit[q]
                                        /\ \A e \in Docs : in(e) => ~ahead(d, e)
    BY DEF PackExact
  <1> DEFINE score(i) == total[q][ranked[q][i]]
             best(d) == {total[q][c] : c \in {b \in Kept(q) : DocOf[b] = d}}
             good == {d \in Docs : \E s \in best(d) : s >= least[q]}
             in(d) == d \in ReturnedDocs(q)
             ahead(d, e) == \/ key[q][d] > key[q][e]
                            \/ /\ key[q][d] = key[q][e]
                               /\ \E s \in best(d) : \A u \in best(e) : s > u
  <1>1. /\ ranked[q] \in Seq(Chunks) /\ total[q] \in [Chunks -> Nat]
        /\ key[q] \in [Docs -> Nat] /\ least[q] \in Nat /\ limit[q] \in Nat
    BY DEF TypeOK
  <1>2. /\ DOMAIN ranked[q] = 1 .. Len(ranked[q]) /\ Len(ranked[q]) \in Nat
        /\ \A i \in DOMAIN ranked[q] : /\ ranked[q][i] \in Chunks
                                       /\ DocAt(q, i) \in Docs
                                       /\ score(i) \in Nat
                                       /\ key[q][DocAt(q, i)] \in Nat
    BY <1>1, LenProperties, ElementOfSeq DEF DocAt
  <1>3. /\ Items(q) \subseteq Relevant(q) /\ Relevant(q) \subseteq Firsts(q)
        /\ Firsts(q) \subseteq DOMAIN ranked[q]
    BY DEF Items, Relevant, Firsts
  <1>4. \A i, j \in DOMAIN ranked[q] : i < j =>
            \/ key[q][DocAt(q, i)] > key[q][DocAt(q, j)]
            \/ key[q][DocAt(q, i)] = key[q][DocAt(q, j)] /\ score(i) >= score(j)
    BY DEF RankingsSorted, Sorted, DocAt
  <1>5. ASSUME NEW d \in Docs, NEW s \in best(d)
        PROVE  \E j \in DOMAIN ranked[q] : DocAt(q, j) = d /\ score(j) = s
    BY DEF Kept, DocAt
  <1>6. ASSUME NEW j \in DOMAIN ranked[q] PROVE score(j) \in best(DocAt(q, j))
    BY DEF Kept, DocAt
  <1>7. ASSUME NEW i \in Firsts(q), NEW s \in best(DocAt(q, i)) PROVE s <= score(i)
    <2>1. PICK j \in DOMAIN ranked[q] : DocAt(q, j) = DocAt(q, i) /\ score(j) = s
      BY <1>2, <1>3, <1>5
    <2>2. i \in DOMAIN ranked[q] /\ ~ j < i
      BY <1>2, <1>3, <2>1 DEF Firsts
    <2>3. i < j => score(i) >= score(j)
      BY <1>2, <1>4, <2>1, <2>2
    <2> QED
      BY <1>2, <2>1, <2>2, <2>3
  <1>8. \A i \in Items(q) : \A s \in best(DocAt(q, i)) : s <= score(i)
    BY <1>3, <1>7
  <1>9. /\ IsFiniteSet(Relevant(q)) /\ Relevant(q) \in SUBSET Nat
        /\ IsFiniteSet(Items(q))
    <2>1. IsFiniteSet(DOMAIN ranked[q])
      BY <1>2, FS_Interval
    <2> QED
      BY <1>2, <1>3, <2>1, FS_Subset
  <1>10. Cardinality(ReturnedDocs(q)) = Cardinality(Items(q))
    <2> DEFINE doc == [i \in Items(q) |-> DocAt(q, i)]
    <2>1. doc \in [Items(q) -> ReturnedDocs(q)]
      BY DEF ReturnedDocs
    <2>2. ASSUME NEW i \in Items(q), NEW j \in Items(q), doc[i] = doc[j] PROVE i = j
      BY <1>2, <1>3, <2>2 DEF Firsts
    <2>3. doc \in Injection(Items(q), ReturnedDocs(q))
      <3> HIDE DEF doc
      <3> QED
        BY <2>1, <2>2 DEF Injection, IsInjective
    <2>4. \A d \in ReturnedDocs(q) : \E i \in Items(q) : doc[i] = d
      BY DEF ReturnedDocs
    <2>5. doc \in Surjection(Items(q), ReturnedDocs(q))
      BY <2>1, <2>4 DEF Surjection
    <2> HIDE DEF doc
    <2> QED
      BY <1>9, <2>3, <2>5, FS_Surjection
  <1>11. ReturnedDocs(q) \subseteq good
    <2>1. ASSUME NEW i \in Items(q) PROVE DocAt(q, i) \in good
      <3>1. score(i) >= least[q] /\ i \in DOMAIN ranked[q]
        BY <1>3 DEF Relevant
      <3> QED
        BY <1>2, <1>6, <3>1
    <2> QED
      BY <2>1 DEF ReturnedDocs
  <1>12. ASSUME NEW d \in good, ~ in(d)
         PROVE  /\ Cardinality(Items(q)) = limit[q]
                /\ \A e \in Docs : in(e) => ~ahead(d, e)
    <2> DEFINE R == Relevant(q)
               D == {j \in DOMAIN ranked[q] : DocAt(q, j) = d}
    <2> HIDE DEF best, score
    <2>1. PICK s \in best(d) : s >= least[q]
      OBVIOUS
    <2>2. d \in Docs
      OBVIOUS
    <2>3. \A u \in best(d) : u \in Nat
      BY <1>2, <1>5, <2>2
    <2>4. PICK f \in D : \A j \in D : f <= j
      <3>1. D # {}
        BY <1>5, <2>1
      <3>2. D \in SUBSET Nat /\ IsFiniteSet(D)
        <4>1. IsFiniteSet(1 .. Len(ranked[q])) /\ 1 .. Len(ranked[q]) \in SUBSET Nat
          BY <1>2, FS_Interval
        <4>2. D \subseteq 1 .. Len(ranked[q])
          BY <1>2
        <4> HIDE DEF D
        <4> QED
          BY <4>1, <4>2, FS_Subset
      <3> HIDE DEF D
      <3> QED
        BY <3>1, <3>2, FirstMember
    <2>5. f \in Firsts(q)
      BY <1>2, <2>4 DEF Firsts
    <2>6. score(f) >= least[q]
      <3>1. s <= score(f)
        BY <1>7, <2>1, <2>4, <2>5
      <3>2. s \in Nat
        BY <2>1, <2>3
      <3> QED
        BY <1>1, <1>2, <2>1, <2>4, <3>1, <3>2
    <2>7. f \in R /\ f \notin Items(q)
      BY <1>12, <2>4, <2>5, <2>6 DEF Relevant, ReturnedDocs, score
    <2>8. /\ Cardinality(R) \in Nat
          /\ \A i \in R : Place(R, i) \in 0 .. Cardinality(R) - 1
          /\ \A i, j \in R : i < j => Place(R, i) < Place(R, j)
      BY <1>9, Places
    <2>9. Items(q) = {i \in R : Place(R, i) < limit[q]}
      BY DEF Items, Place
    <2>10. Place(R, f) >= limit[q]
      BY <1>1, <2>7, <2>8, <2>9
    <2>11. Cardinality(Items(q)) = limit[q]
      <3>1. limit[q] <= Cardinality(R)
        BY <1>1, <2>7, <2>8, <2>10
      <3>2. R \in SUBSET Nat /\ IsFiniteSet(R)
        BY <1>9
      <3> HIDE DEF R
      <3>3. Cardinality({i \in R : Place(R, i) < limit[q]}) = limit[q]
        BY <1>1, <3>1, <3>2, FirstPlaces
      <3> QED
        BY <2>9, <3>3
    <2>12. ASSUME NEW e \in Docs, in(e), ahead(d, e) PROVE FALSE
      <3>1. PICK i \in Items(q) : e = DocAt(q, i)
        BY <2>12 DEF ReturnedDocs
      <3>2. i \in R /\ i \in DOMAIN ranked[q] /\ f \in DOMAIN ranked[q] /\ i # f
        BY <1>3, <2>4, <2>7
      <3>3. i < f
        <4>1. ~ f < i
          BY <1>1, <2>7, <2>8, <2>9, <2>10, <3>2
        <4> QED
          BY <1>2, <3>2, <4>1
      <3>4. \/ key[q][e] > key[q][d]
            \/ key[q][e] = key[q][d] /\ score(i) >= score(f)
        BY <1>4, <2>4, <3>1, <3>2, <3>3
      <3>5. key[q][e] \in Nat /\ key[q][d] \in Nat
        BY <1>1
      <3>6. PICK u \in best(d) : \A v \in best(e) : u > v
        BY <2>12, <3>4, <3>5
      <3>7. u > score(i)
        BY <1>6, <3>1, <3>2, <3>6
      <3>8. u <= score(f)
        BY <1>7, <2>4, <2>5, <3>6
      <3>9. score(i) >= score(f)
        BY <2>12, <3>4, <3>5
      <3>10. u \in Nat
        BY <2>3, <3>6
      <3> QED
        BY <1>2, <3>2, <3>7, <3>8, <3>9, <3>10
    <2> QED
      BY <2>11, <2>12
  <1> QED
    BY <1>8, <1>10, <1>11, <1>12

\* research_context_pack builds the best pack its scores allow, whatever the
\* request sorts by, for any number of chunks, documents and queries.
THEOREM PackIsExact == Spec => []PackExact
  <1>1. Init => RankingsSorted
    <2> SUFFICES ASSUME Init, NEW q \in Queries PROVE Sorted(ranked[q], key[q], total[q])
      BY DEF RankingsSorted
    <2>1. DOMAIN ranked[q] = {}
      BY DEF Init
    <2> QED
      BY <2>1 DEF Sorted
  <1>2. PackInv /\ RankingsSorted /\ [Next]_vars => RankingsSorted'
    BY RankingsSortedStep DEF PackInv
  <1>3. PackInv /\ RankingsSorted => PackExact
    BY SortedIsExact DEF PackInv
  <1> QED
    BY <1>1, <1>2, <1>3, PackInvariance, PTL DEF Spec

-----------------------------------------------------------------------------
(* Searches for evidence *)

\* A search's request finds nothing read yet.
LEMMA InitEstablishesEvidenceInv == EvidenceInit => EvidenceInv
  BY DEF EvidenceInit, EvidenceInv, EvidenceTypeOK, Reading, DocsOf

\* What EvidenceInv says of one search.
EvidenceOf(s) ==
    /\ stage[s] \in Reading => Docs \ hidden \subseteq seen[s]
    /\ DocsOf(evidence[s]) \subseteq seen[s]
    /\ related[s] \subseteq evidence[s]
    /\ noted[s] # NoLog => noted[s].docs = DocsOf(evidence[s])
    /\ stage[s] \in {"off", "chunks", "match", "insights", "relations", "lookup", "note"} =>
         noted[s] = NoLog
    /\ stage[s] \in {"off", "chunks", "match", "insights"} => evidence[s] = {}
    /\ stage[s] \in {"off", "chunks", "match", "insights", "relations", "note"} => related[s] = {}

\* The invariant of the evidence, one search at a time.
LEMMA EvidenceBySearch == EvidenceInv <=> EvidenceTypeOK /\ \A s \in Searches : EvidenceOf(s)
  BY DEF EvidenceInv, EvidenceOf

\* Chunks read of documents that are not hidden are of documents seen.
LEMMA ReadIsSeen ==
    ASSUME NEW s \in Searches, EvidenceOf(s), stage[s] \in Reading,
           NEW cs \in SUBSET Chunks, \A c \in cs : DocOf[c] \notin hidden
    PROVE  DocsOf(cs) \subseteq seen[s]
  BY DEF EvidenceOf, DocsOf

\* A step of a search keeps it: what it reads is not hidden then.
LEMMA SearchKeepsEvidenceInv ==
    ASSUME EvidenceInv, NEW s \in Searches, EvidenceStep(s), UNCHANGED vars
    PROVE  EvidenceInv'
  <1>1. EvidenceTypeOK /\ \A r \in Searches : EvidenceOf(r)
    BY EvidenceBySearch
  <1>2. hidden' = hidden /\ rows' = rows
    BY DEF vars, corpus
  <1>3. ASSUME EvidenceTypeOK', EvidenceOf(s)',
               \A r \in Searches \ {s} :
                 /\ stage'[r] = stage[r] /\ evidence'[r] = evidence[r]
                 /\ related'[r] = related[r] /\ noted'[r] = noted[r] /\ seen'[r] = seen[r]
        PROVE  EvidenceInv'
    <2>1. ASSUME NEW r \in Searches \ {s} PROVE EvidenceOf(r)'
      BY <1>1, <1>2, <1>3 DEF EvidenceOf, DocsOf
    <2> QED
      BY <1>3, <2>1 DEF EvidenceInv, EvidenceOf
  <1> USE <1>1, <1>2
  <1>4. CASE \E d \in Docs : AskChunks(s, d)
    <2>1. EvidenceTypeOK'
      BY <1>4 DEF AskChunks, Proceed, EvidenceTypeOK, Reading
    <2>2. EvidenceOf(s)'
      BY <1>4 DEF AskChunks, Proceed, EvidenceTypeOK, EvidenceOf, DocsOf, Reading
    <2> QED
      BY <1>3, <1>4, <2>1, <2>2 DEF AskChunks, Proceed, EvidenceTypeOK
  <1>5. CASE \E k \in Endpoints : AskEvidence(s, k)
    <2>1. EvidenceTypeOK'
      BY <1>5 DEF AskEvidence, Proceed, EvidenceTypeOK, Reading
    <2>2. EvidenceOf(s)'
      BY <1>5 DEF AskEvidence, Proceed, EvidenceTypeOK, EvidenceOf, DocsOf, Reading
    <2> QED
      BY <1>3, <1>5, <2>1, <2>2 DEF AskEvidence, Proceed, EvidenceTypeOK
  <1>6. ASSUME NEW cs \in SUBSET Chunks, ReadChunks(s, cs) PROVE EvidenceInv'
    <2>1. DocsOf(cs) \subseteq seen[s]
      BY <1>6, ReadIsSeen DEF ReadChunks, Proceed, DocsOf, Reading
    <2>2. EvidenceTypeOK'
      BY <1>6 DEF ReadChunks, Proceed, EvidenceTypeOK, Reading
    <2>3. EvidenceOf(s)'
      BY <1>6, <2>1 DEF ReadChunks, Proceed, EvidenceTypeOK, EvidenceOf, DocsOf, Reading
    <2> QED
      BY <1>3, <1>6, <2>2, <2>3 DEF ReadChunks, Proceed, EvidenceTypeOK
  <1>7. ASSUME NEW cs \in SUBSET Chunks, MatchChunks(s, cs) PROVE EvidenceInv'
    <2>1. DocsOf(cs) \subseteq Docs
      BY PackAssumption DEF DocsOf
    <2>2. EvidenceTypeOK'
      BY <1>7, <2>1 DEF MatchChunks, Proceed, EvidenceTypeOK, Reading
    <2>3. EvidenceOf(s)'
      BY <1>7 DEF MatchChunks, Proceed, EvidenceTypeOK, EvidenceOf, DocsOf, Reading
    <2> QED
      BY <1>3, <1>7, <2>2, <2>3 DEF MatchChunks, Proceed, EvidenceTypeOK
  <1>8. ASSUME NEW cs \in SUBSET Chunks, NEW to \in {"note", "relations", "reply"},
               Proceed(s, "insights", to), ListInsights(s, cs)
        PROVE  EvidenceInv'
    <2>1. DocsOf(cs) \subseteq seen[s]
      BY <1>8, ReadIsSeen DEF ListInsights, Insights, Proceed, Reading
    <2>2. EvidenceTypeOK'
      BY <1>8 DEF ListInsights, Proceed, EvidenceTypeOK, Reading
    <2>3. EvidenceOf(s)'
      BY <1>8, <2>1 DEF ListInsights, Proceed, EvidenceTypeOK, EvidenceOf, DocsOf, Reading
    <2> QED
      BY <1>3, <1>8, <2>2, <2>3 DEF ListInsights, Proceed, EvidenceTypeOK
  <1>9. ASSUME NEW cs \in SUBSET Chunks,
               SearchEvidence(s, cs) \/ SeedEvidence(s, cs) \/ CompareEvidence(s, cs)
        PROVE  EvidenceInv'
    BY <1>8, <1>9 DEF SearchEvidence, SeedEvidence, CompareEvidence
  <1>10. ASSUME NEW cs \in SUBSET Chunks, ReadRelations(s, cs) PROVE EvidenceInv'
    <2>1. EvidenceTypeOK'
      BY <1>10 DEF ReadRelations, Proceed, EvidenceTypeOK, Reading
    <2>2. EvidenceOf(s)'
      BY <1>10 DEF ReadRelations, Proceed, EvidenceTypeOK, EvidenceOf, DocsOf, Reading
    <2> QED
      BY <1>3, <1>10, <2>1, <2>2 DEF ReadRelations, Proceed, EvidenceTypeOK
  <1>11. ASSUME NEW cs \in SUBSET Chunks, LookUpRelated(s, cs) PROVE EvidenceInv'
    <2>1. EvidenceTypeOK'
      BY <1>11 DEF LookUpRelated, Proceed, EvidenceTypeOK, Reading
    <2>2. EvidenceOf(s)'
      BY <1>11 DEF LookUpRelated, Proceed, EvidenceTypeOK, EvidenceOf, DocsOf, Reading
    <2> QED
      BY <1>3, <1>11, <2>1, <2>2 DEF LookUpRelated, Proceed, EvidenceTypeOK
  <1>12. CASE LogEvidence(s)
    <2> DEFINE row == [status |-> "ok", count |-> Cardinality(evidence[s]),
                       docs |-> DocsOf(evidence[s]), chunks |-> evidence[s]]
    <2>1. row \in LogRows
      <3>1. evidence[s] \in SUBSET Chunks
        BY DEF EvidenceTypeOK
      <3>2. Cardinality(evidence[s]) \in Nat
        BY <3>1, FS_Subset, FS_CardinalityType
      <3>3. DocsOf(evidence[s]) \subseteq Docs
        BY <3>1 DEF DocsOf
      <3> QED
        BY <3>1, <3>2, <3>3 DEF LogRows
    <2>2. row.docs = DocsOf(evidence[s])
      OBVIOUS
    <2>3. noted' = [noted EXCEPT ![s] = row]
      BY <1>12 DEF LogEvidence
    <2> HIDE DEF row
    <2>4. EvidenceTypeOK'
      BY <1>12, <2>1, <2>3 DEF LogEvidence, Proceed, EvidenceTypeOK, Reading
    <2>5. EvidenceOf(s)'
      BY <1>12, <2>1, <2>2, <2>3 DEF LogEvidence, Proceed, EvidenceTypeOK, EvidenceOf, DocsOf, Reading
    <2> QED
      BY <1>3, <1>12, <2>3, <2>4, <2>5 DEF LogEvidence, Proceed, EvidenceTypeOK
  <1>13. CASE SendEvidence(s)
    <2>1. EvidenceTypeOK'
      BY <1>13 DEF SendEvidence, Proceed, EvidenceTypeOK, Reading
    <2>2. EvidenceOf(s)'
      BY <1>13 DEF SendEvidence, Proceed, EvidenceTypeOK, EvidenceOf, DocsOf, Reading
    <2> QED
      BY <1>3, <1>13, <2>1, <2>2 DEF SendEvidence, Proceed, EvidenceTypeOK
  <1>14. CASE EvidenceFails(s)
    <2>1. EvidenceTypeOK'
      BY <1>14 DEF EvidenceFails, EvidenceTypeOK, Reading
    <2>2. EvidenceOf(s)'
      BY <1>14 DEF EvidenceFails, EvidenceTypeOK, EvidenceOf, DocsOf, Reading
    <2> QED
      BY <1>3, <1>14, <2>1, <2>2 DEF EvidenceFails, EvidenceTypeOK
  <1> QED
    BY <1>4, <1>5, <1>6, <1>7, <1>9, <1>10, <1>11, <1>12, <1>13, <1>14 DEF EvidenceStep

\* Whatever a query or the corpus does, a search has seen what is not hidden.
LEMMA MeanwhileKeepsEvidenceInv ==
    ASSUME EvidenceInv, Meanwhile PROVE EvidenceInv'
  <1>1. EvidenceTypeOK'
    BY DEF EvidenceInv, EvidenceTypeOK, Meanwhile
  <1>2. ASSUME NEW s \in Searches PROVE EvidenceOf(s)'
    <2>1. /\ seen[s] \subseteq seen'[s]
          /\ stage[s] \in Reading => Docs \ hidden' \subseteq seen'[s]
      BY DEF Meanwhile
    <2> QED
      BY <2>1 DEF EvidenceInv, EvidenceOf, Meanwhile, DocsOf
  <1> QED
    BY <1>1, <1>2 DEF EvidenceInv, EvidenceOf

\* The searches leave the queries as they are.
THEOREM QueriesUndisturbed == EvidenceSpec => Spec
  <1>1. EvidenceInit => Init
    BY DEF EvidenceInit
  <1>2. [EvidenceNext]_<<vars, evidenceVars>> => [Next]_vars
    BY DEF EvidenceNext
  <1> QED
    BY <1>1, <1>2, PTL DEF EvidenceSpec, Spec

\* What a search has read is of documents it has seen unsuppressed.
THEOREM EvidenceInvariance == EvidenceSpec => []EvidenceInv
  <1>1. EvidenceInit => EvidenceInv
    BY InitEstablishesEvidenceInv
  <1>2. EvidenceInv /\ [EvidenceNext]_<<vars, evidenceVars>> => EvidenceInv'
    <2> SUFFICES ASSUME EvidenceInv, [EvidenceNext]_<<vars, evidenceVars>> PROVE EvidenceInv'
      OBVIOUS
    <2>1. CASE UNCHANGED <<vars, evidenceVars>>
      BY <2>1 DEF EvidenceInv, EvidenceTypeOK, evidenceVars, vars, corpus, DocsOf
    <2> QED
      BY <2>1, SearchKeepsEvidenceInv, MeanwhileKeepsEvidenceInv DEF EvidenceNext
  <1> QED
    BY <1>1, <1>2, PTL DEF EvidenceSpec

\* Packs and evidence together.
LEMMA InvsImplyHiddenExcluded == EvidenceInv /\ SuppressedExcluded => HiddenExcluded
  BY DEF EvidenceInv, HiddenExcluded, DocsOf

\* Nobody is given anything of a document suppressed throughout the request, by
\* a pack, as chunks or as evidence, and no log row names one.
THEOREM HiddenIsExcluded == EvidenceSpec => []HiddenExcluded
  BY QueriesUndisturbed, SuppressedAreExcluded, EvidenceInvariance, InvsImplyHiddenExcluded, PTL
=============================================================================
