---------------------- MODULE ResearchDocumentsProofs ----------------------
(***************************************************************************)
(* Theorems of ResearchDocuments for every set of workers, scripts,        *)
(* documents and texts, every number of models and every value of the      *)
(* bound on the environment.                                               *)
(***************************************************************************)
EXTENDS ResearchDocuments, TLAPS

\* Every step keeps the type invariant.
LEMMA TypeStep ==
    TypeOK /\ HandsFull /\ TextInHand /\ [Next]_vars
        => TypeOK'
<1> SUFFICES ASSUME TypeOK, HandsFull, TextInHand, [Next]_vars
             PROVE  TypeOK'
  OBVIOUS
<1> USE DocumentsAssumption DEF TypeOK, rowVars, partVars, handVars, procVars
<1>1. ASSUME NEW p \in Procs, Start(p)
      PROVE  TypeOK'
  BY <1>1
     DEF Start, Goto, PCs, Statuses, Procs, Models
<1>2. ASSUME NEW p \in Procs, p \in Ingesters, NEW d0 \in Docs, Discover(p, d0)
      PROVE  TypeOK'
  BY <1>2
     DEF Discover, Goto, Race, InHand, PCs, Statuses
<1>3. ASSUME NEW p \in Procs, p \in Ingesters, SeedRead(p)
      PROVE  TypeOK'
  BY <1>3
     DEF SeedRead, Goto, PCs, Statuses, HandsFull, Between, TextInHand
<1>4. ASSUME NEW p \in Procs, p \in Ingesters, SeedNew(p)
      PROVE  TypeOK'
  BY <1>4
     DEF SeedNew, Goto, SetStatus, PCs, Statuses
<1>5. ASSUME NEW p \in Procs, p \in Ingesters, SeedConflict(p)
      PROVE  TypeOK'
  BY <1>5
     DEF SeedConflict, Done, Release, PCs, Statuses
<1>6. ASSUME NEW p \in Procs, p \in Ingesters, SeedRetry(p)
      PROVE  TypeOK'
  BY <1>6
     DEF SeedRetry, Goto, SetStatus, Retried, PCs, Statuses
<1>7. ASSUME NEW p \in Procs, p \in Ingesters, SeedDeduped(p)
      PROVE  TypeOK'
  BY <1>7
     DEF SeedDeduped, Goto, Retried, PCs, Statuses
<1>8. ASSUME NEW p \in Procs, p \in Ingesters, LookExisting(p)
      PROVE  TypeOK'
  BY <1>8
     DEF LookExisting, Goto, Reembeddable, PCs, Statuses, HandsFull, Between,
         TextInHand
<1>9. ASSUME NEW p \in Procs, p \in Ingesters, SkipExisting(p)
      PROVE  TypeOK'
  BY <1>9
     DEF SkipExisting, Done, Release, PCs, Statuses
<1>10. ASSUME NEW p \in Procs, p \in Ingesters, NEW stored \in BOOLEAN, NEW to \in {"extract", "summary"}, MarkFetched(p, stored, to)
      PROVE  TypeOK'
  <2>1. doc[p] \in Docs
    BY <1>10
       DEF MarkFetched, Goto, HandsFull, Between
  <2>2. payload' \in SUBSET Docs
    BY <1>10, <2>1
       DEF MarkFetched, Goto, SetStatus
  <2>. QED
    BY <1>10, <2>1, <2>2
       DEF MarkFetched, Goto, SetStatus, PCs, Statuses
<1>11. ASSUME NEW p \in Procs, p \in Ingesters, FallbackFetched(p)
      PROVE  TypeOK'
  BY <1>11
     DEF FallbackFetched, Goto, SetStatus, PCs, Statuses
<1>12. ASSUME NEW p \in Procs, p \in Ingesters, MarkFailed(p)
      PROVE  TypeOK'
  BY <1>12
     DEF MarkFailed, SetStatus, Done, Release, PCs, Statuses
<1>13. ASSUME NEW p \in Procs, p \in Ingesters, SuppressJunk(p)
      PROVE  TypeOK'
  <2>1. doc[p] \in Docs
    BY <1>13
       DEF SuppressJunk, HandsFull, Between
  <2>2. /\ suppressed' \in SUBSET Docs /\ insights' \in SUBSET Docs
        /\ model' \in [Docs -> Models \cup {NoModel}]
    BY <1>13, <2>1
       DEF SuppressJunk, Purge, SetStatus, Done, Release
  <2>3. chunks' \in [Docs -> SUBSET Texts] /\ vectors' \in [Docs -> SUBSET Models]
    BY <1>13, <2>1
       DEF SuppressJunk, Purge, SetStatus, Done, Release
  <2>. QED
    BY <1>13, <2>1, <2>2, <2>3
       DEF SuppressJunk, Purge, SetStatus, Done, Release, PCs, Statuses
<1>14. ASSUME NEW p \in Procs, p \in Ingesters, NEW v \in Texts, MarkExtracted(p, v)
      PROVE  TypeOK'
  BY <1>14
     DEF MarkExtracted, SetStatus, PCs, Statuses
<1>15. ASSUME NEW p \in Procs, ReplaceChunks(p)
      PROVE  TypeOK'
  <2>1. doc[p] \in Docs /\ held[p] \in Texts
    BY <1>15
       DEF ReplaceChunks, Goto, HandsFull, Between, TextInHand
  <2>2. chunks' \in [Docs -> SUBSET Texts] /\ vectors' \in [Docs -> SUBSET Models]
    BY <1>15, <2>1
       DEF ReplaceChunks, Goto
  <2>. QED
    BY <1>15, <2>1, <2>2
       DEF ReplaceChunks, Goto, PCs, Statuses
<1>16. ASSUME NEW p \in Procs, NEW q0 \in Procs, OverlapChunks(p, q0)
      PROVE  TypeOK'
  <2>1. doc[p] \in Docs /\ held[p] \in Texts /\ held[q0] \in Texts
    <3>1. pc[p] = "chunks" /\ pc[q0] = "chunks"
      BY <1>16 DEF OverlapChunks
    <3>2. doc[p] \in Docs /\ doc[q0] \in Docs
      BY <3>1 DEF HandsFull, Between, PCs
    <3>. QED
      BY <3>1, <3>2 DEF TextInHand
  <2>2. chunks' \in [Docs -> SUBSET Texts] /\ vectors' \in [Docs -> SUBSET Models]
    BY <1>16, <2>1 DEF OverlapChunks
  <2>. QED
    BY <1>16, <2>1, <2>2 DEF OverlapChunks, PCs, Statuses
<1>17. ASSUME NEW p \in Procs, InsertVectors(p)
      PROVE  TypeOK'
  <2>1. doc[p] \in Docs /\ held[p] \in Texts
    BY <1>17
       DEF InsertVectors, Goto, HandsFull, Between, TextInHand
  <2>2. vectors' \in [Docs -> SUBSET Models]
    BY <1>17, <2>1
       DEF InsertVectors, Goto
  <2>. QED
    BY <1>17, <2>1, <2>2
       DEF InsertVectors, Goto, PCs, Statuses
<1>18. ASSUME NEW p \in Procs, VectorsRejected(p)
      PROVE  TypeOK'
  <2>1. pc[p] = "vectors" /\ Fallout(p)
    BY <1>18
       DEF VectorsRejected
  <2>2. UNCHANGED <<rowVars, partVars, config, mdl, snap, events, raced>>
    BY <1>18
       DEF VectorsRejected
  <2>3. CASE p \in Ingesters \ again
    <3>1. pc' = [pc EXCEPT ![p] = "fail"] /\ UNCHANGED handVars
      BY <2>1, <2>3, DocumentsAssumption
         DEF Fallout, Procs
    <3>. QED
      BY <2>1, <2>2, <2>3, <3>1
         DEF PCs, Statuses
  <2>4. CASE p \notin Ingesters \ again
    <3>1. Done(p)
      BY <2>1, <2>4
         DEF Fallout
    <3>. QED
      BY <2>1, <2>2, <2>4, <3>1
         DEF Done, Release, PCs, Statuses
  <2>. QED
    BY <2>3, <2>4
<1>19. ASSUME NEW p \in Procs, MarkEmbedded(p)
      PROVE  TypeOK'
  BY <1>19
     DEF MarkEmbedded, SetStatus, Done, Release, PCs, Statuses, Models
<1>20. ASSUME NEW p \in Procs, p \in Ingesters, MarkEnriched(p)
      PROVE  TypeOK'
  BY <1>20
     DEF MarkEnriched, Goto, SetStatus, PCs, Statuses
<1>21. ASSUME NEW p \in Procs, p \in Ingesters, ReplaceInsights(p)
      PROVE  TypeOK'
  BY <1>21
     DEF ReplaceInsights, Goto, PCs, Statuses, HandsFull, Between
<1>22. ASSUME NEW p \in Procs, p \in Reembedders, NEW d0 \in Docs, NextRow(p, d0)
      PROVE  TypeOK'
  BY <1>22
     DEF NextRow, Goto, PCs, Statuses
<1>23. ASSUME NEW p \in Procs, p \in Reembedders, ScriptEnds(p)
      PROVE  TypeOK'
  BY <1>23
     DEF ScriptEnds, Goto, PCs, Statuses
<1>24. ASSUME NEW p \in Procs, p \in Reembedders, ListReembed(p)
      PROVE  TypeOK'
  BY <1>24
     DEF ListReembed, Goto, Race, InHand, Reembeddable, PCs, Statuses
<1>25. ASSUME NEW p \in Procs, EmbedRaises(p)
      PROVE  TypeOK'
  <2>1. /\ pc[p] \in {"chunks", "vectors", "mark"}
        /\ Fallout(p)
        /\ events' = events + 1
    BY <1>25
       DEF EmbedRaises, Event
  <2>2. UNCHANGED <<rowVars, partVars, config, mdl, snap, raced>>
    BY <1>25
       DEF EmbedRaises
  <2>3. CASE p \in Ingesters \ again
    <3>1. pc' = [pc EXCEPT ![p] = "fail"] /\ UNCHANGED handVars
      BY <2>1, <2>3, DocumentsAssumption
         DEF Fallout, Procs
    <3>. QED
      BY <2>1, <2>2, <2>3, <3>1
         DEF PCs, Statuses
  <2>4. CASE p \notin Ingesters \ again
    <3>1. Done(p)
      BY <2>1, <2>4
         DEF Fallout
    <3>. QED
      BY <2>1, <2>2, <2>4, <3>1
         DEF Done, Release, PCs, Statuses
  <2>. QED
    BY <2>3, <2>4
<1>26. ASSUME NEW p \in Procs, StepRaises(p)
      PROVE  TypeOK'
  BY <1>26
     DEF StepRaises, Event, Done, Release, PCs, Statuses
<1>27. ASSUME NEW p \in Procs, Crash(p)
      PROVE  TypeOK'
  BY <1>27
     DEF Crash, Event, Release, PCs, Statuses
<1>28. ASSUME NEW d0 \in Docs, Suppress(d0)
      PROVE  TypeOK'
  BY <1>28
     DEF Suppress, Event, Purge, SetStatus, Race, InHand, PCs, Statuses
<1>29. ASSUME NEW d0 \in Docs, Unsuppress(d0)
      PROVE  TypeOK'
  BY <1>29
     DEF Unsuppress, Event, SetStatus, Restored, Race, InHand, PCs, Statuses
<1>30. ASSUME NEW ds \in SUBSET Docs, Redact(ds)
      PROVE  TypeOK'
  BY <1>30
     DEF Redact, Event, PCs, Statuses
<1>31. ASSUME NEW m \in Models, ChangeModel(m)
      PROVE  TypeOK'
  BY <1>31
     DEF ChangeModel, Event, PCs, Statuses, Models
<1>32. CASE UNCHANGED vars
  BY <1>32
     DEF vars, PCs, Statuses
<1> HIDE DEF TypeOK
<1>33. QED
  BY <1>1, <1>2, <1>3, <1>4, <1>5, <1>6, <1>7, <1>8, <1>9, <1>10, <1>11, <1>12,
     <1>13, <1>14, <1>15, <1>16, <1>17, <1>18, <1>19, <1>20, <1>21, <1>22,
     <1>23, <1>24, <1>25, <1>26, <1>27, <1>28, <1>29, <1>30, <1>31, <1>32
     DEF Next, Step, IngestStep, EmbedStep, ScriptStep, Environment

\* A process has a document in hand exactly between two transactions, and none
\* of its listing left for it.
LEMMA HandsStep ==
    TypeOK /\ Kinds /\ HandsFull /\ [Next]_vars
        => HandsFull'
<1> SUFFICES ASSUME TypeOK, Kinds, HandsFull, [Next]_vars
             PROVE  HandsFull'
  OBVIOUS
<1> USE DocumentsAssumption DEF TypeOK, rowVars, partVars, handVars, procVars
<1>1. ASSUME NEW p \in Procs, Start(p)
      PROVE  HandsFull'
  BY <1>1
     DEF Start, Goto, HandsFull, PCs, Between, Kinds
<1>2. ASSUME NEW p \in Procs, p \in Ingesters, NEW d0 \in Docs, Discover(p, d0)
      PROVE  HandsFull'
  BY <1>2
     DEF Discover, Goto, Race, InHand, HandsFull, PCs, Between, Kinds
<1>3. ASSUME NEW p \in Procs, p \in Ingesters, SeedRead(p)
      PROVE  HandsFull'
  BY <1>3
     DEF SeedRead, Goto, HandsFull, PCs, Between, Kinds
<1>4. ASSUME NEW p \in Procs, p \in Ingesters, SeedNew(p)
      PROVE  HandsFull'
  BY <1>4
     DEF SeedNew, Goto, SetStatus, HandsFull, PCs, Between, Kinds
<1>5. ASSUME NEW p \in Procs, p \in Ingesters, SeedConflict(p)
      PROVE  HandsFull'
  BY <1>5
     DEF SeedConflict, Done, Release, HandsFull, PCs, Between, Kinds
<1>6. ASSUME NEW p \in Procs, p \in Ingesters, SeedRetry(p)
      PROVE  HandsFull'
  BY <1>6
     DEF SeedRetry, Goto, SetStatus, Retried, HandsFull, PCs, Between, Kinds
<1>7. ASSUME NEW p \in Procs, p \in Ingesters, SeedDeduped(p)
      PROVE  HandsFull'
  BY <1>7
     DEF SeedDeduped, Goto, Retried, HandsFull, PCs, Between, Kinds
<1>8. ASSUME NEW p \in Procs, p \in Ingesters, LookExisting(p)
      PROVE  HandsFull'
  BY <1>8
     DEF LookExisting, Goto, Reembeddable, HandsFull, PCs, Between, Kinds
<1>9. ASSUME NEW p \in Procs, p \in Ingesters, SkipExisting(p)
      PROVE  HandsFull'
  BY <1>9
     DEF SkipExisting, Done, Release, HandsFull, PCs, Between, Kinds
<1>10. ASSUME NEW p \in Procs, p \in Ingesters, NEW stored \in BOOLEAN, NEW to \in {"extract", "summary"}, MarkFetched(p, stored, to)
      PROVE  HandsFull'
  BY <1>10
     DEF MarkFetched, Goto, SetStatus, HandsFull, PCs, Between, Kinds
<1>11. ASSUME NEW p \in Procs, p \in Ingesters, FallbackFetched(p)
      PROVE  HandsFull'
  BY <1>11
     DEF FallbackFetched, Goto, SetStatus, HandsFull, PCs, Between, Kinds
<1>12. ASSUME NEW p \in Procs, p \in Ingesters, MarkFailed(p)
      PROVE  HandsFull'
  BY <1>12
     DEF MarkFailed, SetStatus, Done, Release, HandsFull, PCs, Between, Kinds
<1>13. ASSUME NEW p \in Procs, p \in Ingesters, SuppressJunk(p)
      PROVE  HandsFull'
  BY <1>13
     DEF SuppressJunk, Purge, SetStatus, Done, Release, HandsFull, PCs, Between,
         Kinds
<1>14. ASSUME NEW p \in Procs, p \in Ingesters, NEW v \in Texts, MarkExtracted(p, v)
      PROVE  HandsFull'
  BY <1>14
     DEF MarkExtracted, SetStatus, HandsFull, PCs, Between, Kinds
<1>15. ASSUME NEW p \in Procs, ReplaceChunks(p)
      PROVE  HandsFull'
  BY <1>15
     DEF ReplaceChunks, Goto, HandsFull, PCs, Between, Kinds
<1>16. ASSUME NEW p \in Procs, NEW q0 \in Procs, OverlapChunks(p, q0)
      PROVE  HandsFull'
  BY <1>16
     DEF OverlapChunks, HandsFull, PCs, Between, Kinds
<1>17. ASSUME NEW p \in Procs, InsertVectors(p)
      PROVE  HandsFull'
  BY <1>17
     DEF InsertVectors, Goto, HandsFull, PCs, Between, Kinds
<1>18. ASSUME NEW p \in Procs, VectorsRejected(p)
      PROVE  HandsFull'
  <2>1. pc[p] = "vectors" /\ Fallout(p)
    BY <1>18
       DEF VectorsRejected
  <2>2. UNCHANGED <<rowVars, partVars, config, mdl, snap, events, raced>>
    BY <1>18
       DEF VectorsRejected
  <2>3. CASE p \in Ingesters \ again
    <3>1. pc' = [pc EXCEPT ![p] = "fail"] /\ UNCHANGED handVars
      BY <2>1, <2>3, DocumentsAssumption
         DEF Fallout, Procs
    <3>. QED
      BY <2>1, <2>2, <2>3, <3>1
         DEF HandsFull, PCs, Between, Kinds
  <2>4. CASE p \notin Ingesters \ again
    <3>1. Done(p)
      BY <2>1, <2>4
         DEF Fallout
    <3>. QED
      BY <2>1, <2>2, <2>4, <3>1
         DEF Done, Release, HandsFull, PCs, Between, Kinds
  <2>. QED
    BY <2>3, <2>4
<1>19. ASSUME NEW p \in Procs, MarkEmbedded(p)
      PROVE  HandsFull'
  BY <1>19
     DEF MarkEmbedded, SetStatus, Done, Release, HandsFull, PCs, Between, Kinds
<1>20. ASSUME NEW p \in Procs, p \in Ingesters, MarkEnriched(p)
      PROVE  HandsFull'
  BY <1>20
     DEF MarkEnriched, Goto, SetStatus, HandsFull, PCs, Between, Kinds
<1>21. ASSUME NEW p \in Procs, p \in Ingesters, ReplaceInsights(p)
      PROVE  HandsFull'
  BY <1>21
     DEF ReplaceInsights, Goto, HandsFull, PCs, Between, Kinds
<1>22. ASSUME NEW p \in Procs, p \in Reembedders, NEW d0 \in Docs, NextRow(p, d0)
      PROVE  HandsFull'
  BY <1>22
     DEF NextRow, Goto, HandsFull, PCs, Between, Kinds
<1>23. ASSUME NEW p \in Procs, p \in Reembedders, ScriptEnds(p)
      PROVE  HandsFull'
  BY <1>23
     DEF ScriptEnds, Goto, HandsFull, PCs, Between, Kinds
<1>24. ASSUME NEW p \in Procs, p \in Reembedders, ListReembed(p)
      PROVE  HandsFull'
  BY <1>24
     DEF ListReembed, Goto, Race, InHand, Reembeddable, HandsFull,
         PCs, Between, Kinds
<1>25. ASSUME NEW p \in Procs, EmbedRaises(p)
      PROVE  HandsFull'
  <2>1. /\ pc[p] \in {"chunks", "vectors", "mark"}
        /\ Fallout(p)
        /\ events' = events + 1
    BY <1>25
       DEF EmbedRaises, Event
  <2>2. UNCHANGED <<rowVars, partVars, config, mdl, snap, raced>>
    BY <1>25
       DEF EmbedRaises
  <2>3. CASE p \in Ingesters \ again
    <3>1. pc' = [pc EXCEPT ![p] = "fail"] /\ UNCHANGED handVars
      BY <2>1, <2>3, DocumentsAssumption
         DEF Fallout, Procs
    <3>. QED
      BY <2>1, <2>2, <2>3, <3>1
         DEF HandsFull, PCs, Between, Kinds
  <2>4. CASE p \notin Ingesters \ again
    <3>1. Done(p)
      BY <2>1, <2>4
         DEF Fallout
    <3>. QED
      BY <2>1, <2>2, <2>4, <3>1
         DEF Done, Release, HandsFull, PCs, Between, Kinds
  <2>. QED
    BY <2>3, <2>4
<1>26. ASSUME NEW p \in Procs, StepRaises(p)
      PROVE  HandsFull'
  BY <1>26
     DEF StepRaises, Event, Done, Release, HandsFull, PCs, Between, Kinds
<1>27. ASSUME NEW p \in Procs, Crash(p)
      PROVE  HandsFull'
  BY <1>27
     DEF Crash, Event, Release, HandsFull, PCs, Between, Kinds
<1>28. CASE UNCHANGED <<pc, doc, snap>>
  BY <1>28
     DEF HandsFull, PCs, Between, Kinds
<1>29. ASSUME NEW d0 \in Docs, Suppress(d0)
      PROVE  UNCHANGED <<pc, doc, snap>>
  BY <1>29
     DEF Suppress, Event, Purge, SetStatus, Race, InHand
<1>30. ASSUME NEW d0 \in Docs, Unsuppress(d0)
      PROVE  UNCHANGED <<pc, doc, snap>>
  BY <1>30
     DEF Unsuppress, Event, SetStatus, Restored, Race, InHand
<1>31. ASSUME NEW ds \in SUBSET Docs, Redact(ds)
      PROVE  UNCHANGED <<pc, doc, snap>>
  BY <1>31
     DEF Redact, Event
<1>32. ASSUME NEW m \in Models, ChangeModel(m)
      PROVE  UNCHANGED <<pc, doc, snap>>
  BY <1>32
     DEF ChangeModel, Event
<1>33. CASE UNCHANGED vars
  BY <1>33, <1>28
     DEF vars
<1> HIDE DEF TypeOK, HandsFull
<1>34. QED
  BY <1>1, <1>2, <1>3, <1>4, <1>5, <1>6, <1>7, <1>8, <1>9, <1>10, <1>11, <1>12,
     <1>13, <1>14, <1>15, <1>16, <1>17, <1>18, <1>19, <1>20, <1>21, <1>22,
     <1>23, <1>24, <1>25, <1>26, <1>27, <1>28, <1>29, <1>30, <1>31, <1>32, <1>33
     DEF Next, Step, IngestStep, EmbedStep, ScriptStep, Environment

\* The text a process holds is the text of a document that has one.
LEMMA TextInHandStep ==
    TypeOK /\ Kinds /\ HandsFull /\ TextInHand /\ [Next]_vars
        => TextInHand'
<1> SUFFICES ASSUME TypeOK, Kinds, HandsFull, TextInHand, [Next]_vars
             PROVE  TextInHand'
  OBVIOUS
<1> USE DocumentsAssumption DEF TypeOK, rowVars, partVars, handVars, procVars
<1>1. ASSUME NEW p \in Procs, Start(p)
      PROVE  TextInHand'
  BY <1>1
     DEF Start, Goto, TextInHand
<1>2. ASSUME NEW p \in Procs, p \in Ingesters, NEW d0 \in Docs, Discover(p, d0)
      PROVE  TextInHand'
  BY <1>2
     DEF Discover, Goto, Race, InHand, TextInHand, Kinds
<1>3. ASSUME NEW p \in Procs, p \in Ingesters, SeedRead(p)
      PROVE  TextInHand'
  BY <1>3
     DEF SeedRead, Goto, TextInHand
<1>4. ASSUME NEW p \in Procs, p \in Ingesters, SeedNew(p)
      PROVE  TextInHand'
  BY <1>4
     DEF SeedNew, Goto, SetStatus, TextInHand
<1>5. ASSUME NEW p \in Procs, p \in Ingesters, SeedConflict(p)
      PROVE  TextInHand'
  BY <1>5
     DEF SeedConflict, Done, Release, TextInHand
<1>6. ASSUME NEW p \in Procs, p \in Ingesters, SeedRetry(p)
      PROVE  TextInHand'
  BY <1>6
     DEF SeedRetry, Goto, SetStatus, Retried, TextInHand
<1>7. ASSUME NEW p \in Procs, p \in Ingesters, SeedDeduped(p)
      PROVE  TextInHand'
  BY <1>7
     DEF SeedDeduped, Goto, Retried, TextInHand
<1>8. ASSUME NEW p \in Procs, p \in Ingesters, LookExisting(p)
      PROVE  TextInHand'
  BY <1>8
     DEF LookExisting, Goto, Reembeddable, TextInHand, HandsFull, Between, PCs,
         Reembeddable
<1>9. ASSUME NEW p \in Procs, p \in Ingesters, SkipExisting(p)
      PROVE  TextInHand'
  BY <1>9
     DEF SkipExisting, Done, Release, TextInHand
<1>10. ASSUME NEW p \in Procs, p \in Ingesters, NEW stored \in BOOLEAN, NEW to \in {"extract", "summary"}, MarkFetched(p, stored, to)
      PROVE  TextInHand'
  BY <1>10
     DEF MarkFetched, Goto, SetStatus, TextInHand
<1>11. ASSUME NEW p \in Procs, p \in Ingesters, FallbackFetched(p)
      PROVE  TextInHand'
  BY <1>11
     DEF FallbackFetched, Goto, SetStatus, TextInHand
<1>12. ASSUME NEW p \in Procs, p \in Ingesters, MarkFailed(p)
      PROVE  TextInHand'
  BY <1>12
     DEF MarkFailed, SetStatus, Done, Release, TextInHand
<1>13. ASSUME NEW p \in Procs, p \in Ingesters, SuppressJunk(p)
      PROVE  TextInHand'
  BY <1>13
     DEF SuppressJunk, Purge, SetStatus, Done, Release, TextInHand
<1>14. ASSUME NEW p \in Procs, p \in Ingesters, NEW v \in Texts, MarkExtracted(p, v)
      PROVE  TextInHand'
  BY <1>14
     DEF MarkExtracted, SetStatus, TextInHand, HandsFull, Between, PCs
<1>15. ASSUME NEW p \in Procs, ReplaceChunks(p)
      PROVE  TextInHand'
  BY <1>15
     DEF ReplaceChunks, Goto, TextInHand
<1>16. ASSUME NEW p \in Procs, NEW q0 \in Procs, OverlapChunks(p, q0)
      PROVE  TextInHand'
  BY <1>16
     DEF OverlapChunks, TextInHand
<1>17. ASSUME NEW p \in Procs, InsertVectors(p)
      PROVE  TextInHand'
  BY <1>17
     DEF InsertVectors, Goto, TextInHand
<1>18. ASSUME NEW p \in Procs, VectorsRejected(p)
      PROVE  TextInHand'
  <2>1. pc[p] = "vectors" /\ Fallout(p)
    BY <1>18
       DEF VectorsRejected
  <2>2. UNCHANGED <<rowVars, partVars, config, mdl, snap, events, raced>>
    BY <1>18
       DEF VectorsRejected
  <2>3. CASE p \in Ingesters \ again
    <3>1. pc' = [pc EXCEPT ![p] = "fail"] /\ UNCHANGED handVars
      BY <2>1, <2>3, DocumentsAssumption
         DEF Fallout, Procs
    <3>. QED
      BY <2>1, <2>2, <2>3, <3>1
         DEF TextInHand
  <2>4. CASE p \notin Ingesters \ again
    <3>1. Done(p)
      BY <2>1, <2>4
         DEF Fallout
    <3>. QED
      BY <2>1, <2>2, <2>4, <3>1
         DEF Done, Release, TextInHand
  <2>. QED
    BY <2>3, <2>4
<1>19. ASSUME NEW p \in Procs, MarkEmbedded(p)
      PROVE  TextInHand'
  BY <1>19
     DEF MarkEmbedded, SetStatus, Done, Release, TextInHand
<1>20. ASSUME NEW p \in Procs, p \in Ingesters, MarkEnriched(p)
      PROVE  TextInHand'
  BY <1>20
     DEF MarkEnriched, Goto, SetStatus, TextInHand
<1>21. ASSUME NEW p \in Procs, p \in Ingesters, ReplaceInsights(p)
      PROVE  TextInHand'
  BY <1>21
     DEF ReplaceInsights, Goto, TextInHand
<1>22. ASSUME NEW p \in Procs, p \in Reembedders, NEW d0 \in Docs, NextRow(p, d0)
      PROVE  TextInHand'
  BY <1>22
     DEF NextRow, Goto, TextInHand
<1>23. ASSUME NEW p \in Procs, p \in Reembedders, ScriptEnds(p)
      PROVE  TextInHand'
  BY <1>23
     DEF ScriptEnds, Goto, TextInHand
<1>24. ASSUME NEW p \in Procs, p \in Reembedders, ListReembed(p)
      PROVE  TextInHand'
  BY <1>24
     DEF ListReembed, Goto, Race, InHand, Reembeddable, TextInHand
<1>25. ASSUME NEW p \in Procs, EmbedRaises(p)
      PROVE  TextInHand'
  <2>1. /\ pc[p] \in {"chunks", "vectors", "mark"}
        /\ Fallout(p)
        /\ events' = events + 1
    BY <1>25
       DEF EmbedRaises, Event
  <2>2. UNCHANGED <<rowVars, partVars, config, mdl, snap, raced>>
    BY <1>25
       DEF EmbedRaises
  <2>3. CASE p \in Ingesters \ again
    <3>1. pc' = [pc EXCEPT ![p] = "fail"] /\ UNCHANGED handVars
      BY <2>1, <2>3, DocumentsAssumption
         DEF Fallout, Procs
    <3>. QED
      BY <2>1, <2>2, <2>3, <3>1
         DEF TextInHand
  <2>4. CASE p \notin Ingesters \ again
    <3>1. Done(p)
      BY <2>1, <2>4
         DEF Fallout
    <3>. QED
      BY <2>1, <2>2, <2>4, <3>1
         DEF Done, Release, TextInHand
  <2>. QED
    BY <2>3, <2>4
<1>26. ASSUME NEW p \in Procs, StepRaises(p)
      PROVE  TextInHand'
  BY <1>26
     DEF StepRaises, Event, Done, Release, TextInHand
<1>27. ASSUME NEW p \in Procs, Crash(p)
      PROVE  TextInHand'
  BY <1>27
     DEF Crash, Event, Release, TextInHand
<1>28. CASE UNCHANGED <<text, pc, doc, held, snap>>
  BY <1>28
     DEF TextInHand
<1>29. ASSUME NEW d0 \in Docs, Suppress(d0)
      PROVE  UNCHANGED <<text, pc, doc, held, snap>>
  BY <1>29
     DEF Suppress, Event, Purge, SetStatus, Race, InHand
<1>30. ASSUME NEW d0 \in Docs, Unsuppress(d0)
      PROVE  UNCHANGED <<text, pc, doc, held, snap>>
  BY <1>30
     DEF Unsuppress, Event, SetStatus, Restored, Race, InHand
<1>31. ASSUME NEW ds \in SUBSET Docs, Redact(ds)
      PROVE  UNCHANGED <<text, pc, doc, held, snap>>
  BY <1>31
     DEF Redact, Event
<1>32. ASSUME NEW m \in Models, ChangeModel(m)
      PROVE  UNCHANGED <<text, pc, doc, held, snap>>
  BY <1>32
     DEF ChangeModel, Event
<1>33. CASE UNCHANGED vars
  BY <1>33, <1>28
     DEF vars
<1> HIDE DEF TypeOK, TextInHand
<1>34. QED
  BY <1>1, <1>2, <1>3, <1>4, <1>5, <1>6, <1>7, <1>8, <1>9, <1>10, <1>11, <1>12,
     <1>13, <1>14, <1>15, <1>16, <1>17, <1>18, <1>19, <1>20, <1>21, <1>22,
     <1>23, <1>24, <1>25, <1>26, <1>27, <1>28, <1>29, <1>30, <1>31, <1>32, <1>33
     DEF Next, Step, IngestStep, EmbedStep, ScriptStep, Environment

\* Only a process that has the text in hand sets a readable status.
LEMMA TextBehindStatusStep ==
    TypeOK /\ HandsFull /\ TextInHand /\ TextBehindStatus /\ [Next]_vars
        => TextBehindStatus'
<1> SUFFICES ASSUME TypeOK, HandsFull, TextInHand, TextBehindStatus, [Next]_vars
             PROVE  TextBehindStatus'
  OBVIOUS
<1> USE DocumentsAssumption DEF TypeOK, rowVars, partVars, handVars, procVars
<1>1. ASSUME NEW p \in Procs, p \in Ingesters, SeedNew(p)
      PROVE  TextBehindStatus'
  BY <1>1
     DEF SeedNew, Goto, SetStatus, TextBehindStatus, TextInHand, Readable,
         HandsFull, Between, PCs
<1>2. ASSUME NEW p \in Procs, p \in Ingesters, SeedRetry(p)
      PROVE  TextBehindStatus'
  BY <1>2
     DEF SeedRetry, Goto, SetStatus, Retried, TextBehindStatus, TextInHand,
         Readable, HandsFull, Between, PCs
<1>3. ASSUME NEW p \in Procs, p \in Ingesters, NEW stored \in BOOLEAN, NEW to \in {"extract", "summary"}, MarkFetched(p, stored, to)
      PROVE  TextBehindStatus'
  BY <1>3
     DEF MarkFetched, Goto, SetStatus, TextBehindStatus, TextInHand, Readable,
         HandsFull, Between, PCs
<1>4. ASSUME NEW p \in Procs, p \in Ingesters, FallbackFetched(p)
      PROVE  TextBehindStatus'
  BY <1>4
     DEF FallbackFetched, Goto, SetStatus, TextBehindStatus, TextInHand,
         Readable, HandsFull, Between, PCs
<1>5. ASSUME NEW p \in Procs, p \in Ingesters, MarkFailed(p)
      PROVE  TextBehindStatus'
  BY <1>5
     DEF MarkFailed, SetStatus, Done, Release, TextBehindStatus, TextInHand,
         Readable, HandsFull, Between, PCs
<1>6. ASSUME NEW p \in Procs, p \in Ingesters, SuppressJunk(p)
      PROVE  TextBehindStatus'
  BY <1>6
     DEF SuppressJunk, Purge, SetStatus, Done, Release, TextBehindStatus,
         TextInHand, Readable, HandsFull, Between, PCs
<1>7. ASSUME NEW p \in Procs, p \in Ingesters, NEW v \in Texts, MarkExtracted(p, v)
      PROVE  TextBehindStatus'
  BY <1>7
     DEF MarkExtracted, SetStatus, TextBehindStatus, TextInHand, Readable,
         HandsFull, Between, PCs
<1>8. ASSUME NEW p \in Procs, MarkEmbedded(p)
      PROVE  TextBehindStatus'
  BY <1>8
     DEF MarkEmbedded, SetStatus, Done, Release, TextBehindStatus, TextInHand,
         Readable, HandsFull, Between, PCs
<1>9. ASSUME NEW p \in Procs, p \in Ingesters, MarkEnriched(p)
      PROVE  TextBehindStatus'
  BY <1>9
     DEF MarkEnriched, Goto, SetStatus, TextBehindStatus, TextInHand, Readable,
         HandsFull, Between, PCs
<1>10. ASSUME NEW d0 \in Docs, Suppress(d0)
      PROVE  TextBehindStatus'
  BY <1>10
     DEF Suppress, Event, Purge, SetStatus, Race, InHand, TextBehindStatus,
         TextInHand, Readable
<1>11. ASSUME NEW d0 \in Docs, Unsuppress(d0)
      PROVE  TextBehindStatus'
  BY <1>11
     DEF Unsuppress, Event, SetStatus, Restored, Race, InHand, TextBehindStatus,
         TextInHand, Readable
<1>12. CASE UNCHANGED <<status, text>>
  BY <1>12
     DEF TextBehindStatus, TextInHand, Readable
<1>13. ASSUME NEW p \in Procs,
             Start(p) \/ SeedRead(p) \/ SeedConflict(p) \/ SeedDeduped(p)
             \/ LookExisting(p) \/ SkipExisting(p) \/ ReplaceChunks(p) \/
             InsertVectors(p) \/ VectorsRejected(p) \/ ReplaceInsights(p)
             \/ ScriptEnds(p) \/ ListReembed(p) \/
             EmbedRaises(p) \/ StepRaises(p) \/ Crash(p)
      PROVE  UNCHANGED <<status, text>>
  BY <1>13
     DEF Start, Goto, SeedRead, SeedConflict, Done, Release, SeedDeduped,
         Retried, LookExisting, Reembeddable, SkipExisting, ReplaceChunks,
         InsertVectors, VectorsRejected, Fallout, ReplaceInsights, ScriptEnds,
         ListReembed, Race, InHand, EmbedRaises, Event,
         StepRaises, Crash
<1>14. ASSUME NEW p \in Procs, p \in Ingesters, NEW d0 \in Docs, Discover(p, d0)
      PROVE  UNCHANGED <<status, text>>
  BY <1>14
     DEF Discover, Goto, Race, InHand
<1>15. ASSUME NEW p \in Procs, NEW q0 \in Procs, OverlapChunks(p, q0)
      PROVE  UNCHANGED <<status, text>>
  BY <1>15
     DEF OverlapChunks
<1>16. ASSUME NEW p \in Procs, p \in Reembedders, NEW d0 \in Docs, NextRow(p, d0)
      PROVE  UNCHANGED <<status, text>>
  BY <1>16
     DEF NextRow, Goto
<1>17. ASSUME NEW ds \in SUBSET Docs, Redact(ds)
      PROVE  UNCHANGED <<status, text>>
  BY <1>17
     DEF Redact, Event
<1>18. ASSUME NEW m \in Models, ChangeModel(m)
      PROVE  UNCHANGED <<status, text>>
  BY <1>18
     DEF ChangeModel, Event
<1>19. CASE UNCHANGED vars
  BY <1>19, <1>12
     DEF vars
<1> HIDE DEF TypeOK, TextBehindStatus
<1>20. QED
  BY <1>1, <1>2, <1>3, <1>4, <1>5, <1>6, <1>7, <1>8, <1>9, <1>10, <1>11, <1>12,
     <1>13, <1>14, <1>15, <1>16, <1>17, <1>18, <1>19
     DEF Next, Step, IngestStep, EmbedStep, ScriptStep, Environment

\* A process takes the steps of its kind.
LEMMA KindsStep ==
    TypeOK /\ Kinds /\ [Next]_vars
        => Kinds'
<1> SUFFICES ASSUME TypeOK, Kinds, [Next]_vars
             PROVE  Kinds'
  OBVIOUS
<1> USE DocumentsAssumption DEF TypeOK, rowVars, partVars, handVars, procVars
<1>1. ASSUME NEW p \in Procs, Start(p)
      PROVE  Kinds'
  BY <1>1
     DEF Start, Goto, Kinds, PCs, Procs
<1>2. ASSUME NEW p \in Procs, p \in Ingesters, NEW d0 \in Docs, Discover(p, d0)
      PROVE  Kinds'
  BY <1>2
     DEF Discover, Goto, Race, InHand, Kinds, PCs, Procs
<1>3. ASSUME NEW p \in Procs, p \in Ingesters, SeedRead(p)
      PROVE  Kinds'
  BY <1>3
     DEF SeedRead, Goto, Kinds, PCs, Procs
<1>4. ASSUME NEW p \in Procs, p \in Ingesters, SeedNew(p)
      PROVE  Kinds'
  BY <1>4
     DEF SeedNew, Goto, SetStatus, Kinds, PCs, Procs
<1>5. ASSUME NEW p \in Procs, p \in Ingesters, SeedConflict(p)
      PROVE  Kinds'
  BY <1>5
     DEF SeedConflict, Done, Release, Kinds, PCs, Procs
<1>6. ASSUME NEW p \in Procs, p \in Ingesters, SeedRetry(p)
      PROVE  Kinds'
  BY <1>6
     DEF SeedRetry, Goto, SetStatus, Retried, Kinds, PCs, Procs
<1>7. ASSUME NEW p \in Procs, p \in Ingesters, SeedDeduped(p)
      PROVE  Kinds'
  BY <1>7
     DEF SeedDeduped, Goto, Retried, Kinds, PCs, Procs
<1>8. ASSUME NEW p \in Procs, p \in Ingesters, LookExisting(p)
      PROVE  Kinds'
  BY <1>8
     DEF LookExisting, Goto, Reembeddable, Kinds, PCs, Procs
<1>9. ASSUME NEW p \in Procs, p \in Ingesters, SkipExisting(p)
      PROVE  Kinds'
  BY <1>9
     DEF SkipExisting, Done, Release, Kinds, PCs, Procs
<1>10. ASSUME NEW p \in Procs, p \in Ingesters, NEW stored \in BOOLEAN, NEW to \in {"extract", "summary"}, MarkFetched(p, stored, to)
      PROVE  Kinds'
  BY <1>10
     DEF MarkFetched, Goto, SetStatus, Kinds, PCs, Procs
<1>11. ASSUME NEW p \in Procs, p \in Ingesters, FallbackFetched(p)
      PROVE  Kinds'
  BY <1>11
     DEF FallbackFetched, Goto, SetStatus, Kinds, PCs, Procs
<1>12. ASSUME NEW p \in Procs, p \in Ingesters, MarkFailed(p)
      PROVE  Kinds'
  BY <1>12
     DEF MarkFailed, SetStatus, Done, Release, Kinds, PCs, Procs
<1>13. ASSUME NEW p \in Procs, p \in Ingesters, SuppressJunk(p)
      PROVE  Kinds'
  BY <1>13
     DEF SuppressJunk, Purge, SetStatus, Done, Release, Kinds, PCs, Procs
<1>14. ASSUME NEW p \in Procs, p \in Ingesters, NEW v \in Texts, MarkExtracted(p, v)
      PROVE  Kinds'
  BY <1>14
     DEF MarkExtracted, SetStatus, Kinds, PCs, Procs
<1>15. ASSUME NEW p \in Procs, ReplaceChunks(p)
      PROVE  Kinds'
  BY <1>15
     DEF ReplaceChunks, Goto, Kinds, PCs, Procs
<1>16. ASSUME NEW p \in Procs, NEW q0 \in Procs, OverlapChunks(p, q0)
      PROVE  Kinds'
  BY <1>16
     DEF OverlapChunks, Kinds, PCs, Procs
<1>17. ASSUME NEW p \in Procs, InsertVectors(p)
      PROVE  Kinds'
  BY <1>17
     DEF InsertVectors, Goto, Kinds, PCs, Procs
<1>18. ASSUME NEW p \in Procs, VectorsRejected(p)
      PROVE  Kinds'
  <2>1. pc[p] = "vectors" /\ Fallout(p)
    BY <1>18
       DEF VectorsRejected
  <2>2. UNCHANGED <<rowVars, partVars, config, mdl, snap, events, raced>>
    BY <1>18
       DEF VectorsRejected
  <2>3. CASE p \in Ingesters \ again
    <3>1. pc' = [pc EXCEPT ![p] = "fail"] /\ UNCHANGED handVars
      BY <2>1, <2>3, DocumentsAssumption
         DEF Fallout, Procs
    <3>. QED
      BY <2>1, <2>2, <2>3, <3>1
         DEF Kinds, PCs, Procs
  <2>4. CASE p \notin Ingesters \ again
    <3>1. Done(p)
      BY <2>1, <2>4
         DEF Fallout
    <3>. QED
      BY <2>1, <2>2, <2>4, <3>1
         DEF Done, Release, Kinds, PCs, Procs
  <2>. QED
    BY <2>3, <2>4
<1>19. ASSUME NEW p \in Procs, MarkEmbedded(p)
      PROVE  Kinds'
  BY <1>19
     DEF MarkEmbedded, SetStatus, Done, Release, Kinds, PCs, Procs
<1>20. ASSUME NEW p \in Procs, p \in Ingesters, MarkEnriched(p)
      PROVE  Kinds'
  BY <1>20
     DEF MarkEnriched, Goto, SetStatus, Kinds, PCs, Procs
<1>21. ASSUME NEW p \in Procs, p \in Ingesters, ReplaceInsights(p)
      PROVE  Kinds'
  BY <1>21
     DEF ReplaceInsights, Goto, Kinds, PCs, Procs
<1>22. ASSUME NEW p \in Procs, p \in Reembedders, NEW d0 \in Docs, NextRow(p, d0)
      PROVE  Kinds'
  BY <1>22
     DEF NextRow, Goto, Kinds, PCs, Procs
<1>23. ASSUME NEW p \in Procs, p \in Reembedders, ScriptEnds(p)
      PROVE  Kinds'
  BY <1>23
     DEF ScriptEnds, Goto, Kinds, PCs, Procs
<1>24. ASSUME NEW p \in Procs, p \in Reembedders, ListReembed(p)
      PROVE  Kinds'
  BY <1>24
     DEF ListReembed, Goto, Race, InHand, Reembeddable, Kinds, PCs,
         Procs
<1>25. ASSUME NEW p \in Procs, EmbedRaises(p)
      PROVE  Kinds'
  <2>1. /\ pc[p] \in {"chunks", "vectors", "mark"}
        /\ Fallout(p)
        /\ events' = events + 1
    BY <1>25
       DEF EmbedRaises, Event
  <2>2. UNCHANGED <<rowVars, partVars, config, mdl, snap, raced>>
    BY <1>25
       DEF EmbedRaises
  <2>3. CASE p \in Ingesters \ again
    <3>1. pc' = [pc EXCEPT ![p] = "fail"] /\ UNCHANGED handVars
      BY <2>1, <2>3, DocumentsAssumption
         DEF Fallout, Procs
    <3>. QED
      BY <2>1, <2>2, <2>3, <3>1
         DEF Kinds, PCs, Procs
  <2>4. CASE p \notin Ingesters \ again
    <3>1. Done(p)
      BY <2>1, <2>4
         DEF Fallout
    <3>. QED
      BY <2>1, <2>2, <2>4, <3>1
         DEF Done, Release, Kinds, PCs, Procs
  <2>. QED
    BY <2>3, <2>4
<1>26. ASSUME NEW p \in Procs, StepRaises(p)
      PROVE  Kinds'
  BY <1>26
     DEF StepRaises, Event, Done, Release, Kinds, PCs, Procs
<1>27. ASSUME NEW p \in Procs, Crash(p)
      PROVE  Kinds'
  BY <1>27
     DEF Crash, Event, Release, Kinds, PCs, Procs
<1>28. CASE UNCHANGED <<pc, again>>
  BY <1>28
     DEF Kinds, PCs, Procs
<1>29. ASSUME NEW d0 \in Docs, Suppress(d0)
      PROVE  UNCHANGED <<pc, again>>
  BY <1>29
     DEF Suppress, Event, Purge, SetStatus, Race, InHand
<1>30. ASSUME NEW d0 \in Docs, Unsuppress(d0)
      PROVE  UNCHANGED <<pc, again>>
  BY <1>30
     DEF Unsuppress, Event, SetStatus, Restored, Race, InHand
<1>31. ASSUME NEW ds \in SUBSET Docs, Redact(ds)
      PROVE  UNCHANGED <<pc, again>>
  BY <1>31
     DEF Redact, Event
<1>32. ASSUME NEW m \in Models, ChangeModel(m)
      PROVE  UNCHANGED <<pc, again>>
  BY <1>32
     DEF ChangeModel, Event
<1>33. CASE UNCHANGED vars
  BY <1>33, <1>28
     DEF vars
<1> HIDE DEF TypeOK, Kinds
<1>34. QED
  BY <1>1, <1>2, <1>3, <1>4, <1>5, <1>6, <1>7, <1>8, <1>9, <1>10, <1>11, <1>12,
     <1>13, <1>14, <1>15, <1>16, <1>17, <1>18, <1>19, <1>20, <1>21, <1>22,
     <1>23, <1>24, <1>25, <1>26, <1>27, <1>28, <1>29, <1>30, <1>31, <1>32, <1>33
     DEF Next, Step, IngestStep, EmbedStep, ScriptStep, Environment

\* Who takes a document that another has in hand makes it raced.
LEMMA OneHolderStep ==
    TypeOK /\ OneHolder /\ [Next]_vars
        => OneHolder'
<1> SUFFICES ASSUME TypeOK, OneHolder, [Next]_vars
             PROVE  OneHolder'
  OBVIOUS
<1> USE DocumentsAssumption DEF TypeOK, rowVars, partVars, handVars, procVars
<1>1. ASSUME NEW p \in Procs, p \in Ingesters, NEW d0 \in Docs, Discover(p, d0)
      PROVE  OneHolder'
  BY <1>1
     DEF Discover, Goto, Race, InHand, OneHolder, InHand
<1>2. ASSUME NEW p \in Procs, p \in Ingesters, SeedConflict(p)
      PROVE  OneHolder'
  BY <1>2
     DEF SeedConflict, Done, Release, OneHolder, InHand
<1>3. ASSUME NEW p \in Procs, p \in Ingesters, SkipExisting(p)
      PROVE  OneHolder'
  BY <1>3
     DEF SkipExisting, Done, Release, OneHolder, InHand
<1>4. ASSUME NEW p \in Procs, p \in Ingesters, MarkFailed(p)
      PROVE  OneHolder'
  BY <1>4
     DEF MarkFailed, SetStatus, Done, Release, OneHolder, InHand
<1>5. ASSUME NEW p \in Procs, p \in Ingesters, SuppressJunk(p)
      PROVE  OneHolder'
  BY <1>5
     DEF SuppressJunk, Purge, SetStatus, Done, Release, OneHolder, InHand
<1>6. ASSUME NEW p \in Procs, VectorsRejected(p)
      PROVE  OneHolder'
  <2>1. pc[p] = "vectors" /\ Fallout(p)
    BY <1>6
       DEF VectorsRejected
  <2>2. UNCHANGED <<rowVars, partVars, config, mdl, snap, events, raced>>
    BY <1>6
       DEF VectorsRejected
  <2>3. CASE p \in Ingesters \ again
    <3>1. pc' = [pc EXCEPT ![p] = "fail"] /\ UNCHANGED handVars
      BY <2>1, <2>3, DocumentsAssumption
         DEF Fallout, Procs
    <3>. QED
      BY <2>1, <2>2, <2>3, <3>1
         DEF OneHolder, InHand
  <2>4. CASE p \notin Ingesters \ again
    <3>1. Done(p)
      BY <2>1, <2>4
         DEF Fallout
    <3>. QED
      BY <2>1, <2>2, <2>4, <3>1
         DEF Done, Release, OneHolder, InHand
  <2>. QED
    BY <2>3, <2>4
<1>7. ASSUME NEW p \in Procs, MarkEmbedded(p)
      PROVE  OneHolder'
  BY <1>7
     DEF MarkEmbedded, SetStatus, Done, Release, OneHolder, InHand
<1>8. ASSUME NEW p \in Procs, p \in Ingesters, ReplaceInsights(p)
      PROVE  OneHolder'
  BY <1>8
     DEF ReplaceInsights, Goto, OneHolder, InHand
<1>9. ASSUME NEW p \in Procs, p \in Reembedders, NEW d0 \in Docs, NextRow(p, d0)
      PROVE  OneHolder'
  BY <1>9
     DEF NextRow, Goto, OneHolder, InHand
<1>10. ASSUME NEW p \in Procs, p \in Reembedders, ListReembed(p)
      PROVE  OneHolder'
  BY <1>10
     DEF ListReembed, Goto, Race, InHand, Reembeddable, OneHolder,
         InHand
<1>11. ASSUME NEW p \in Procs, EmbedRaises(p)
      PROVE  OneHolder'
  <2>1. /\ pc[p] \in {"chunks", "vectors", "mark"}
        /\ Fallout(p)
        /\ events' = events + 1
    BY <1>11
       DEF EmbedRaises, Event
  <2>2. UNCHANGED <<rowVars, partVars, config, mdl, snap, raced>>
    BY <1>11
       DEF EmbedRaises
  <2>3. CASE p \in Ingesters \ again
    <3>1. pc' = [pc EXCEPT ![p] = "fail"] /\ UNCHANGED handVars
      BY <2>1, <2>3, DocumentsAssumption
         DEF Fallout, Procs
    <3>. QED
      BY <2>1, <2>2, <2>3, <3>1
         DEF OneHolder, InHand
  <2>4. CASE p \notin Ingesters \ again
    <3>1. Done(p)
      BY <2>1, <2>4
         DEF Fallout
    <3>. QED
      BY <2>1, <2>2, <2>4, <3>1
         DEF Done, Release, OneHolder, InHand
  <2>. QED
    BY <2>3, <2>4
<1>12. ASSUME NEW p \in Procs, StepRaises(p)
      PROVE  OneHolder'
  BY <1>12
     DEF StepRaises, Event, Done, Release, OneHolder, InHand
<1>13. ASSUME NEW p \in Procs, Crash(p)
      PROVE  OneHolder'
  BY <1>13
     DEF Crash, Event, Release, OneHolder, InHand
<1>14. ASSUME NEW d0 \in Docs, Suppress(d0)
      PROVE  OneHolder'
  BY <1>14
     DEF Suppress, Event, Purge, SetStatus, Race, InHand, OneHolder, InHand
<1>15. ASSUME NEW d0 \in Docs, Unsuppress(d0)
      PROVE  OneHolder'
  BY <1>15
     DEF Unsuppress, Event, SetStatus, Restored, Race, InHand, OneHolder, InHand
<1>16. CASE UNCHANGED <<doc, snap, raced>>
  BY <1>16
     DEF OneHolder, InHand
<1>17. ASSUME NEW p \in Procs,
             Start(p) \/ SeedRead(p) \/ SeedNew(p) \/ SeedRetry(p) \/
             SeedDeduped(p) \/ LookExisting(p) \/ FallbackFetched(p) \/
             ReplaceChunks(p) \/ InsertVectors(p) \/ MarkEnriched(p) \/
             ScriptEnds(p)
      PROVE  UNCHANGED <<doc, snap, raced>>
  BY <1>17
     DEF Start, Goto, SeedRead, SeedNew, SetStatus, SeedRetry, Retried,
         SeedDeduped, LookExisting, Reembeddable, FallbackFetched,
         ReplaceChunks, InsertVectors, MarkEnriched, ScriptEnds
<1>18. ASSUME NEW p \in Procs, p \in Ingesters, NEW stored \in BOOLEAN, NEW to \in {"extract", "summary"}, MarkFetched(p, stored, to)
      PROVE  UNCHANGED <<doc, snap, raced>>
  BY <1>18
     DEF MarkFetched, Goto, SetStatus
<1>19. ASSUME NEW p \in Procs, p \in Ingesters, NEW v \in Texts, MarkExtracted(p, v)
      PROVE  UNCHANGED <<doc, snap, raced>>
  BY <1>19
     DEF MarkExtracted, SetStatus
<1>20. ASSUME NEW p \in Procs, NEW q0 \in Procs, OverlapChunks(p, q0)
      PROVE  UNCHANGED <<doc, snap, raced>>
  BY <1>20
     DEF OverlapChunks
<1>21. ASSUME NEW ds \in SUBSET Docs, Redact(ds)
      PROVE  UNCHANGED <<doc, snap, raced>>
  BY <1>21
     DEF Redact, Event
<1>22. ASSUME NEW m \in Models, ChangeModel(m)
      PROVE  UNCHANGED <<doc, snap, raced>>
  BY <1>22
     DEF ChangeModel, Event
<1>23. CASE UNCHANGED vars
  BY <1>23, <1>16
     DEF vars
<1> HIDE DEF TypeOK, OneHolder
<1>24. QED
  BY <1>1, <1>2, <1>3, <1>4, <1>5, <1>6, <1>7, <1>8, <1>9, <1>10, <1>11, <1>12,
     <1>13, <1>14, <1>15, <1>16, <1>17, <1>18, <1>19, <1>20, <1>21, <1>22, <1>23
     DEF Next, Step, IngestStep, EmbedStep, ScriptStep, Environment

\* A suppressed document that is not raced is only looked at.
LEMMA SuppressedInHandStep ==
    TypeOK /\ Kinds /\ HandsFull /\ OneHolder /\ FreshRead /\ SuppressedInHand /\ [Next]_vars
        => SuppressedInHand'
<1> SUFFICES ASSUME TypeOK, Kinds, HandsFull, OneHolder, FreshRead, SuppressedInHand, [Next]_vars
             PROVE  SuppressedInHand'
  OBVIOUS
<1> USE DocumentsAssumption DEF TypeOK, rowVars, partVars, handVars, procVars
<1>1. ASSUME NEW p \in Procs, Start(p)
      PROVE  SuppressedInHand'
  BY <1>1
     DEF Start, Goto, SuppressedInHand
<1>2. ASSUME NEW p \in Procs, p \in Ingesters, NEW d0 \in Docs, Discover(p, d0)
      PROVE  SuppressedInHand'
  BY <1>2
     DEF Discover, Goto, Race, InHand, SuppressedInHand, Kinds
<1>3. ASSUME NEW p \in Procs, p \in Ingesters, SeedRead(p)
      PROVE  SuppressedInHand'
  BY <1>3
     DEF SeedRead, Goto, SuppressedInHand
<1>4. ASSUME NEW p \in Procs, p \in Ingesters, SeedNew(p)
      PROVE  SuppressedInHand'
  BY <1>4
     DEF SeedNew, Goto, SetStatus, SuppressedInHand, FreshRead
<1>5. ASSUME NEW p \in Procs, p \in Ingesters, SeedConflict(p)
      PROVE  SuppressedInHand'
  BY <1>5
     DEF SeedConflict, Done, Release, SuppressedInHand
<1>6. ASSUME NEW p \in Procs, p \in Ingesters, SeedRetry(p)
      PROVE  SuppressedInHand'
  BY <1>6
     DEF SeedRetry, Goto, SetStatus, Retried, SuppressedInHand, FreshRead
<1>7. ASSUME NEW p \in Procs, p \in Ingesters, SeedDeduped(p)
      PROVE  SuppressedInHand'
  BY <1>7
     DEF SeedDeduped, Goto, Retried, SuppressedInHand
<1>8. ASSUME NEW p \in Procs, p \in Ingesters, LookExisting(p)
      PROVE  SuppressedInHand'
  BY <1>8
     DEF LookExisting, Goto, Reembeddable, SuppressedInHand
<1>9. ASSUME NEW p \in Procs, p \in Ingesters, SkipExisting(p)
      PROVE  SuppressedInHand'
  BY <1>9
     DEF SkipExisting, Done, Release, SuppressedInHand
<1>10. ASSUME NEW p \in Procs, p \in Ingesters, NEW stored \in BOOLEAN, NEW to \in {"extract", "summary"}, MarkFetched(p, stored, to)
      PROVE  SuppressedInHand'
  BY <1>10
     DEF MarkFetched, Goto, SetStatus, SuppressedInHand, HandsFull, Between, PCs
<1>11. ASSUME NEW p \in Procs, p \in Ingesters, FallbackFetched(p)
      PROVE  SuppressedInHand'
  BY <1>11
     DEF FallbackFetched, Goto, SetStatus, SuppressedInHand, HandsFull, Between,
         PCs
<1>12. ASSUME NEW p \in Procs, p \in Ingesters, MarkFailed(p)
      PROVE  SuppressedInHand'
  <2>1. doc[p] \in Docs
    BY <1>12 DEF MarkFailed, HandsFull, Between, PCs
  <2>2. doc[p] \in raced \/ doc[p] \notin suppressed
    BY <1>12, <2>1 DEF MarkFailed, SuppressedInHand
  <2>. QED
    BY <1>12, <2>1, <2>2 DEF MarkFailed, SetStatus, Done, Release, SuppressedInHand
<1>13. ASSUME NEW p \in Procs, p \in Ingesters, SuppressJunk(p)
      PROVE  SuppressedInHand'
  BY <1>13
     DEF SuppressJunk, Purge, SetStatus, Done, Release, SuppressedInHand,
         OneHolder, InHand, HandsFull, Between, PCs
<1>14. ASSUME NEW p \in Procs, p \in Ingesters, NEW v \in Texts, MarkExtracted(p, v)
      PROVE  SuppressedInHand'
  BY <1>14
     DEF MarkExtracted, SetStatus, SuppressedInHand, HandsFull, Between, PCs
<1>15. ASSUME NEW p \in Procs, ReplaceChunks(p)
      PROVE  SuppressedInHand'
  BY <1>15
     DEF ReplaceChunks, Goto, SuppressedInHand
<1>16. ASSUME NEW p \in Procs, NEW q0 \in Procs, OverlapChunks(p, q0)
      PROVE  SuppressedInHand'
  BY <1>16
     DEF OverlapChunks, SuppressedInHand
<1>17. ASSUME NEW p \in Procs, InsertVectors(p)
      PROVE  SuppressedInHand'
  BY <1>17
     DEF InsertVectors, Goto, SuppressedInHand
<1>18. ASSUME NEW p \in Procs, VectorsRejected(p)
      PROVE  SuppressedInHand'
  <2>1. pc[p] = "vectors" /\ Fallout(p)
    BY <1>18
       DEF VectorsRejected
  <2>2. UNCHANGED <<rowVars, partVars, config, mdl, snap, events, raced>>
    BY <1>18
       DEF VectorsRejected
  <2>3. CASE p \in Ingesters \ again
    <3>1. pc' = [pc EXCEPT ![p] = "fail"] /\ UNCHANGED handVars
      BY <2>1, <2>3, DocumentsAssumption
         DEF Fallout, Procs
    <3>. QED
      BY <2>1, <2>2, <2>3, <3>1
         DEF SuppressedInHand
  <2>4. CASE p \notin Ingesters \ again
    <3>1. Done(p)
      BY <2>1, <2>4
         DEF Fallout
    <3>. QED
      BY <2>1, <2>2, <2>4, <3>1
         DEF Done, Release, SuppressedInHand
  <2>. QED
    BY <2>3, <2>4
<1>19. ASSUME NEW p \in Procs, MarkEmbedded(p)
      PROVE  SuppressedInHand'
  <2>1. doc[p] \in Docs
    BY <1>19 DEF MarkEmbedded, HandsFull, Between, PCs
  <2>2. doc[p] \in raced \/ doc[p] \notin suppressed
    BY <1>19, <2>1 DEF MarkEmbedded, SuppressedInHand
  <2>. QED
    BY <1>19, <2>1, <2>2 DEF MarkEmbedded, SetStatus, Done, Release, SuppressedInHand
<1>20. ASSUME NEW p \in Procs, p \in Ingesters, MarkEnriched(p)
      PROVE  SuppressedInHand'
  BY <1>20
     DEF MarkEnriched, Goto, SetStatus, SuppressedInHand, HandsFull, Between,
         PCs
<1>21. ASSUME NEW p \in Procs, p \in Ingesters, ReplaceInsights(p)
      PROVE  SuppressedInHand'
  BY <1>21
     DEF ReplaceInsights, Goto, SuppressedInHand
<1>22. ASSUME NEW p \in Procs, p \in Reembedders, NEW d0 \in Docs, NextRow(p, d0)
      PROVE  SuppressedInHand'
  BY <1>22
     DEF NextRow, Goto, SuppressedInHand, HandsFull, Between, PCs
<1>23. ASSUME NEW p \in Procs, p \in Reembedders, ScriptEnds(p)
      PROVE  SuppressedInHand'
  BY <1>23
     DEF ScriptEnds, Goto, SuppressedInHand
<1>24. ASSUME NEW p \in Procs, p \in Reembedders, ListReembed(p)
      PROVE  SuppressedInHand'
  BY <1>24
     DEF ListReembed, Goto, Race, InHand, Reembeddable,
         SuppressedInHand
<1>25. ASSUME NEW p \in Procs, EmbedRaises(p)
      PROVE  SuppressedInHand'
  <2>1. /\ pc[p] \in {"chunks", "vectors", "mark"}
        /\ Fallout(p)
        /\ events' = events + 1
    BY <1>25
       DEF EmbedRaises, Event
  <2>2. UNCHANGED <<rowVars, partVars, config, mdl, snap, raced>>
    BY <1>25
       DEF EmbedRaises
  <2>3. CASE p \in Ingesters \ again
    <3>1. pc' = [pc EXCEPT ![p] = "fail"] /\ UNCHANGED handVars
      BY <2>1, <2>3, DocumentsAssumption
         DEF Fallout, Procs
    <3>. QED
      BY <2>1, <2>2, <2>3, <3>1
         DEF SuppressedInHand
  <2>4. CASE p \notin Ingesters \ again
    <3>1. Done(p)
      BY <2>1, <2>4
         DEF Fallout
    <3>. QED
      BY <2>1, <2>2, <2>4, <3>1
         DEF Done, Release, SuppressedInHand
  <2>. QED
    BY <2>3, <2>4
<1>26. ASSUME NEW p \in Procs, StepRaises(p)
      PROVE  SuppressedInHand'
  BY <1>26
     DEF StepRaises, Event, Done, Release, SuppressedInHand
<1>27. ASSUME NEW p \in Procs, Crash(p)
      PROVE  SuppressedInHand'
  BY <1>27
     DEF Crash, Event, Release, SuppressedInHand
<1>28. ASSUME NEW d0 \in Docs, Suppress(d0)
      PROVE  SuppressedInHand'
  BY <1>28
     DEF Suppress, Event, Purge, SetStatus, Race, InHand, SuppressedInHand
<1>29. ASSUME NEW d0 \in Docs, Unsuppress(d0)
      PROVE  SuppressedInHand'
  BY <1>29
     DEF Unsuppress, Event, SetStatus, Restored, Race, InHand, SuppressedInHand
<1>30. CASE UNCHANGED <<status, suppressed, pc, doc, snap, raced>>
  BY <1>30
     DEF SuppressedInHand
<1>31. ASSUME NEW ds \in SUBSET Docs, Redact(ds)
      PROVE  UNCHANGED <<status, suppressed, pc, doc, snap, raced>>
  BY <1>31
     DEF Redact, Event
<1>32. ASSUME NEW m \in Models, ChangeModel(m)
      PROVE  UNCHANGED <<status, suppressed, pc, doc, snap, raced>>
  BY <1>32
     DEF ChangeModel, Event
<1>33. CASE UNCHANGED vars
  BY <1>33, <1>30
     DEF vars
<1> HIDE DEF TypeOK, SuppressedInHand
<1>34. QED
  BY <1>1, <1>2, <1>3, <1>4, <1>5, <1>6, <1>7, <1>8, <1>9, <1>10, <1>11, <1>12,
     <1>13, <1>14, <1>15, <1>16, <1>17, <1>18, <1>19, <1>20, <1>21, <1>22,
     <1>23, <1>24, <1>25, <1>26, <1>27, <1>28, <1>29, <1>30, <1>31, <1>32, <1>33
     DEF Next, Step, IngestStep, EmbedStep, ScriptStep, Environment

\* Nobody who may write has an unraced suppressed document in hand.
LEMMA SuppressionSticksStep ==
    TypeOK /\ HandsFull /\ SuppressedInHand /\ SuppressionSticks /\ [Next]_vars
        => SuppressionSticks'
<1> SUFFICES ASSUME TypeOK, HandsFull, SuppressedInHand, SuppressionSticks, [Next]_vars
             PROVE  SuppressionSticks'
  OBVIOUS
<1> USE DocumentsAssumption DEF TypeOK, rowVars, partVars, handVars, procVars
<1>1. ASSUME NEW p \in Procs, p \in Ingesters, NEW d0 \in Docs, Discover(p, d0)
      PROVE  SuppressionSticks'
  BY <1>1
     DEF Discover, Goto, Race, InHand, SuppressionSticks
<1>2. ASSUME NEW p \in Procs, p \in Ingesters, SuppressJunk(p)
      PROVE  SuppressionSticks'
  BY <1>2
     DEF SuppressJunk, Purge, SetStatus, Done, Release, SuppressionSticks,
         SuppressedInHand, HandsFull, Between, PCs
<1>3. ASSUME NEW p \in Procs, ReplaceChunks(p)
      PROVE  SuppressionSticks'
  BY <1>3
     DEF ReplaceChunks, Goto, SuppressionSticks, SuppressedInHand, HandsFull,
         Between, PCs
<1>4. ASSUME NEW p \in Procs, NEW q0 \in Procs, OverlapChunks(p, q0)
      PROVE  SuppressionSticks'
  BY <1>4
     DEF OverlapChunks, SuppressionSticks, SuppressedInHand, HandsFull, Between,
         PCs
<1>5. ASSUME NEW p \in Procs, InsertVectors(p)
      PROVE  SuppressionSticks'
  BY <1>5
     DEF InsertVectors, Goto, SuppressionSticks, SuppressedInHand, HandsFull,
         Between, PCs
<1>6. ASSUME NEW p \in Procs, p \in Ingesters, ReplaceInsights(p)
      PROVE  SuppressionSticks'
  BY <1>6
     DEF ReplaceInsights, Goto, SuppressionSticks, SuppressedInHand, HandsFull,
         Between, PCs
<1>7. ASSUME NEW p \in Procs, p \in Reembedders, ListReembed(p)
      PROVE  SuppressionSticks'
  BY <1>7
     DEF ListReembed, Goto, Race, InHand, Reembeddable,
         SuppressionSticks
<1>8. ASSUME NEW d0 \in Docs, Suppress(d0)
      PROVE  SuppressionSticks'
  BY <1>8
     DEF Suppress, Event, Purge, SetStatus, Race, InHand, SuppressionSticks
<1>9. ASSUME NEW d0 \in Docs, Unsuppress(d0)
      PROVE  SuppressionSticks'
  BY <1>9
     DEF Unsuppress, Event, SetStatus, Restored, Race, InHand, SuppressionSticks
<1>10. CASE UNCHANGED <<suppressed, chunks, vectors, insights, raced>>
  BY <1>10
     DEF SuppressionSticks
<1>11. ASSUME NEW p \in Procs,
             Start(p) \/ SeedRead(p) \/ SeedNew(p) \/ SeedConflict(p) \/
             SeedRetry(p) \/ SeedDeduped(p) \/ LookExisting(p) \/
             SkipExisting(p) \/ FallbackFetched(p) \/ MarkFailed(p) \/
             VectorsRejected(p) \/ MarkEmbedded(p) \/ MarkEnriched(p) \/
             ScriptEnds(p) \/ EmbedRaises(p) \/ StepRaises(p) \/ Crash(p)
      PROVE  UNCHANGED <<suppressed, chunks, vectors, insights, raced>>
  BY <1>11
     DEF Start, Goto, SeedRead, SeedNew, SetStatus, SeedConflict, Done, Release,
         SeedRetry, Retried, SeedDeduped, LookExisting, Reembeddable,
         SkipExisting, FallbackFetched, MarkFailed, VectorsRejected, Fallout,
         MarkEmbedded, MarkEnriched, ScriptEnds, EmbedRaises, Event, StepRaises,
         Crash
<1>12. ASSUME NEW p \in Procs, p \in Ingesters, NEW stored \in BOOLEAN, NEW to \in {"extract", "summary"}, MarkFetched(p, stored, to)
      PROVE  UNCHANGED <<suppressed, chunks, vectors, insights, raced>>
  BY <1>12
     DEF MarkFetched, Goto, SetStatus
<1>13. ASSUME NEW p \in Procs, p \in Ingesters, NEW v \in Texts, MarkExtracted(p, v)
      PROVE  UNCHANGED <<suppressed, chunks, vectors, insights, raced>>
  BY <1>13
     DEF MarkExtracted, SetStatus
<1>14. ASSUME NEW p \in Procs, p \in Reembedders, NEW d0 \in Docs, NextRow(p, d0)
      PROVE  UNCHANGED <<suppressed, chunks, vectors, insights, raced>>
  BY <1>14
     DEF NextRow, Goto
<1>15. ASSUME NEW ds \in SUBSET Docs, Redact(ds)
      PROVE  UNCHANGED <<suppressed, chunks, vectors, insights, raced>>
  BY <1>15
     DEF Redact, Event
<1>16. ASSUME NEW m \in Models, ChangeModel(m)
      PROVE  UNCHANGED <<suppressed, chunks, vectors, insights, raced>>
  BY <1>16
     DEF ChangeModel, Event
<1>17. CASE UNCHANGED vars
  BY <1>17, <1>10
     DEF vars
<1> HIDE DEF TypeOK, SuppressionSticks
<1>18. QED
  BY <1>1, <1>2, <1>3, <1>4, <1>5, <1>6, <1>7, <1>8, <1>9, <1>10, <1>11, <1>12,
     <1>13, <1>14, <1>15, <1>16, <1>17
     DEF Next, Step, IngestStep, EmbedStep, ScriptStep, Environment

\* The status of a document in one hand does not change between SELECT and use.
LEMMA FreshReadStep ==
    TypeOK /\ HandsFull /\ OneHolder /\ FreshRead /\ [Next]_vars
        => FreshRead'
<1> SUFFICES ASSUME TypeOK, HandsFull, OneHolder, FreshRead, [Next]_vars
             PROVE  FreshRead'
  OBVIOUS
<1> USE DocumentsAssumption DEF TypeOK, rowVars, partVars, handVars, procVars
<1>1. ASSUME NEW p \in Procs, Start(p)
      PROVE  FreshRead'
  BY <1>1
     DEF Start, Goto, FreshRead
<1>2. ASSUME NEW p \in Procs, p \in Ingesters, NEW d0 \in Docs, Discover(p, d0)
      PROVE  FreshRead'
  BY <1>2
     DEF Discover, Goto, Race, InHand, FreshRead
<1>3. ASSUME NEW p \in Procs, p \in Ingesters, SeedRead(p)
      PROVE  FreshRead'
  BY <1>3
     DEF SeedRead, Goto, FreshRead
<1>4. ASSUME NEW p \in Procs, p \in Ingesters, SeedNew(p)
      PROVE  FreshRead'
  BY <1>4
     DEF SeedNew, Goto, SetStatus, FreshRead, OneHolder, InHand, HandsFull,
         Between, PCs
<1>5. ASSUME NEW p \in Procs, p \in Ingesters, SeedConflict(p)
      PROVE  FreshRead'
  BY <1>5
     DEF SeedConflict, Done, Release, FreshRead
<1>6. ASSUME NEW p \in Procs, p \in Ingesters, SeedRetry(p)
      PROVE  FreshRead'
  BY <1>6
     DEF SeedRetry, Goto, SetStatus, Retried, FreshRead, OneHolder, InHand,
         HandsFull, Between, PCs
<1>7. ASSUME NEW p \in Procs, p \in Ingesters, SeedDeduped(p)
      PROVE  FreshRead'
  BY <1>7
     DEF SeedDeduped, Goto, Retried, FreshRead
<1>8. ASSUME NEW p \in Procs, p \in Ingesters, LookExisting(p)
      PROVE  FreshRead'
  BY <1>8
     DEF LookExisting, Goto, Reembeddable, FreshRead
<1>9. ASSUME NEW p \in Procs, p \in Ingesters, SkipExisting(p)
      PROVE  FreshRead'
  BY <1>9
     DEF SkipExisting, Done, Release, FreshRead
<1>10. ASSUME NEW p \in Procs, p \in Ingesters, NEW stored \in BOOLEAN, NEW to \in {"extract", "summary"}, MarkFetched(p, stored, to)
      PROVE  FreshRead'
  BY <1>10
     DEF MarkFetched, Goto, SetStatus, FreshRead, OneHolder, InHand, HandsFull,
         Between, PCs
<1>11. ASSUME NEW p \in Procs, p \in Ingesters, FallbackFetched(p)
      PROVE  FreshRead'
  BY <1>11
     DEF FallbackFetched, Goto, SetStatus, FreshRead, OneHolder, InHand,
         HandsFull, Between, PCs
<1>12. ASSUME NEW p \in Procs, p \in Ingesters, MarkFailed(p)
      PROVE  FreshRead'
  BY <1>12
     DEF MarkFailed, SetStatus, Done, Release, FreshRead, OneHolder, InHand,
         HandsFull, Between, PCs
<1>13. ASSUME NEW p \in Procs, p \in Ingesters, SuppressJunk(p)
      PROVE  FreshRead'
  BY <1>13
     DEF SuppressJunk, Purge, SetStatus, Done, Release, FreshRead, OneHolder,
         InHand, HandsFull, Between, PCs
<1>14. ASSUME NEW p \in Procs, p \in Ingesters, NEW v \in Texts, MarkExtracted(p, v)
      PROVE  FreshRead'
  BY <1>14
     DEF MarkExtracted, SetStatus, FreshRead, OneHolder, InHand, HandsFull,
         Between, PCs
<1>15. ASSUME NEW p \in Procs, ReplaceChunks(p)
      PROVE  FreshRead'
  BY <1>15
     DEF ReplaceChunks, Goto, FreshRead
<1>16. ASSUME NEW p \in Procs, NEW q0 \in Procs, OverlapChunks(p, q0)
      PROVE  FreshRead'
  BY <1>16
     DEF OverlapChunks, FreshRead
<1>17. ASSUME NEW p \in Procs, InsertVectors(p)
      PROVE  FreshRead'
  BY <1>17
     DEF InsertVectors, Goto, FreshRead
<1>18. ASSUME NEW p \in Procs, VectorsRejected(p)
      PROVE  FreshRead'
  <2>1. pc[p] = "vectors" /\ Fallout(p)
    BY <1>18
       DEF VectorsRejected
  <2>2. UNCHANGED <<rowVars, partVars, config, mdl, snap, events, raced>>
    BY <1>18
       DEF VectorsRejected
  <2>3. CASE p \in Ingesters \ again
    <3>1. pc' = [pc EXCEPT ![p] = "fail"] /\ UNCHANGED handVars
      BY <2>1, <2>3, DocumentsAssumption
         DEF Fallout, Procs
    <3>. QED
      BY <2>1, <2>2, <2>3, <3>1
         DEF FreshRead
  <2>4. CASE p \notin Ingesters \ again
    <3>1. Done(p)
      BY <2>1, <2>4
         DEF Fallout
    <3>. QED
      BY <2>1, <2>2, <2>4, <3>1
         DEF Done, Release, FreshRead
  <2>. QED
    BY <2>3, <2>4
<1>19. ASSUME NEW p \in Procs, MarkEmbedded(p)
      PROVE  FreshRead'
  BY <1>19
     DEF MarkEmbedded, SetStatus, Done, Release, FreshRead, OneHolder, InHand,
         HandsFull, Between, PCs
<1>20. ASSUME NEW p \in Procs, p \in Ingesters, MarkEnriched(p)
      PROVE  FreshRead'
  BY <1>20
     DEF MarkEnriched, Goto, SetStatus, FreshRead, OneHolder, InHand, HandsFull,
         Between, PCs
<1>21. ASSUME NEW p \in Procs, p \in Ingesters, ReplaceInsights(p)
      PROVE  FreshRead'
  BY <1>21
     DEF ReplaceInsights, Goto, FreshRead
<1>22. ASSUME NEW p \in Procs, p \in Reembedders, NEW d0 \in Docs, NextRow(p, d0)
      PROVE  FreshRead'
  BY <1>22
     DEF NextRow, Goto, FreshRead
<1>23. ASSUME NEW p \in Procs, p \in Reembedders, ScriptEnds(p)
      PROVE  FreshRead'
  BY <1>23
     DEF ScriptEnds, Goto, FreshRead
<1>24. ASSUME NEW p \in Procs, p \in Reembedders, ListReembed(p)
      PROVE  FreshRead'
  BY <1>24
     DEF ListReembed, Goto, Race, InHand, Reembeddable, FreshRead
<1>25. ASSUME NEW p \in Procs, EmbedRaises(p)
      PROVE  FreshRead'
  <2>1. /\ pc[p] \in {"chunks", "vectors", "mark"}
        /\ Fallout(p)
        /\ events' = events + 1
    BY <1>25
       DEF EmbedRaises, Event
  <2>2. UNCHANGED <<rowVars, partVars, config, mdl, snap, raced>>
    BY <1>25
       DEF EmbedRaises
  <2>3. CASE p \in Ingesters \ again
    <3>1. pc' = [pc EXCEPT ![p] = "fail"] /\ UNCHANGED handVars
      BY <2>1, <2>3, DocumentsAssumption
         DEF Fallout, Procs
    <3>. QED
      BY <2>1, <2>2, <2>3, <3>1
         DEF FreshRead
  <2>4. CASE p \notin Ingesters \ again
    <3>1. Done(p)
      BY <2>1, <2>4
         DEF Fallout
    <3>. QED
      BY <2>1, <2>2, <2>4, <3>1
         DEF Done, Release, FreshRead
  <2>. QED
    BY <2>3, <2>4
<1>26. ASSUME NEW p \in Procs, StepRaises(p)
      PROVE  FreshRead'
  BY <1>26
     DEF StepRaises, Event, Done, Release, FreshRead
<1>27. ASSUME NEW p \in Procs, Crash(p)
      PROVE  FreshRead'
  BY <1>27
     DEF Crash, Event, Release, FreshRead
<1>28. ASSUME NEW d0 \in Docs, Suppress(d0)
      PROVE  FreshRead'
  BY <1>28
     DEF Suppress, Event, Purge, SetStatus, Race, InHand, FreshRead, OneHolder,
         InHand, HandsFull, Between, PCs
<1>29. ASSUME NEW d0 \in Docs, Unsuppress(d0)
      PROVE  FreshRead'
  BY <1>29
     DEF Unsuppress, Event, SetStatus, Restored, Race, InHand, FreshRead,
         OneHolder, InHand, HandsFull, Between, PCs
<1>30. CASE UNCHANGED <<status, pc, doc, cur, raced>>
  BY <1>30
     DEF FreshRead
<1>31. ASSUME NEW ds \in SUBSET Docs, Redact(ds)
      PROVE  UNCHANGED <<status, pc, doc, cur, raced>>
  BY <1>31
     DEF Redact, Event
<1>32. ASSUME NEW m \in Models, ChangeModel(m)
      PROVE  UNCHANGED <<status, pc, doc, cur, raced>>
  BY <1>32
     DEF ChangeModel, Event
<1>33. CASE UNCHANGED vars
  BY <1>33, <1>30
     DEF vars
<1> HIDE DEF TypeOK, FreshRead
<1>34. QED
  BY <1>1, <1>2, <1>3, <1>4, <1>5, <1>6, <1>7, <1>8, <1>9, <1>10, <1>11, <1>12,
     <1>13, <1>14, <1>15, <1>16, <1>17, <1>18, <1>19, <1>20, <1>21, <1>22,
     <1>23, <1>24, <1>25, <1>26, <1>27, <1>28, <1>29, <1>30, <1>31, <1>32, <1>33
     DEF Next, Step, IngestStep, EmbedStep, ScriptStep, Environment

\* The text of a document in one hand does not change under its holder.
LEMMA FreshTextStep ==
    TypeOK /\ Kinds /\ HandsFull /\ OneHolder /\ FreshText /\ [Next]_vars
        => FreshText'
<1> SUFFICES ASSUME TypeOK, Kinds, HandsFull, OneHolder, FreshText, [Next]_vars
             PROVE  FreshText'
  OBVIOUS
<1> USE DocumentsAssumption DEF TypeOK, rowVars, partVars, handVars, procVars
<1>1. ASSUME NEW p \in Procs, Start(p)
      PROVE  FreshText'
  BY <1>1
     DEF Start, Goto, FreshText
<1>2. ASSUME NEW p \in Procs, p \in Ingesters, NEW d0 \in Docs, Discover(p, d0)
      PROVE  FreshText'
  BY <1>2
     DEF Discover, Goto, Race, InHand, FreshText, Kinds
<1>3. ASSUME NEW p \in Procs, p \in Ingesters, SeedRead(p)
      PROVE  FreshText'
  BY <1>3
     DEF SeedRead, Goto, FreshText
<1>4. ASSUME NEW p \in Procs, p \in Ingesters, SeedNew(p)
      PROVE  FreshText'
  BY <1>4
     DEF SeedNew, Goto, SetStatus, FreshText
<1>5. ASSUME NEW p \in Procs, p \in Ingesters, SeedConflict(p)
      PROVE  FreshText'
  BY <1>5
     DEF SeedConflict, Done, Release, FreshText
<1>6. ASSUME NEW p \in Procs, p \in Ingesters, SeedRetry(p)
      PROVE  FreshText'
  BY <1>6
     DEF SeedRetry, Goto, SetStatus, Retried, FreshText
<1>7. ASSUME NEW p \in Procs, p \in Ingesters, SeedDeduped(p)
      PROVE  FreshText'
  BY <1>7
     DEF SeedDeduped, Goto, Retried, FreshText
<1>8. ASSUME NEW p \in Procs, p \in Ingesters, LookExisting(p)
      PROVE  FreshText'
  BY <1>8
     DEF LookExisting, Goto, Reembeddable, FreshText, Reembeddable
<1>9. ASSUME NEW p \in Procs, p \in Ingesters, SkipExisting(p)
      PROVE  FreshText'
  BY <1>9
     DEF SkipExisting, Done, Release, FreshText
<1>10. ASSUME NEW p \in Procs, p \in Ingesters, NEW stored \in BOOLEAN, NEW to \in {"extract", "summary"}, MarkFetched(p, stored, to)
      PROVE  FreshText'
  BY <1>10
     DEF MarkFetched, Goto, SetStatus, FreshText
<1>11. ASSUME NEW p \in Procs, p \in Ingesters, FallbackFetched(p)
      PROVE  FreshText'
  BY <1>11
     DEF FallbackFetched, Goto, SetStatus, FreshText
<1>12. ASSUME NEW p \in Procs, p \in Ingesters, MarkFailed(p)
      PROVE  FreshText'
  BY <1>12
     DEF MarkFailed, SetStatus, Done, Release, FreshText
<1>13. ASSUME NEW p \in Procs, p \in Ingesters, SuppressJunk(p)
      PROVE  FreshText'
  BY <1>13
     DEF SuppressJunk, Purge, SetStatus, Done, Release, FreshText
<1>14. ASSUME NEW p \in Procs, p \in Ingesters, NEW v \in Texts, MarkExtracted(p, v)
      PROVE  FreshText'
  BY <1>14
     DEF MarkExtracted, SetStatus, FreshText, OneHolder, InHand, HandsFull,
         Between, PCs
<1>15. ASSUME NEW p \in Procs, ReplaceChunks(p)
      PROVE  FreshText'
  BY <1>15
     DEF ReplaceChunks, Goto, FreshText
<1>16. ASSUME NEW p \in Procs, NEW q0 \in Procs, OverlapChunks(p, q0)
      PROVE  FreshText'
  BY <1>16
     DEF OverlapChunks, FreshText
<1>17. ASSUME NEW p \in Procs, InsertVectors(p)
      PROVE  FreshText'
  BY <1>17
     DEF InsertVectors, Goto, FreshText
<1>18. ASSUME NEW p \in Procs, VectorsRejected(p)
      PROVE  FreshText'
  <2>1. pc[p] = "vectors" /\ Fallout(p)
    BY <1>18
       DEF VectorsRejected
  <2>2. UNCHANGED <<rowVars, partVars, config, mdl, snap, events, raced>>
    BY <1>18
       DEF VectorsRejected
  <2>3. CASE p \in Ingesters \ again
    <3>1. pc' = [pc EXCEPT ![p] = "fail"] /\ UNCHANGED handVars
      BY <2>1, <2>3, DocumentsAssumption
         DEF Fallout, Procs
    <3>. QED
      BY <2>1, <2>2, <2>3, <3>1
         DEF FreshText
  <2>4. CASE p \notin Ingesters \ again
    <3>1. Done(p)
      BY <2>1, <2>4
         DEF Fallout
    <3>. QED
      BY <2>1, <2>2, <2>4, <3>1
         DEF Done, Release, FreshText
  <2>. QED
    BY <2>3, <2>4
<1>19. ASSUME NEW p \in Procs, MarkEmbedded(p)
      PROVE  FreshText'
  BY <1>19
     DEF MarkEmbedded, SetStatus, Done, Release, FreshText
<1>20. ASSUME NEW p \in Procs, p \in Ingesters, MarkEnriched(p)
      PROVE  FreshText'
  BY <1>20
     DEF MarkEnriched, Goto, SetStatus, FreshText
<1>21. ASSUME NEW p \in Procs, p \in Ingesters, ReplaceInsights(p)
      PROVE  FreshText'
  BY <1>21
     DEF ReplaceInsights, Goto, FreshText
<1>22. ASSUME NEW p \in Procs, p \in Reembedders, NEW d0 \in Docs, NextRow(p, d0)
      PROVE  FreshText'
  BY <1>22
     DEF NextRow, Goto, FreshText
<1>23. ASSUME NEW p \in Procs, p \in Reembedders, ScriptEnds(p)
      PROVE  FreshText'
  BY <1>23
     DEF ScriptEnds, Goto, FreshText
<1>24. ASSUME NEW p \in Procs, p \in Reembedders, ListReembed(p)
      PROVE  FreshText'
  BY <1>24
     DEF ListReembed, Goto, Race, InHand, Reembeddable, FreshText
<1>25. ASSUME NEW p \in Procs, EmbedRaises(p)
      PROVE  FreshText'
  <2>1. /\ pc[p] \in {"chunks", "vectors", "mark"}
        /\ Fallout(p)
        /\ events' = events + 1
    BY <1>25
       DEF EmbedRaises, Event
  <2>2. UNCHANGED <<rowVars, partVars, config, mdl, snap, raced>>
    BY <1>25
       DEF EmbedRaises
  <2>3. CASE p \in Ingesters \ again
    <3>1. pc' = [pc EXCEPT ![p] = "fail"] /\ UNCHANGED handVars
      BY <2>1, <2>3, DocumentsAssumption
         DEF Fallout, Procs
    <3>. QED
      BY <2>1, <2>2, <2>3, <3>1
         DEF FreshText
  <2>4. CASE p \notin Ingesters \ again
    <3>1. Done(p)
      BY <2>1, <2>4
         DEF Fallout
    <3>. QED
      BY <2>1, <2>2, <2>4, <3>1
         DEF Done, Release, FreshText
  <2>. QED
    BY <2>3, <2>4
<1>26. ASSUME NEW p \in Procs, StepRaises(p)
      PROVE  FreshText'
  BY <1>26
     DEF StepRaises, Event, Done, Release, FreshText
<1>27. ASSUME NEW p \in Procs, Crash(p)
      PROVE  FreshText'
  BY <1>27
     DEF Crash, Event, Release, FreshText
<1>28. ASSUME NEW d0 \in Docs, Suppress(d0)
      PROVE  FreshText'
  BY <1>28
     DEF Suppress, Event, Purge, SetStatus, Race, InHand, FreshText
<1>29. ASSUME NEW d0 \in Docs, Unsuppress(d0)
      PROVE  FreshText'
  BY <1>29
     DEF Unsuppress, Event, SetStatus, Restored, Race, InHand, FreshText
<1>30. CASE UNCHANGED <<text, pc, doc, held, snap, raced>>
  BY <1>30
     DEF FreshText
<1>31. ASSUME NEW ds \in SUBSET Docs, Redact(ds)
      PROVE  UNCHANGED <<text, pc, doc, held, snap, raced>>
  BY <1>31
     DEF Redact, Event
<1>32. ASSUME NEW m \in Models, ChangeModel(m)
      PROVE  UNCHANGED <<text, pc, doc, held, snap, raced>>
  BY <1>32
     DEF ChangeModel, Event
<1>33. CASE UNCHANGED vars
  BY <1>33, <1>30
     DEF vars
<1> HIDE DEF TypeOK, FreshText
<1>34. QED
  BY <1>1, <1>2, <1>3, <1>4, <1>5, <1>6, <1>7, <1>8, <1>9, <1>10, <1>11, <1>12,
     <1>13, <1>14, <1>15, <1>16, <1>17, <1>18, <1>19, <1>20, <1>21, <1>22,
     <1>23, <1>24, <1>25, <1>26, <1>27, <1>28, <1>29, <1>30, <1>31, <1>32, <1>33
     DEF Next, Step, IngestStep, EmbedStep, ScriptStep, Environment

\* A document that has a model is not in the pipeline, so nobody sets it back.
LEMMA ModelMeansReadableStep ==
    TypeOK /\ Kinds /\ HandsFull /\ FreshRead /\ TextBehindStatus /\ NewInPipeline /\ ModelMeansReadable /\ [Next]_vars
        => ModelMeansReadable'
<1> SUFFICES ASSUME TypeOK, Kinds, HandsFull, FreshRead, TextBehindStatus, NewInPipeline, ModelMeansReadable, [Next]_vars
             PROVE  ModelMeansReadable'
  OBVIOUS
<1> USE DocumentsAssumption DEF TypeOK, rowVars, partVars, handVars, procVars
<1>1. ASSUME NEW p \in Procs, p \in Ingesters, NEW d0 \in Docs, Discover(p, d0)
      PROVE  ModelMeansReadable'
  BY <1>1
     DEF Discover, Goto, Race, InHand, ModelMeansReadable
<1>2. ASSUME NEW p \in Procs, p \in Ingesters, SeedNew(p)
      PROVE  ModelMeansReadable'
  <2>1. doc[p] \in Docs
    BY <1>2 DEF SeedNew, Goto, HandsFull, Between, PCs
  <2>2. doc[p] \in raced \/ model[doc[p]] = NoModel
    BY <1>2, <2>1 DEF SeedNew, Goto, ModelMeansReadable, Readable
  <2>. QED
    BY <1>2, <2>1, <2>2
       DEF SeedNew, Goto, SetStatus, ModelMeansReadable
<1>3. ASSUME NEW p \in Procs, p \in Ingesters, SeedRetry(p)
      PROVE  ModelMeansReadable'
  <2>1. doc[p] \in Docs
    BY <1>3 DEF SeedRetry, Goto, HandsFull, Between, PCs
  <2>2. doc[p] \in raced \/ model[doc[p]] = NoModel
    BY <1>3, <2>1 DEF SeedRetry, Goto, Retried, FreshRead, ModelMeansReadable, Readable
  <2>. QED
    BY <1>3, <2>1, <2>2
       DEF SeedRetry, Goto, SetStatus, Retried, ModelMeansReadable
<1>4. ASSUME NEW p \in Procs, p \in Ingesters, NEW stored \in BOOLEAN, NEW to \in {"extract", "summary"}, MarkFetched(p, stored, to)
      PROVE  ModelMeansReadable'
  <2>1. doc[p] \in Docs
    BY <1>4 DEF MarkFetched, Goto, HandsFull, Between, PCs
  <2>2. doc[p] \in raced \/ model[doc[p]] = NoModel
    BY <1>4, <2>1 DEF MarkFetched, Goto, NewInPipeline, Kinds
  <2>. QED
    BY <1>4, <2>1, <2>2
       DEF MarkFetched, Goto, SetStatus, ModelMeansReadable
<1>5. ASSUME NEW p \in Procs, p \in Ingesters, FallbackFetched(p)
      PROVE  ModelMeansReadable'
  <2>1. doc[p] \in Docs
    BY <1>5 DEF FallbackFetched, Goto, HandsFull, Between, PCs
  <2>2. doc[p] \in raced \/ model[doc[p]] = NoModel
    BY <1>5, <2>1 DEF FallbackFetched, Goto, NewInPipeline, Kinds
  <2>. QED
    BY <1>5, <2>1, <2>2
       DEF FallbackFetched, Goto, SetStatus, ModelMeansReadable
<1>6. ASSUME NEW p \in Procs, p \in Ingesters, MarkFailed(p)
      PROVE  ModelMeansReadable'
  <2>1. doc[p] \in Docs
    BY <1>6 DEF MarkFailed, HandsFull, Between, PCs
  <2>2. doc[p] \in raced \/ model[doc[p]] = NoModel
    BY <1>6, <2>1 DEF MarkFailed, NewInPipeline, Kinds
  <2>. QED
    BY <1>6, <2>1, <2>2
       DEF MarkFailed, SetStatus, Done, Release, ModelMeansReadable
<1>7. ASSUME NEW p \in Procs, p \in Ingesters, SuppressJunk(p)
      PROVE  ModelMeansReadable'
  BY <1>7
     DEF SuppressJunk, Purge, SetStatus, Done, Release, ModelMeansReadable
<1>8. ASSUME NEW p \in Procs, p \in Ingesters, NEW v \in Texts, MarkExtracted(p, v)
      PROVE  ModelMeansReadable'
  BY <1>8
     DEF MarkExtracted, SetStatus, ModelMeansReadable, Readable
<1>9. ASSUME NEW p \in Procs, MarkEmbedded(p)
      PROVE  ModelMeansReadable'
  BY <1>9
     DEF MarkEmbedded, SetStatus, Done, Release, ModelMeansReadable, Readable
<1>10. ASSUME NEW p \in Procs, p \in Ingesters, MarkEnriched(p)
      PROVE  ModelMeansReadable'
  BY <1>10
     DEF MarkEnriched, Goto, SetStatus, ModelMeansReadable, Readable
<1>11. ASSUME NEW p \in Procs, p \in Reembedders, ListReembed(p)
      PROVE  ModelMeansReadable'
  BY <1>11
     DEF ListReembed, Goto, Race, InHand, Reembeddable,
         ModelMeansReadable
<1>12. ASSUME NEW d0 \in Docs, Suppress(d0)
      PROVE  ModelMeansReadable'
  BY <1>12
     DEF Suppress, Event, Purge, SetStatus, Race, InHand, ModelMeansReadable
<1>13. ASSUME NEW d0 \in Docs, Unsuppress(d0)
      PROVE  ModelMeansReadable'
  BY <1>13
     DEF Unsuppress, Event, SetStatus, Restored, Race, InHand,
         ModelMeansReadable, Readable, TextBehindStatus
<1>14. CASE UNCHANGED <<status, model, raced>>
  BY <1>14
     DEF ModelMeansReadable
<1>15. ASSUME NEW p \in Procs,
             Start(p) \/ SeedRead(p) \/ SeedConflict(p) \/ SeedDeduped(p)
             \/ LookExisting(p) \/ SkipExisting(p) \/ ReplaceChunks(p) \/
             InsertVectors(p) \/ VectorsRejected(p) \/ ReplaceInsights(p)
             \/ ScriptEnds(p) \/ EmbedRaises(p) \/
             StepRaises(p) \/ Crash(p)
      PROVE  UNCHANGED <<status, model, raced>>
  BY <1>15
     DEF Start, Goto, SeedRead, SeedConflict, Done, Release, SeedDeduped,
         Retried, LookExisting, Reembeddable, SkipExisting, ReplaceChunks,
         InsertVectors, VectorsRejected, Fallout, ReplaceInsights, ScriptEnds, EmbedRaises, Event, StepRaises, Crash
<1>16. ASSUME NEW p \in Procs, NEW q0 \in Procs, OverlapChunks(p, q0)
      PROVE  UNCHANGED <<status, model, raced>>
  BY <1>16
     DEF OverlapChunks
<1>17. ASSUME NEW p \in Procs, p \in Reembedders, NEW d0 \in Docs, NextRow(p, d0)
      PROVE  UNCHANGED <<status, model, raced>>
  BY <1>17
     DEF NextRow, Goto
<1>18. ASSUME NEW ds \in SUBSET Docs, Redact(ds)
      PROVE  UNCHANGED <<status, model, raced>>
  BY <1>18
     DEF Redact, Event
<1>19. ASSUME NEW m \in Models, ChangeModel(m)
      PROVE  UNCHANGED <<status, model, raced>>
  BY <1>19
     DEF ChangeModel, Event
<1>20. CASE UNCHANGED vars
  BY <1>20, <1>14
     DEF vars
<1> HIDE DEF TypeOK, ModelMeansReadable
<1>21. QED
  BY <1>1, <1>2, <1>3, <1>4, <1>5, <1>6, <1>7, <1>8, <1>9, <1>10, <1>11, <1>12,
     <1>13, <1>14, <1>15, <1>16, <1>17, <1>18, <1>19, <1>20
     DEF Next, Step, IngestStep, EmbedStep, ScriptStep, Environment

\* What a worker seeds has no model, and gets one only at the end.
LEMMA NewInPipelineStep ==
    TypeOK /\ Kinds /\ HandsFull /\ OneHolder /\ FreshRead /\ ModelMeansReadable /\ NewInPipeline /\ [Next]_vars
        => NewInPipeline'
<1> SUFFICES ASSUME TypeOK, Kinds, HandsFull, OneHolder, FreshRead, ModelMeansReadable, NewInPipeline, [Next]_vars
             PROVE  NewInPipeline'
  OBVIOUS
<1> USE DocumentsAssumption DEF TypeOK, rowVars, partVars, handVars, procVars
<1>1. ASSUME NEW p \in Procs, Start(p)
      PROVE  NewInPipeline'
  BY <1>1
     DEF Start, Goto, NewInPipeline, HandsFull, Between, PCs
<1>2. ASSUME NEW p \in Procs, p \in Ingesters, NEW d0 \in Docs, Discover(p, d0)
      PROVE  NewInPipeline'
  BY <1>2
     DEF Discover, Goto, Race, InHand, NewInPipeline, PCs
<1>3. ASSUME NEW p \in Procs, p \in Ingesters, SeedRead(p)
      PROVE  NewInPipeline'
  BY <1>3
     DEF SeedRead, Goto, NewInPipeline
<1>4. ASSUME NEW p \in Procs, p \in Ingesters, SeedNew(p)
      PROVE  NewInPipeline'
  <2>1. doc[p] \in Docs
    BY <1>4 DEF SeedNew, Goto, HandsFull, Between, PCs
  <2>2. doc[p] \in raced \/ model[doc[p]] = NoModel
    BY <1>4, <2>1 DEF SeedNew, Goto, ModelMeansReadable, Readable
  <2>. QED
    BY <1>4, <2>1, <2>2
       DEF SeedNew, Goto, SetStatus, NewInPipeline
<1>5. ASSUME NEW p \in Procs, p \in Ingesters, SeedConflict(p)
      PROVE  NewInPipeline'
  BY <1>5
     DEF SeedConflict, Done, Release, NewInPipeline
<1>6. ASSUME NEW p \in Procs, p \in Ingesters, SeedRetry(p)
      PROVE  NewInPipeline'
  <2>1. doc[p] \in Docs
    BY <1>6 DEF SeedRetry, Goto, HandsFull, Between, PCs
  <2>2. doc[p] \in raced \/ model[doc[p]] = NoModel
    BY <1>6, <2>1 DEF SeedRetry, Goto, Retried, FreshRead, ModelMeansReadable, Readable
  <2>. QED
    BY <1>6, <2>1, <2>2
       DEF SeedRetry, Goto, SetStatus, Retried, NewInPipeline
<1>7. ASSUME NEW p \in Procs, p \in Ingesters, SeedDeduped(p)
      PROVE  NewInPipeline'
  BY <1>7
     DEF SeedDeduped, Goto, Retried, NewInPipeline
<1>8. ASSUME NEW p \in Procs, p \in Ingesters, LookExisting(p)
      PROVE  NewInPipeline'
  BY <1>8
     DEF LookExisting, Goto, Reembeddable, NewInPipeline
<1>9. ASSUME NEW p \in Procs, p \in Ingesters, SkipExisting(p)
      PROVE  NewInPipeline'
  BY <1>9
     DEF SkipExisting, Done, Release, NewInPipeline
<1>10. ASSUME NEW p \in Procs, p \in Ingesters, NEW stored \in BOOLEAN, NEW to \in {"extract", "summary"}, MarkFetched(p, stored, to)
      PROVE  NewInPipeline'
  BY <1>10
     DEF MarkFetched, Goto, SetStatus, NewInPipeline
<1>11. ASSUME NEW p \in Procs, p \in Ingesters, FallbackFetched(p)
      PROVE  NewInPipeline'
  BY <1>11
     DEF FallbackFetched, Goto, SetStatus, NewInPipeline
<1>12. ASSUME NEW p \in Procs, p \in Ingesters, MarkFailed(p)
      PROVE  NewInPipeline'
  BY <1>12
     DEF MarkFailed, SetStatus, Done, Release, NewInPipeline
<1>13. ASSUME NEW p \in Procs, p \in Ingesters, SuppressJunk(p)
      PROVE  NewInPipeline'
  BY <1>13
     DEF SuppressJunk, Purge, SetStatus, Done, Release, NewInPipeline,
         HandsFull, Between, PCs
<1>14. ASSUME NEW p \in Procs, p \in Ingesters, NEW v \in Texts, MarkExtracted(p, v)
      PROVE  NewInPipeline'
  BY <1>14
     DEF MarkExtracted, SetStatus, NewInPipeline
<1>15. ASSUME NEW p \in Procs, ReplaceChunks(p)
      PROVE  NewInPipeline'
  BY <1>15
     DEF ReplaceChunks, Goto, NewInPipeline
<1>16. ASSUME NEW p \in Procs, NEW q0 \in Procs, OverlapChunks(p, q0)
      PROVE  NewInPipeline'
  <2>1. \A q \in Procs : pc'[q] # pc[q] => pc[q] = "chunks" /\ pc'[q] = "vectors"
    BY <1>16 DEF OverlapChunks
  <2>2. UNCHANGED <<model, doc, again, raced>>
    BY <1>16 DEF OverlapChunks
  <2>. QED
    BY <2>1, <2>2 DEF NewInPipeline, Procs
<1>17. ASSUME NEW p \in Procs, InsertVectors(p)
      PROVE  NewInPipeline'
  BY <1>17
     DEF InsertVectors, Goto, NewInPipeline
<1>18. ASSUME NEW p \in Procs, VectorsRejected(p)
      PROVE  NewInPipeline'
  <2>1. pc[p] = "vectors" /\ Fallout(p)
    BY <1>18
       DEF VectorsRejected
  <2>2. UNCHANGED <<rowVars, partVars, config, mdl, snap, events, raced>>
    BY <1>18
       DEF VectorsRejected
  <2>3. CASE p \in Ingesters \ again
    <3>1. pc' = [pc EXCEPT ![p] = "fail"] /\ UNCHANGED handVars
      BY <2>1, <2>3, DocumentsAssumption
         DEF Fallout, Procs
    <3>. QED
      BY <2>1, <2>2, <2>3, <3>1
         DEF NewInPipeline
  <2>4. CASE p \notin Ingesters \ again
    <3>1. Done(p)
      BY <2>1, <2>4
         DEF Fallout
    <3>. QED
      BY <2>1, <2>2, <2>4, <3>1
         DEF Done, Release, NewInPipeline
  <2>. QED
    BY <2>3, <2>4
<1>19. ASSUME NEW p \in Procs, MarkEmbedded(p)
      PROVE  NewInPipeline'
  <2>1. doc[p] \in Docs
    BY <1>19 DEF MarkEmbedded, HandsFull, Between, PCs
  <2>2. ASSUME NEW q \in Procs, q # p
        PROVE  /\ doc'[q] = doc[q] /\ pc'[q] = pc[q] /\ (q \in again' <=> q \in again)
               /\ doc[p] \notin raced => doc[q] # doc[p]
    BY <1>19, <2>1, <2>2 DEF MarkEmbedded, Done, Release, OneHolder, InHand
  <2>3. doc'[p] = NoDoc /\ UNCHANGED raced
    BY <1>19 DEF MarkEmbedded, Done, Release
  <2>4. \A d \in Docs : d # doc[p] => model'[d] = model[d]
    BY <1>19, <2>1 DEF MarkEmbedded
  <2>. QED
    BY <2>1, <2>2, <2>3, <2>4 DEF NewInPipeline, Procs
<1>20. ASSUME NEW p \in Procs, p \in Ingesters, MarkEnriched(p)
      PROVE  NewInPipeline'
  BY <1>20
     DEF MarkEnriched, Goto, SetStatus, NewInPipeline
<1>21. ASSUME NEW p \in Procs, p \in Ingesters, ReplaceInsights(p)
      PROVE  NewInPipeline'
  BY <1>21
     DEF ReplaceInsights, Goto, NewInPipeline
<1>22. ASSUME NEW p \in Procs, p \in Reembedders, NEW d0 \in Docs, NextRow(p, d0)
      PROVE  NewInPipeline'
  BY <1>22
     DEF NextRow, Goto, NewInPipeline
<1>23. ASSUME NEW p \in Procs, p \in Reembedders, ScriptEnds(p)
      PROVE  NewInPipeline'
  BY <1>23
     DEF ScriptEnds, Goto, NewInPipeline
<1>24. ASSUME NEW p \in Procs, p \in Reembedders, ListReembed(p)
      PROVE  NewInPipeline'
  BY <1>24
     DEF ListReembed, Goto, Race, InHand, Reembeddable, NewInPipeline
<1>25. ASSUME NEW p \in Procs, EmbedRaises(p)
      PROVE  NewInPipeline'
  <2>1. /\ pc[p] \in {"chunks", "vectors", "mark"}
        /\ Fallout(p)
        /\ events' = events + 1
    BY <1>25
       DEF EmbedRaises, Event
  <2>2. UNCHANGED <<rowVars, partVars, config, mdl, snap, raced>>
    BY <1>25
       DEF EmbedRaises
  <2>3. CASE p \in Ingesters \ again
    <3>1. pc' = [pc EXCEPT ![p] = "fail"] /\ UNCHANGED handVars
      BY <2>1, <2>3, DocumentsAssumption
         DEF Fallout, Procs
    <3>. QED
      BY <2>1, <2>2, <2>3, <3>1
         DEF NewInPipeline
  <2>4. CASE p \notin Ingesters \ again
    <3>1. Done(p)
      BY <2>1, <2>4
         DEF Fallout
    <3>. QED
      BY <2>1, <2>2, <2>4, <3>1
         DEF Done, Release, NewInPipeline
  <2>. QED
    BY <2>3, <2>4
<1>26. ASSUME NEW p \in Procs, StepRaises(p)
      PROVE  NewInPipeline'
  BY <1>26
     DEF StepRaises, Event, Done, Release, NewInPipeline
<1>27. ASSUME NEW p \in Procs, Crash(p)
      PROVE  NewInPipeline'
  BY <1>27
     DEF Crash, Event, Release, NewInPipeline
<1>28. ASSUME NEW d0 \in Docs, Suppress(d0)
      PROVE  NewInPipeline'
  BY <1>28
     DEF Suppress, Event, Purge, SetStatus, Race, InHand, NewInPipeline
<1>29. ASSUME NEW d0 \in Docs, Unsuppress(d0)
      PROVE  NewInPipeline'
  BY <1>29
     DEF Unsuppress, Event, SetStatus, Restored, Race, InHand, NewInPipeline
<1>30. CASE UNCHANGED <<model, pc, doc, again, raced>>
  BY <1>30
     DEF NewInPipeline
<1>31. ASSUME NEW ds \in SUBSET Docs, Redact(ds)
      PROVE  UNCHANGED <<model, pc, doc, again, raced>>
  BY <1>31
     DEF Redact, Event
<1>32. ASSUME NEW m \in Models, ChangeModel(m)
      PROVE  UNCHANGED <<model, pc, doc, again, raced>>
  BY <1>32
     DEF ChangeModel, Event
<1>33. CASE UNCHANGED vars
  BY <1>33, <1>30
     DEF vars
<1> HIDE DEF TypeOK, NewInPipeline
<1>34. QED
  BY <1>1, <1>2, <1>3, <1>4, <1>5, <1>6, <1>7, <1>8, <1>9, <1>10, <1>11, <1>12,
     <1>13, <1>14, <1>15, <1>16, <1>17, <1>18, <1>19, <1>20, <1>21, <1>22,
     <1>23, <1>24, <1>25, <1>26, <1>27, <1>28, <1>29, <1>30, <1>31, <1>32, <1>33
     DEF Next, Step, IngestStep, EmbedStep, ScriptStep, Environment

\* With orderly changes, no document has a newer model than the active one.
LEMMA ModelsOrderedStep ==
    TypeOK /\ ModelsOrdered /\ [Next]_vars
        => ModelsOrdered'
<1> SUFFICES ASSUME TypeOK, ModelsOrdered, [Next]_vars
             PROVE  ModelsOrdered'
  OBVIOUS
<1> USE DocumentsAssumption DEF TypeOK, rowVars, partVars, handVars, procVars
<1>1. ASSUME NEW p \in Procs, Start(p)
      PROVE  ModelsOrdered'
  BY <1>1
     DEF Start, Goto, ModelsOrdered, Models, NoModel
<1>2. ASSUME NEW p \in Procs, p \in Ingesters, NEW d0 \in Docs, Discover(p, d0)
      PROVE  ModelsOrdered'
  BY <1>2
     DEF Discover, Goto, Race, InHand, ModelsOrdered, Models, NoModel
<1>3. ASSUME NEW p \in Procs, p \in Ingesters, SeedRead(p)
      PROVE  ModelsOrdered'
  BY <1>3
     DEF SeedRead, Goto, ModelsOrdered, Models, NoModel
<1>4. ASSUME NEW p \in Procs, p \in Ingesters, SeedNew(p)
      PROVE  ModelsOrdered'
  BY <1>4
     DEF SeedNew, Goto, SetStatus, ModelsOrdered, Models, NoModel
<1>5. ASSUME NEW p \in Procs, p \in Ingesters, SeedConflict(p)
      PROVE  ModelsOrdered'
  BY <1>5
     DEF SeedConflict, Done, Release, ModelsOrdered, Models, NoModel
<1>6. ASSUME NEW p \in Procs, p \in Ingesters, SeedRetry(p)
      PROVE  ModelsOrdered'
  BY <1>6
     DEF SeedRetry, Goto, SetStatus, Retried, ModelsOrdered, Models, NoModel
<1>7. ASSUME NEW p \in Procs, p \in Ingesters, SeedDeduped(p)
      PROVE  ModelsOrdered'
  BY <1>7
     DEF SeedDeduped, Goto, Retried, ModelsOrdered, Models, NoModel
<1>8. ASSUME NEW p \in Procs, p \in Ingesters, LookExisting(p)
      PROVE  ModelsOrdered'
  BY <1>8
     DEF LookExisting, Goto, Reembeddable, ModelsOrdered, Models, NoModel
<1>9. ASSUME NEW p \in Procs, p \in Ingesters, SkipExisting(p)
      PROVE  ModelsOrdered'
  BY <1>9
     DEF SkipExisting, Done, Release, ModelsOrdered, Models, NoModel
<1>10. ASSUME NEW p \in Procs, p \in Ingesters, NEW stored \in BOOLEAN, NEW to \in {"extract", "summary"}, MarkFetched(p, stored, to)
      PROVE  ModelsOrdered'
  BY <1>10
     DEF MarkFetched, Goto, SetStatus, ModelsOrdered, Models, NoModel
<1>11. ASSUME NEW p \in Procs, p \in Ingesters, FallbackFetched(p)
      PROVE  ModelsOrdered'
  BY <1>11
     DEF FallbackFetched, Goto, SetStatus, ModelsOrdered, Models, NoModel
<1>12. ASSUME NEW p \in Procs, p \in Ingesters, MarkFailed(p)
      PROVE  ModelsOrdered'
  BY <1>12
     DEF MarkFailed, SetStatus, Done, Release, ModelsOrdered, Models, NoModel
<1>13. ASSUME NEW p \in Procs, p \in Ingesters, SuppressJunk(p)
      PROVE  ModelsOrdered'
  BY <1>13
     DEF SuppressJunk, Purge, SetStatus, Done, Release, ModelsOrdered, Models,
         NoModel
<1>14. ASSUME NEW p \in Procs, p \in Ingesters, NEW v \in Texts, MarkExtracted(p, v)
      PROVE  ModelsOrdered'
  BY <1>14
     DEF MarkExtracted, SetStatus, ModelsOrdered, Models, NoModel
<1>15. ASSUME NEW p \in Procs, ReplaceChunks(p)
      PROVE  ModelsOrdered'
  BY <1>15
     DEF ReplaceChunks, Goto, ModelsOrdered, Models, NoModel
<1>16. ASSUME NEW p \in Procs, NEW q0 \in Procs, OverlapChunks(p, q0)
      PROVE  ModelsOrdered'
  BY <1>16
     DEF OverlapChunks, ModelsOrdered, Models, NoModel
<1>17. ASSUME NEW p \in Procs, InsertVectors(p)
      PROVE  ModelsOrdered'
  BY <1>17
     DEF InsertVectors, Goto, ModelsOrdered, Models, NoModel
<1>18. ASSUME NEW p \in Procs, VectorsRejected(p)
      PROVE  ModelsOrdered'
  <2>1. pc[p] = "vectors" /\ Fallout(p)
    BY <1>18
       DEF VectorsRejected
  <2>2. UNCHANGED <<rowVars, partVars, config, mdl, snap, events, raced>>
    BY <1>18
       DEF VectorsRejected
  <2>3. CASE p \in Ingesters \ again
    <3>1. pc' = [pc EXCEPT ![p] = "fail"] /\ UNCHANGED handVars
      BY <2>1, <2>3, DocumentsAssumption
         DEF Fallout, Procs
    <3>. QED
      BY <2>1, <2>2, <2>3, <3>1
         DEF ModelsOrdered, Models, NoModel
  <2>4. CASE p \notin Ingesters \ again
    <3>1. Done(p)
      BY <2>1, <2>4
         DEF Fallout
    <3>. QED
      BY <2>1, <2>2, <2>4, <3>1
         DEF Done, Release, ModelsOrdered, Models, NoModel
  <2>. QED
    BY <2>3, <2>4
<1>19. ASSUME NEW p \in Procs, MarkEmbedded(p)
      PROVE  ModelsOrdered'
  BY <1>19
     DEF MarkEmbedded, SetStatus, Done, Release, ModelsOrdered, Models, NoModel
<1>20. ASSUME NEW p \in Procs, p \in Ingesters, MarkEnriched(p)
      PROVE  ModelsOrdered'
  BY <1>20
     DEF MarkEnriched, Goto, SetStatus, ModelsOrdered, Models, NoModel
<1>21. ASSUME NEW p \in Procs, p \in Ingesters, ReplaceInsights(p)
      PROVE  ModelsOrdered'
  BY <1>21
     DEF ReplaceInsights, Goto, ModelsOrdered, Models, NoModel
<1>22. ASSUME NEW p \in Procs, p \in Reembedders, NEW d0 \in Docs, NextRow(p, d0)
      PROVE  ModelsOrdered'
  BY <1>22
     DEF NextRow, Goto, ModelsOrdered, Models, NoModel
<1>23. ASSUME NEW p \in Procs, p \in Reembedders, ScriptEnds(p)
      PROVE  ModelsOrdered'
  BY <1>23
     DEF ScriptEnds, Goto, ModelsOrdered, Models, NoModel
<1>24. ASSUME NEW p \in Procs, p \in Reembedders, ListReembed(p)
      PROVE  ModelsOrdered'
  BY <1>24
     DEF ListReembed, Goto, Race, InHand, Reembeddable, ModelsOrdered,
         Models, NoModel
<1>25. ASSUME NEW p \in Procs, EmbedRaises(p)
      PROVE  ModelsOrdered'
  <2>1. /\ pc[p] \in {"chunks", "vectors", "mark"}
        /\ Fallout(p)
        /\ events' = events + 1
    BY <1>25
       DEF EmbedRaises, Event
  <2>2. UNCHANGED <<rowVars, partVars, config, mdl, snap, raced>>
    BY <1>25
       DEF EmbedRaises
  <2>3. CASE p \in Ingesters \ again
    <3>1. pc' = [pc EXCEPT ![p] = "fail"] /\ UNCHANGED handVars
      BY <2>1, <2>3, DocumentsAssumption
         DEF Fallout, Procs
    <3>. QED
      BY <2>1, <2>2, <2>3, <3>1
         DEF ModelsOrdered, Models, NoModel
  <2>4. CASE p \notin Ingesters \ again
    <3>1. Done(p)
      BY <2>1, <2>4
         DEF Fallout
    <3>. QED
      BY <2>1, <2>2, <2>4, <3>1
         DEF Done, Release, ModelsOrdered, Models, NoModel
  <2>. QED
    BY <2>3, <2>4
<1>26. ASSUME NEW p \in Procs, StepRaises(p)
      PROVE  ModelsOrdered'
  BY <1>26
     DEF StepRaises, Event, Done, Release, ModelsOrdered, Models, NoModel
<1>27. ASSUME NEW p \in Procs, Crash(p)
      PROVE  ModelsOrdered'
  BY <1>27
     DEF Crash, Event, Release, ModelsOrdered, Models, NoModel
<1>28. ASSUME NEW d0 \in Docs, Suppress(d0)
      PROVE  ModelsOrdered'
  BY <1>28
     DEF Suppress, Event, Purge, SetStatus, Race, InHand, ModelsOrdered, Models,
         NoModel
<1>29. ASSUME NEW m \in Models, ChangeModel(m)
      PROVE  ModelsOrdered'
  BY <1>29
     DEF ChangeModel, Event, ModelsOrdered, Models, NoModel
<1>30. CASE UNCHANGED <<model, config, mdl, pc>>
  BY <1>30
     DEF ModelsOrdered, Models, NoModel
<1>31. ASSUME NEW d0 \in Docs, Unsuppress(d0)
      PROVE  UNCHANGED <<model, config, mdl, pc>>
  BY <1>31
     DEF Unsuppress, Event, SetStatus, Restored, Race, InHand
<1>32. ASSUME NEW ds \in SUBSET Docs, Redact(ds)
      PROVE  UNCHANGED <<model, config, mdl, pc>>
  BY <1>32
     DEF Redact, Event
<1>33. CASE UNCHANGED vars
  BY <1>33, <1>30
     DEF vars
<1> HIDE DEF TypeOK, ModelsOrdered, Models
<1>34. QED
  BY <1>1, <1>2, <1>3, <1>4, <1>5, <1>6, <1>7, <1>8, <1>9, <1>10, <1>11, <1>12,
     <1>13, <1>14, <1>15, <1>16, <1>17, <1>18, <1>19, <1>20, <1>21, <1>22,
     <1>23, <1>24, <1>25, <1>26, <1>27, <1>28, <1>29, <1>30, <1>31, <1>32, <1>33
     DEF Next, Step, IngestStep, EmbedStep, ScriptStep, Environment

\* Chunks of an unraced document are replaced only while it lacks the active
\* model, and nobody else touches them until it has it.
LEMMA LacksModelStep ==
    TypeOK /\ Kinds /\ HandsFull /\ OneHolder /\ FreshText /\ NewInPipeline /\ ModelsOrdered /\ ModelMeansVectors /\ LacksModel /\ [Next]_vars
        => LacksModel'
<1> SUFFICES ASSUME TypeOK, Kinds, HandsFull, OneHolder, FreshText, NewInPipeline, ModelsOrdered, ModelMeansVectors, LacksModel, [Next]_vars
             PROVE  LacksModel'
  OBVIOUS
<1> USE DocumentsAssumption DEF TypeOK, rowVars, partVars, handVars, procVars
<1>1. ASSUME NEW p \in Procs, Start(p)
      PROVE  LacksModel'
  BY <1>1
     DEF Start, Goto, LacksModel
<1>2. ASSUME NEW p \in Procs, p \in Ingesters, NEW d0 \in Docs, Discover(p, d0)
      PROVE  LacksModel'
  BY <1>2
     DEF Discover, Goto, Race, InHand, LacksModel, Kinds
<1>3. ASSUME NEW p \in Procs, p \in Ingesters, SeedRead(p)
      PROVE  LacksModel'
  BY <1>3
     DEF SeedRead, Goto, LacksModel
<1>4. ASSUME NEW p \in Procs, p \in Ingesters, SeedNew(p)
      PROVE  LacksModel'
  BY <1>4
     DEF SeedNew, Goto, SetStatus, LacksModel
<1>5. ASSUME NEW p \in Procs, p \in Ingesters, SeedConflict(p)
      PROVE  LacksModel'
  BY <1>5
     DEF SeedConflict, Done, Release, LacksModel
<1>6. ASSUME NEW p \in Procs, p \in Ingesters, SeedRetry(p)
      PROVE  LacksModel'
  BY <1>6
     DEF SeedRetry, Goto, SetStatus, Retried, LacksModel
<1>7. ASSUME NEW p \in Procs, p \in Ingesters, SeedDeduped(p)
      PROVE  LacksModel'
  BY <1>7
     DEF SeedDeduped, Goto, Retried, LacksModel
<1>8. ASSUME NEW p \in Procs, p \in Ingesters, LookExisting(p)
      PROVE  LacksModel'
  BY <1>8
     DEF LookExisting, Goto, Reembeddable, LacksModel, Reembeddable,
         ModelsOrdered
<1>9. ASSUME NEW p \in Procs, p \in Ingesters, SkipExisting(p)
      PROVE  LacksModel'
  BY <1>9
     DEF SkipExisting, Done, Release, LacksModel
<1>10. ASSUME NEW p \in Procs, p \in Ingesters, NEW stored \in BOOLEAN, NEW to \in {"extract", "summary"}, MarkFetched(p, stored, to)
      PROVE  LacksModel'
  BY <1>10
     DEF MarkFetched, Goto, SetStatus, LacksModel
<1>11. ASSUME NEW p \in Procs, p \in Ingesters, FallbackFetched(p)
      PROVE  LacksModel'
  BY <1>11
     DEF FallbackFetched, Goto, SetStatus, LacksModel
<1>12. ASSUME NEW p \in Procs, p \in Ingesters, MarkFailed(p)
      PROVE  LacksModel'
  BY <1>12
     DEF MarkFailed, SetStatus, Done, Release, LacksModel
<1>13. ASSUME NEW p \in Procs, p \in Ingesters, SuppressJunk(p)
      PROVE  LacksModel'
  BY <1>13
     DEF SuppressJunk, Purge, SetStatus, Done, Release, LacksModel, OneHolder,
         InHand, HandsFull, Between, PCs
<1>14. ASSUME NEW p \in Procs, p \in Ingesters, NEW v \in Texts, MarkExtracted(p, v)
      PROVE  LacksModel'
  BY <1>14
     DEF MarkExtracted, SetStatus, LacksModel, OneHolder, InHand, HandsFull,
         Between, PCs
<1>15. ASSUME NEW p \in Procs, ReplaceChunks(p)
      PROVE  LacksModel'
  <2>1. doc[p] \in Docs
    BY <1>15 DEF ReplaceChunks, Goto, HandsFull, Between, PCs
  <2>2. ASSUME NEW q \in Procs, q # p
        PROVE  /\ doc'[q] = doc[q] /\ pc'[q] = pc[q]
               /\ doc[p] \notin raced => doc[q] # doc[p]
    BY <1>15, <2>1, <2>2 DEF ReplaceChunks, Goto, OneHolder, InHand
  <2>3. doc[p] \notin raced => chunks'[doc[p]] = {text[doc[p]]}
    BY <1>15, <2>1 DEF ReplaceChunks, Goto, FreshText
  <2>4. \A d \in Docs : d # doc[p] => UNCHANGED <<chunks[d], vectors[d]>>
    BY <1>15, <2>1 DEF ReplaceChunks
  <2>5. UNCHANGED <<snap, config, raced, doc, text, model>>
    BY <1>15 DEF ReplaceChunks
  <2>6. pc'[p] = "vectors" /\ pc[p] = "chunks"
    BY <1>15 DEF ReplaceChunks, Goto
  <2>. QED
    BY <2>1, <2>2, <2>3, <2>4, <2>5, <2>6 DEF LacksModel
<1>16. ASSUME NEW p \in Procs, NEW q0 \in Procs, OverlapChunks(p, q0)
      PROVE  LacksModel'
  BY <1>16
     DEF OverlapChunks, LacksModel, OneHolder, InHand, HandsFull, Between, PCs
<1>17. ASSUME NEW p \in Procs, InsertVectors(p)
      PROVE  LacksModel'
  <2>1. doc[p] \in Docs
    BY <1>17 DEF InsertVectors, Goto, HandsFull, Between, PCs
  <2>2. ASSUME NEW q \in Procs, q # p
        PROVE  /\ doc'[q] = doc[q] /\ pc'[q] = pc[q]
               /\ doc[p] \notin raced => doc[q] # doc[p]
    BY <1>17, <2>1, <2>2 DEF InsertVectors, Goto, OneHolder, InHand
  <2>3. Orderly => chunks'[doc[p]] = chunks[doc[p]] /\ config \in vectors'[doc[p]]
    BY <1>17, <2>1 DEF InsertVectors, Goto, ModelsOrdered
  <2>4. \A d \in Docs : d # doc[p] => UNCHANGED <<chunks[d], vectors[d]>>
    BY <1>17, <2>1 DEF InsertVectors
  <2>5. UNCHANGED <<snap, config, raced, doc, text, model>>
    BY <1>17 DEF InsertVectors
  <2>6. pc'[p] = "mark" /\ pc[p] = "vectors"
    BY <1>17 DEF InsertVectors, Goto
  <2>. QED
    BY <2>1, <2>2, <2>3, <2>4, <2>5, <2>6 DEF LacksModel
<1>18. ASSUME NEW p \in Procs, VectorsRejected(p)
      PROVE  LacksModel'
  <2>1. pc[p] = "vectors" /\ Fallout(p)
    BY <1>18
       DEF VectorsRejected
  <2>2. UNCHANGED <<rowVars, partVars, config, mdl, snap, events, raced>>
    BY <1>18
       DEF VectorsRejected
  <2>3. CASE p \in Ingesters \ again
    <3>1. pc' = [pc EXCEPT ![p] = "fail"] /\ UNCHANGED handVars
      BY <2>1, <2>3, DocumentsAssumption
         DEF Fallout, Procs
    <3>. QED
      BY <2>1, <2>2, <2>3, <3>1
         DEF LacksModel
  <2>4. CASE p \notin Ingesters \ again
    <3>1. Done(p)
      BY <2>1, <2>4
         DEF Fallout
    <3>. QED
      BY <2>1, <2>2, <2>4, <3>1
         DEF Done, Release, LacksModel
  <2>. QED
    BY <2>3, <2>4
<1>19. ASSUME NEW p \in Procs, MarkEmbedded(p)
      PROVE  LacksModel'
  BY <1>19
     DEF MarkEmbedded, SetStatus, Done, Release, LacksModel, OneHolder, InHand,
         HandsFull, Between, PCs
<1>20. ASSUME NEW p \in Procs, p \in Ingesters, MarkEnriched(p)
      PROVE  LacksModel'
  BY <1>20
     DEF MarkEnriched, Goto, SetStatus, LacksModel
<1>21. ASSUME NEW p \in Procs, p \in Ingesters, ReplaceInsights(p)
      PROVE  LacksModel'
  BY <1>21
     DEF ReplaceInsights, Goto, LacksModel, NewInPipeline, Kinds, Models,
         NoModel
<1>22. ASSUME NEW p \in Procs, p \in Reembedders, NEW d0 \in Docs, NextRow(p, d0)
      PROVE  LacksModel'
  BY <1>22
     DEF NextRow, Goto, LacksModel
<1>23. ASSUME NEW p \in Procs, p \in Reembedders, ScriptEnds(p)
      PROVE  LacksModel'
  BY <1>23
     DEF ScriptEnds, Goto, LacksModel
<1>24. ASSUME NEW p \in Procs, p \in Reembedders, ListReembed(p)
      PROVE  LacksModel'
  BY <1>24
     DEF ListReembed, Goto, Race, InHand, Reembeddable, LacksModel,
         ModelsOrdered
<1>25. ASSUME NEW p \in Procs, EmbedRaises(p)
      PROVE  LacksModel'
  <2>1. /\ pc[p] \in {"chunks", "vectors", "mark"}
        /\ Fallout(p)
        /\ events' = events + 1
    BY <1>25
       DEF EmbedRaises, Event
  <2>2. UNCHANGED <<rowVars, partVars, config, mdl, snap, raced>>
    BY <1>25
       DEF EmbedRaises
  <2>3. CASE p \in Ingesters \ again
    <3>1. pc' = [pc EXCEPT ![p] = "fail"] /\ UNCHANGED handVars
      BY <2>1, <2>3, DocumentsAssumption
         DEF Fallout, Procs
    <3>. QED
      BY <2>1, <2>2, <2>3, <3>1
         DEF LacksModel
  <2>4. CASE p \notin Ingesters \ again
    <3>1. Done(p)
      BY <2>1, <2>4
         DEF Fallout
    <3>. QED
      BY <2>1, <2>2, <2>4, <3>1
         DEF Done, Release, LacksModel
  <2>. QED
    BY <2>3, <2>4
<1>26. ASSUME NEW p \in Procs, StepRaises(p)
      PROVE  LacksModel'
  BY <1>26
     DEF StepRaises, Event, Done, Release, LacksModel
<1>27. ASSUME NEW p \in Procs, Crash(p)
      PROVE  LacksModel'
  BY <1>27
     DEF Crash, Event, Release, LacksModel
<1>28. ASSUME NEW d0 \in Docs, Suppress(d0)
      PROVE  LacksModel'
  BY <1>28
     DEF Suppress, Event, Purge, SetStatus, Race, InHand, LacksModel, OneHolder,
         InHand, HandsFull, Between, PCs
<1>29. ASSUME NEW d0 \in Docs, Unsuppress(d0)
      PROVE  LacksModel'
  BY <1>29
     DEF Unsuppress, Event, SetStatus, Restored, Race, InHand, LacksModel
<1>30. ASSUME NEW m \in Models, ChangeModel(m)
      PROVE  LacksModel'
  BY <1>30
     DEF ChangeModel, Event, LacksModel, HandsFull, Between, PCs
<1>31. CASE UNCHANGED <<text, model, chunks, vectors, config, pc, doc, snap, raced>>
  BY <1>31
     DEF LacksModel
<1>32. ASSUME NEW ds \in SUBSET Docs, Redact(ds)
      PROVE  UNCHANGED <<text, model, chunks, vectors, config, pc, doc, snap, raced>>
  BY <1>32
     DEF Redact, Event
<1>33. CASE UNCHANGED vars
  BY <1>33, <1>31
     DEF vars
<1> HIDE DEF TypeOK, LacksModel
<1>34. QED
  BY <1>1, <1>2, <1>3, <1>4, <1>5, <1>6, <1>7, <1>8, <1>9, <1>10, <1>11, <1>12,
     <1>13, <1>14, <1>15, <1>16, <1>17, <1>18, <1>19, <1>20, <1>21, <1>22,
     <1>23, <1>24, <1>25, <1>26, <1>27, <1>28, <1>29, <1>30, <1>31, <1>32, <1>33
     DEF Next, Step, IngestStep, EmbedStep, ScriptStep, Environment

\* Who changes the chunks or the text of an unraced document found that it
\* lacks the active model.
LEMMA ModelMeansVectorsStep ==
    TypeOK /\ Kinds /\ HandsFull /\ NewInPipeline /\ FreshText /\ ModelsOrdered /\ LacksModel /\ ModelMeansVectors /\ [Next]_vars
        => ModelMeansVectors'
<1> SUFFICES ASSUME TypeOK, Kinds, HandsFull, NewInPipeline, FreshText, ModelsOrdered, LacksModel, ModelMeansVectors, [Next]_vars
             PROVE  ModelMeansVectors'
  OBVIOUS
<1> USE DocumentsAssumption DEF TypeOK, rowVars, partVars, handVars, procVars
<1>1. ASSUME NEW p \in Procs, p \in Ingesters, NEW d0 \in Docs, Discover(p, d0)
      PROVE  ModelMeansVectors'
  BY <1>1
     DEF Discover, Goto, Race, InHand, ModelMeansVectors
<1>2. ASSUME NEW p \in Procs, p \in Ingesters, SuppressJunk(p)
      PROVE  ModelMeansVectors'
  BY <1>2
     DEF SuppressJunk, Purge, SetStatus, Done, Release, ModelMeansVectors,
         Models, NoModel
<1>3. ASSUME NEW p \in Procs, p \in Ingesters, NEW v \in Texts, MarkExtracted(p, v)
      PROVE  ModelMeansVectors'
  <2>1. doc[p] \in Docs
    BY <1>3 DEF MarkExtracted, HandsFull, Between, PCs
  <2>2. doc[p] \in raced \/ model[doc[p]] = NoModel
    BY <1>3, <2>1 DEF MarkExtracted, NewInPipeline, Kinds
  <2>3. NoModel # config
    BY DEF NoModel, Models
  <2>4. \A d \in Docs : d # doc[p] => text'[d] = text[d]
    BY <1>3, <2>1 DEF MarkExtracted
  <2>5. UNCHANGED <<model, chunks, vectors, config, raced>>
    BY <1>3 DEF MarkExtracted
  <2>. QED
    BY <2>2, <2>3, <2>4, <2>5 DEF ModelMeansVectors
<1>4. ASSUME NEW p \in Procs, ReplaceChunks(p)
      PROVE  ModelMeansVectors'
  BY <1>4
     DEF ReplaceChunks, Goto, ModelMeansVectors, LacksModel, HandsFull, Between,
         PCs
<1>5. ASSUME NEW p \in Procs, NEW q0 \in Procs, OverlapChunks(p, q0)
      PROVE  ModelMeansVectors'
  BY <1>5
     DEF OverlapChunks, ModelMeansVectors, LacksModel, HandsFull, Between, PCs
<1>6. ASSUME NEW p \in Procs, InsertVectors(p)
      PROVE  ModelMeansVectors'
  BY <1>6
     DEF InsertVectors, Goto, ModelMeansVectors, LacksModel, HandsFull, Between,
         PCs
<1>7. ASSUME NEW p \in Procs, MarkEmbedded(p)
      PROVE  ModelMeansVectors'
  BY <1>7
     DEF MarkEmbedded, SetStatus, Done, Release, ModelMeansVectors, LacksModel,
         HandsFull, Between, PCs
<1>8. ASSUME NEW p \in Procs, p \in Reembedders, ListReembed(p)
      PROVE  ModelMeansVectors'
  BY <1>8
     DEF ListReembed, Goto, Race, InHand, Reembeddable,
         ModelMeansVectors
<1>9. ASSUME NEW d0 \in Docs, Suppress(d0)
      PROVE  ModelMeansVectors'
  BY <1>9
     DEF Suppress, Event, Purge, SetStatus, Race, InHand, ModelMeansVectors,
         Models, NoModel
<1>10. ASSUME NEW d0 \in Docs, Unsuppress(d0)
      PROVE  ModelMeansVectors'
  BY <1>10
     DEF Unsuppress, Event, SetStatus, Restored, Race, InHand, ModelMeansVectors
<1>11. ASSUME NEW m \in Models, ChangeModel(m)
      PROVE  ModelMeansVectors'
  <2>1. Orderly => \A d \in Docs : model[d] # m
    BY <1>11 DEF ChangeModel, ModelsOrdered, Models, NoModel
  <2>. QED
    BY <1>11, <2>1 DEF ChangeModel, ModelMeansVectors
<1>12. CASE UNCHANGED <<text, model, chunks, vectors, config, raced>>
  BY <1>12
     DEF ModelMeansVectors
<1>13. ASSUME NEW p \in Procs,
             Start(p) \/ SeedRead(p) \/ SeedNew(p) \/ SeedConflict(p) \/
             SeedRetry(p) \/ SeedDeduped(p) \/ LookExisting(p) \/
             SkipExisting(p) \/ FallbackFetched(p) \/ MarkFailed(p) \/
             VectorsRejected(p) \/ MarkEnriched(p) \/ ReplaceInsights(p)
             \/ ScriptEnds(p) \/ EmbedRaises(p) \/ StepRaises(p) \/
             Crash(p)
      PROVE  UNCHANGED <<text, model, chunks, vectors, config, raced>>
  BY <1>13
     DEF Start, Goto, SeedRead, SeedNew, SetStatus, SeedConflict, Done, Release,
         SeedRetry, Retried, SeedDeduped, LookExisting, Reembeddable,
         SkipExisting, FallbackFetched, MarkFailed, VectorsRejected, Fallout,
         MarkEnriched, ReplaceInsights, ScriptEnds, EmbedRaises, Event,
         StepRaises, Crash
<1>14. ASSUME NEW p \in Procs, p \in Ingesters, NEW stored \in BOOLEAN, NEW to \in {"extract", "summary"}, MarkFetched(p, stored, to)
      PROVE  UNCHANGED <<text, model, chunks, vectors, config, raced>>
  BY <1>14
     DEF MarkFetched, Goto, SetStatus
<1>15. ASSUME NEW p \in Procs, p \in Reembedders, NEW d0 \in Docs, NextRow(p, d0)
      PROVE  UNCHANGED <<text, model, chunks, vectors, config, raced>>
  BY <1>15
     DEF NextRow, Goto
<1>16. ASSUME NEW ds \in SUBSET Docs, Redact(ds)
      PROVE  UNCHANGED <<text, model, chunks, vectors, config, raced>>
  BY <1>16
     DEF Redact, Event
<1>17. CASE UNCHANGED vars
  BY <1>17, <1>12
     DEF vars
<1> HIDE DEF TypeOK, ModelMeansVectors
<1>18. QED
  BY <1>1, <1>2, <1>3, <1>4, <1>5, <1>6, <1>7, <1>8, <1>9, <1>10, <1>11, <1>12,
     <1>13, <1>14, <1>15, <1>16, <1>17
     DEF Next, Step, IngestStep, EmbedStep, ScriptStep, Environment

\* A step that takes a document out of the readable statuses finds it without a
\* model, or suppresses it.
LEMMA KeepsReadableStep ==
    TypeOK /\ Kinds /\ HandsFull /\ FreshRead /\ TextBehindStatus /\ ModelMeansReadable /\ NewInPipeline /\ [Next]_vars
        => KeepsReadable
<1> SUFFICES ASSUME TypeOK, Kinds, HandsFull, FreshRead, TextBehindStatus, ModelMeansReadable, NewInPipeline, [Next]_vars
             PROVE  KeepsReadable
  OBVIOUS
<1> USE DocumentsAssumption DEF TypeOK, rowVars, partVars, handVars, procVars
<1>1. ASSUME NEW p \in Procs, p \in Ingesters, NEW d0 \in Docs, Discover(p, d0)
      PROVE  KeepsReadable
  BY <1>1
     DEF Discover, Goto, Race, InHand, KeepsReadable, Readable
<1>2. ASSUME NEW p \in Procs, p \in Ingesters, SeedNew(p)
      PROVE  KeepsReadable
  <2>1. doc[p] \in Docs
    BY <1>2 DEF SeedNew, Goto, HandsFull, Between, PCs
  <2>2. doc[p] \in raced \/ model[doc[p]] = NoModel
    BY <1>2, <2>1 DEF SeedNew, Goto, ModelMeansReadable, Readable
  <2>. QED
    BY <1>2, <2>1, <2>2
       DEF SeedNew, Goto, SetStatus, KeepsReadable, Readable
<1>3. ASSUME NEW p \in Procs, p \in Ingesters, SeedRetry(p)
      PROVE  KeepsReadable
  <2>1. doc[p] \in Docs
    BY <1>3 DEF SeedRetry, Goto, HandsFull, Between, PCs
  <2>2. doc[p] \in raced \/ model[doc[p]] = NoModel
    BY <1>3, <2>1 DEF SeedRetry, Goto, Retried, FreshRead, ModelMeansReadable, Readable
  <2>. QED
    BY <1>3, <2>1, <2>2
       DEF SeedRetry, Goto, SetStatus, Retried, KeepsReadable, Readable
<1>4. ASSUME NEW p \in Procs, p \in Ingesters, NEW stored \in BOOLEAN, NEW to \in {"extract", "summary"}, MarkFetched(p, stored, to)
      PROVE  KeepsReadable
  <2>1. doc[p] \in Docs
    BY <1>4 DEF MarkFetched, Goto, HandsFull, Between, PCs
  <2>2. doc[p] \in raced \/ model[doc[p]] = NoModel
    BY <1>4, <2>1 DEF MarkFetched, Goto, NewInPipeline, Kinds
  <2>. QED
    BY <1>4, <2>1, <2>2
       DEF MarkFetched, Goto, SetStatus, KeepsReadable, Readable
<1>5. ASSUME NEW p \in Procs, p \in Ingesters, FallbackFetched(p)
      PROVE  KeepsReadable
  <2>1. doc[p] \in Docs
    BY <1>5 DEF FallbackFetched, Goto, HandsFull, Between, PCs
  <2>2. doc[p] \in raced \/ model[doc[p]] = NoModel
    BY <1>5, <2>1 DEF FallbackFetched, Goto, NewInPipeline, Kinds
  <2>. QED
    BY <1>5, <2>1, <2>2
       DEF FallbackFetched, Goto, SetStatus, KeepsReadable, Readable
<1>6. ASSUME NEW p \in Procs, p \in Ingesters, MarkFailed(p)
      PROVE  KeepsReadable
  <2>1. doc[p] \in Docs
    BY <1>6 DEF MarkFailed, HandsFull, Between, PCs
  <2>2. doc[p] \in raced \/ model[doc[p]] = NoModel
    BY <1>6, <2>1 DEF MarkFailed, NewInPipeline, Kinds
  <2>. QED
    BY <1>6, <2>1, <2>2
       DEF MarkFailed, SetStatus, Done, Release, KeepsReadable, Readable
<1>7. ASSUME NEW p \in Procs, p \in Ingesters, SuppressJunk(p)
      PROVE  KeepsReadable
  BY <1>7
     DEF SuppressJunk, Purge, SetStatus, Done, Release, KeepsReadable, Readable
<1>8. ASSUME NEW p \in Procs, p \in Ingesters, NEW v \in Texts, MarkExtracted(p, v)
      PROVE  KeepsReadable
  BY <1>8
     DEF MarkExtracted, SetStatus, KeepsReadable, Readable
<1>9. ASSUME NEW p \in Procs, MarkEmbedded(p)
      PROVE  KeepsReadable
  BY <1>9
     DEF MarkEmbedded, SetStatus, Done, Release, KeepsReadable, Readable
<1>10. ASSUME NEW p \in Procs, p \in Ingesters, MarkEnriched(p)
      PROVE  KeepsReadable
  BY <1>10
     DEF MarkEnriched, Goto, SetStatus, KeepsReadable, Readable
<1>11. ASSUME NEW p \in Procs, p \in Reembedders, ListReembed(p)
      PROVE  KeepsReadable
  BY <1>11
     DEF ListReembed, Goto, Race, InHand, Reembeddable, KeepsReadable,
         Readable
<1>12. ASSUME NEW d0 \in Docs, Suppress(d0)
      PROVE  KeepsReadable
  BY <1>12
     DEF Suppress, Event, Purge, SetStatus, Race, InHand, KeepsReadable,
         Readable
<1>13. ASSUME NEW d0 \in Docs, Unsuppress(d0)
      PROVE  KeepsReadable
  BY <1>13
     DEF Unsuppress, Event, SetStatus, Restored, Race, InHand, KeepsReadable,
         Readable, TextBehindStatus
<1>14. CASE UNCHANGED <<status, model, suppressed, raced>>
  BY <1>14
     DEF KeepsReadable, Readable
<1>15. ASSUME NEW p \in Procs,
             Start(p) \/ SeedRead(p) \/ SeedConflict(p) \/ SeedDeduped(p)
             \/ LookExisting(p) \/ SkipExisting(p) \/ ReplaceChunks(p) \/
             InsertVectors(p) \/ VectorsRejected(p) \/ ReplaceInsights(p)
             \/ ScriptEnds(p) \/ EmbedRaises(p) \/
             StepRaises(p) \/ Crash(p)
      PROVE  UNCHANGED <<status, model, suppressed, raced>>
  BY <1>15
     DEF Start, Goto, SeedRead, SeedConflict, Done, Release, SeedDeduped,
         Retried, LookExisting, Reembeddable, SkipExisting, ReplaceChunks,
         InsertVectors, VectorsRejected, Fallout, ReplaceInsights, ScriptEnds, EmbedRaises, Event, StepRaises, Crash
<1>16. ASSUME NEW p \in Procs, NEW q0 \in Procs, OverlapChunks(p, q0)
      PROVE  UNCHANGED <<status, model, suppressed, raced>>
  BY <1>16
     DEF OverlapChunks
<1>17. ASSUME NEW p \in Procs, p \in Reembedders, NEW d0 \in Docs, NextRow(p, d0)
      PROVE  UNCHANGED <<status, model, suppressed, raced>>
  BY <1>17
     DEF NextRow, Goto
<1>18. ASSUME NEW ds \in SUBSET Docs, Redact(ds)
      PROVE  UNCHANGED <<status, model, suppressed, raced>>
  BY <1>18
     DEF Redact, Event
<1>19. ASSUME NEW m \in Models, ChangeModel(m)
      PROVE  UNCHANGED <<status, model, suppressed, raced>>
  BY <1>19
     DEF ChangeModel, Event
<1>20. CASE UNCHANGED vars
  BY <1>20, <1>14
     DEF vars
<1> HIDE DEF TypeOK, KeepsReadable
<1>21. QED
  BY <1>1, <1>2, <1>3, <1>4, <1>5, <1>6, <1>7, <1>8, <1>9, <1>10, <1>11, <1>12,
     <1>13, <1>14, <1>15, <1>16, <1>17, <1>18, <1>19, <1>20
     DEF Next, Step, IngestStep, EmbedStep, ScriptStep, Environment

\* The invariant holds of the empty corpus.
LEMMA InitInv ==
    Init => DocInv
<1> SUFFICES ASSUME Init
             PROVE  DocInv
  OBVIOUS
<1> USE DocumentsAssumption DEF Init
<1>1. TypeOK
  BY
     DEF TypeOK, PCs, Statuses, Models, NoModel
<1>2. HandsFull
  BY
     DEF HandsFull, Between, PCs
<1>3. TextInHand
  BY
     DEF TextInHand
<1>4. TextBehindStatus
  BY
     DEF TextBehindStatus, Readable
<1>5. Kinds
  BY
     DEF Kinds, Procs
<1>6. OneHolder
  BY
     DEF OneHolder, InHand
<1>7. SuppressedInHand
  BY
     DEF SuppressedInHand
<1>8. FreshRead
  BY
     DEF FreshRead
<1>9. SuppressionSticks
  BY
     DEF SuppressionSticks
<1>10. FreshText
  BY
     DEF FreshText
<1>11. ModelMeansReadable
  BY
     DEF ModelMeansReadable
<1>12. NewInPipeline
  BY
     DEF NewInPipeline, Procs
<1>13. ModelsOrdered
  BY
     DEF ModelsOrdered, NoModel, Models
<1>14. LacksModel
  BY
     DEF LacksModel, NoModel, Procs
<1>15. ModelMeansVectors
  BY
     DEF ModelMeansVectors, NoModel
<1>. QED
  BY <1>1, <1>2, <1>3, <1>4, <1>5, <1>6, <1>7, <1>8, <1>9, <1>10, <1>11, <1>12,
     <1>13, <1>14, <1>15
     DEF DocInv, TextInv, SuppressInv, VectorInv

\* Every step keeps the invariant.
LEMMA StepInv ==
    DocInv /\ [Next]_vars => DocInv'
BY TypeStep, HandsStep, TextInHandStep, TextBehindStatusStep, KindsStep,
   OneHolderStep, SuppressedInHandStep, FreshReadStep, SuppressionSticksStep,
   FreshTextStep, ModelMeansReadableStep, NewInPipelineStep, ModelsOrderedStep,
   LacksModelStep, ModelMeansVectorsStep
   DEF DocInv, TextInv, SuppressInv, VectorInv

\* The inductive invariant holds in every reachable state: for every number of
\* workers and scripts, whatever crashes, operators and overlapping
\* transactions do.
THEOREM DocumentsInvariant == Spec => []DocInv
<1>1. Init => DocInv
  BY InitInv
<1>2. DocInv /\ [Next]_vars => DocInv'
  BY StepInv
<1>. QED
  BY <1>1, <1>2, PTL DEF Spec

\* A document in a readable status has text, whoever writes it.
THEOREM TextIsBehindStatus == Spec => []TextBehindStatus
<1>1. DocInv => TextBehindStatus
  BY DEF DocInv, TextInv
<1>. QED
  BY <1>1, DocumentsInvariant, PTL

\* A suppressed document keeps no chunks, vectors or insights.
THEOREM SuppressionIsKept == Spec => []SuppressionSticks
<1>1. DocInv => SuppressionSticks
  BY DEF DocInv, SuppressInv
<1>. QED
  BY <1>1, DocumentsInvariant, PTL

\* When the model only ever changes for a new one with nothing running, a
\* document that claims the active model has its vectors.
THEOREM NoOrphanWhenOrderly ==
    ASSUME Orderly
    PROVE  Spec => []NoOrphan
<1>1. DocInv => NoOrphan
  BY DEF DocInv, VectorInv, ModelMeansVectors, NoOrphan
<1>. QED
  BY <1>1, DocumentsInvariant, PTL

\* An embedded document leaves the readable statuses only by suppression.
THEOREM EmbeddedStaysReadable == Spec => StaysReadable
<1>1. DocInv /\ [Next]_vars => [KeepsReadable]_vars
  BY KeepsReadableStep DEF DocInv, TextInv, SuppressInv, VectorInv
<1>. QED
  BY <1>1, DocumentsInvariant, PTL DEF Spec, StaysReadable

=============================================================================
