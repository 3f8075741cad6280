------------------------- MODULE ResearchRunsProofs -------------------------
(***************************************************************************)
(* Theorems of ResearchRuns for every set of workers, clients, sources and *)
(* topics, every threshold and budget and every value of the bounds.       *)
(***************************************************************************)
EXTENDS ResearchRuns, FiniteSetTheorems, TLAPS

\* Every step keeps the type invariant.
LEMMA TypeStep ==
    TypeOK /\ JobsHeld /\ InHand /\ [Next]_vars => TypeOK'
<1> SUFFICES ASSUME TypeOK, JobsHeld, InHand, [Next]_vars
             PROVE  TypeOK'
  OBVIOUS
<1> USE RunsAssumption DEF TypeOK, runVars, sourceVars, workerVars, clientVars,
              localVars, passVars, readVars, reportVars
<1>1. ASSUME NEW w \in Workers, SweepStale(w)
      PROVE  TypeOK'
  BY <1>1
     DEF SweepStale, Goto, SweepTo, StaleRuns, PCs, Statuses, Finished,
         ErrorKinds
<1>2. ASSUME NEW w \in Workers, ClaimRun(w)
      PROVE  TypeOK'
  <2>1. claims' \in [RunIds -> Nat]
    BY <1>2 DEF ClaimRun, Claimable, Queued
  <2>2. status' \in [RunIds -> Statuses] /\ idle' \in [RunIds -> BOOLEAN]
    BY <1>2 DEF ClaimRun, Claimable, Queued, Touched, Statuses, Open
  <2>3. job' \in [Workers -> RunIds \cup {NoRun}] /\ pc' \in [Workers -> PCs]
    BY <1>2 DEF ClaimRun, Claimable, Queued, Goto, PCs
  <2>4. UNCHANGED <<request, newItems, errors, sourceVars, localVars, clientVars,
                    events, streak>>
    BY <1>2 DEF ClaimRun, Claimable, Queued
  <2>. QED
    BY <2>1, <2>2, <2>3, <2>4
<1>3. ASSUME NEW w \in Workers, ClaimNothing(w)
      PROVE  TypeOK'
  BY <1>3
     DEF ClaimNothing, Goto, PCs
<1>4. ASSUME NEW w \in Workers, ListSources(w)
      PROVE  TypeOK'
  BY <1>4
     DEF ListSources, Goto, EnabledSources, PCs
<1>5. ASSUME NEW w \in Workers, NextSource(w)
      PROVE  TypeOK'
  BY <1>5
     DEF NextSource, Goto, PCs
<1>6. ASSUME NEW w \in Workers, NoMoreSources(w)
      PROVE  TypeOK'
  BY <1>6
     DEF NoMoreSources, Goto, PCs
<1>7. ASSUME NEW w \in Workers, FetchSource(w)
      PROVE  TypeOK'
  BY <1>7
     DEF FetchSource, Goto, PCs
<1>8. ASSUME NEW w \in Workers, FetchSourceFails(w)
      PROVE  TypeOK'
  BY <1>8
     DEF FetchSourceFails, Fail, Report, PCs, ErrorKinds
<1>9. ASSUME NEW w \in Workers, NewItem(w)
      PROVE  TypeOK'
  <2>1. new[w] + 1 \in Nat
    OBVIOUS
  <2>. QED
    BY <1>9, <2>1
       DEF NewItem, ItemLimit
<1>10. ASSUME NEW w \in Workers, ItemFails(w) \/ ItemSuppressed(w)
      PROVE  TypeOK'
  BY <1>10
     DEF ItemFails, ItemSuppressed, Fail, Report, PCs, ErrorKinds
<1>11. ASSUME NEW w \in Workers, ItemsDone(w)
      PROVE  TypeOK'
  BY <1>11
     DEF ItemsDone, Goto, PCs
<1>12. ASSUME NEW w \in Workers, RunRaises(w)
      PROVE  TypeOK'
  BY <1>12
     DEF RunRaises, Trying, Report, Forget, PCs, ErrorKinds
<1>13. ASSUME NEW w \in Workers, ReadErrors(w)
      PROVE  TypeOK'
  <2>1. job[w] \in RunIds
    BY <1>13 DEF ReadErrors, Goto, JobsHeld, Busy
  <2>. QED
    BY <1>13, <2>1
       DEF ReadErrors, Goto, PCs, ErrorKinds
<1>14. ASSUME NEW w \in Workers, WriteErrors(w)
      PROVE  TypeOK'
  BY <1>14
     DEF WriteErrors, Goto, Touched, PCs, ErrorKinds
<1>15. ASSUME NEW w \in Workers, SetPolled(w)
      PROVE  TypeOK'
  BY <1>15
     DEF SetPolled, Goto, PCs
<1>16. ASSUME NEW w \in Workers, UpdateCounters(w)
      PROVE  TypeOK'
  <2>1. job[w] \in RunIds /\ newItems[job[w]] + new[w] \in Nat /\ runNew[w] + new[w] \in Nat
    BY <1>16 DEF UpdateCounters, Goto, JobsHeld, Busy
  <2>. QED
    BY <1>16, <2>1
       DEF UpdateCounters, Goto, Touched, PCs
<1>17. ASSUME NEW w \in Workers, ResetPolicy(w)
      PROVE  TypeOK'
  BY <1>17
     DEF ResetPolicy, AfterSource, BudgetSpent, Counter, Report, PCs, ErrorKinds
<1>18. ASSUME NEW w \in Workers, ReadPolicy(w)
      PROVE  TypeOK'
  <2>1. src[w] \in Sources
    BY <1>18 DEF ReadPolicy, Goto, InHand, At
  <2>. QED
    BY <1>18, <2>1
       DEF ReadPolicy, Goto, PCs
<1>19. ASSUME NEW w \in Workers, WritePolicy(w)
      PROVE  TypeOK'
  <2>1. src[w] \in Sources /\ fails[w] + 1 \in Nat /\ streak[src[w]] + 1 \in Nat
    BY <1>19 DEF WritePolicy, InHand, At
  <2>2. /\ failures' \in [Sources -> Nat] /\ streak' \in [Sources -> Nat]
        /\ cooling' \in [Sources -> BOOLEAN] /\ due' \in [Sources -> BOOLEAN]
    BY <1>19, <2>1 DEF WritePolicy, Counter
  <2>3. /\ pc' \in [Workers -> PCs] /\ msg' \in [Workers -> ErrorKinds]
        /\ ret' \in [Workers -> {"next", "items", "polled", "finish", "fail"}]
    BY <1>19 DEF WritePolicy, AfterSource, Report, PCs, ErrorKinds
  <2>. QED
    BY <1>19, <2>1, <2>2, <2>3
       DEF WritePolicy, AfterSource, BudgetSpent, Counter, Report, PCs,
           ErrorKinds
<1>20. ASSUME NEW w \in Workers, FinishRun(w)
      PROVE  TypeOK'
  BY <1>20
     DEF FinishRun, Goto, EndRun, Touched, Forget, PCs, Statuses, Finished
<1>21. ASSUME NEW w \in Workers, FailRun(w)
      PROVE  TypeOK'
  BY <1>21
     DEF FailRun, Goto, EndRun, Touched, Forget, PCs, Statuses, Finished
<1>22. ASSUME NEW w \in Workers, ListDue(w)
      PROVE  TypeOK'
  BY <1>22
     DEF ListDue, Goto, DueSources, PCs
<1>23. ASSUME NEW w \in Workers, NothingDue(w)
      PROVE  TypeOK'
  BY <1>23
     DEF NothingDue, Goto, PCs
<1>24. ASSUME NEW w \in Workers, SkipTopic(w)
      PROVE  TypeOK'
  BY <1>24
     DEF SkipTopic, Group
<1>25. ASSUME NEW w \in Workers, CheckTopic(w)
      PROVE  TypeOK'
  <2>1. topic' \in [Workers -> Topics \cup {NoTopic}]
    BY <1>25 DEF CheckTopic
  <2>2. pc' \in [Workers -> PCs]
    BY <1>25 DEF CheckTopic, Goto, PCs
  <2>. QED
    BY <1>25, <2>1, <2>2
       DEF CheckTopic, Goto, Group, PCs
<1>26. ASSUME NEW w \in Workers, CreateScheduleRun(w)
      PROVE  TypeOK'
  <2>1. topic[w] \in Topics /\ Group(w, topic[w]) \in SUBSET Sources
    BY <1>26 DEF CreateScheduleRun, Goto, InHand, Group
  <2>. QED
    BY <1>26, <2>1
       DEF CreateScheduleRun, Goto, InsertRun, NextRow, Group, PCs, Statuses,
           Open, Request, Triggers
<1>27. ASSUME NEW w \in Workers, EnqueueDone(w)
      PROVE  TypeOK'
  BY <1>27
     DEF EnqueueDone, Goto, PCs
<1>28. ASSUME NEW w \in Workers, Crash(w)
      PROVE  TypeOK'
  BY <1>28
     DEF Crash, Forget, PCs, ErrorKinds
<1>29. ASSUME NEW w \in Workers, Start(w)
      PROVE  TypeOK'
  BY <1>29
     DEF Start, PCs
<1>30. ASSUME NEW c \in Clients, Lookup(c)
      PROVE  TypeOK'
  BY <1>30
     DEF Lookup, Request, Triggers
<1>31. ASSUME NEW c \in Clients, SelectSources(c)
      PROVE  TypeOK'
  <2>1. creq' \in [Clients -> Request]
    <3>1. PICK ids \in SUBSET Sources :
             creq' = [creq EXCEPT ![c] =
                        IF EnabledSources(creq[c].topic, ids) = {} THEN NoRequest(@.topic)
                        ELSE [@ EXCEPT !.selected = EnabledSources(creq[c].topic, ids)]]
      BY <1>31 DEF SelectSources
    <3>2. creq[c] \in Request /\ EnabledSources(creq[c].topic, ids) \in SUBSET Sources
      BY DEF EnabledSources
    <3>3. NoRequest(creq[c].topic) \in Request
      BY <3>2 DEF NoRequest, Request, Triggers
    <3>4. [creq[c] EXCEPT !.selected = EnabledSources(creq[c].topic, ids)] \in Request
      BY <3>2 DEF Request
    <3>. QED
      BY <3>1, <3>3, <3>4
  <2>2. cpc' \in [Clients -> {"idle", "select", "create"}]
    BY <1>31 DEF SelectSources
  <2>. QED
    BY <1>31, <2>1, <2>2
       DEF SelectSources, EnabledSources, NoRequest
<1>32. ASSUME NEW c \in Clients, CreateRun(c)
      PROVE  TypeOK'
  BY <1>32
     DEF CreateRun, InsertRun, NextRow, NoRequest, Statuses, Open, Request,
         Triggers
<1>33. ASSUME NEW s \in Sources, NEW on \in BOOLEAN, SetEnabled(s, on)
      PROVE  TypeOK'
  <2>1. enabled' \in [Sources -> BOOLEAN]
    BY <1>33, Zenon DEF SetEnabled
  <2>2. events' \in Nat
    BY <1>33 DEF SetEnabled
  <2>. QED
    BY <1>33, <2>1, <2>2
       DEF SetEnabled
<1>34. ASSUME NEW s \in Sources, CooldownExpires(s)
      PROVE  TypeOK'
  BY <1>34
     DEF CooldownExpires
<1>35. ASSUME NEW s \in Sources, PollIntervalElapses(s)
      PROVE  TypeOK'
  BY <1>35
     DEF PollIntervalElapses
<1>36. ASSUME NEW r \in RunIds, RunGoesIdle(r)
      PROVE  TypeOK'
  BY <1>36
     DEF RunGoesIdle
<1>37. CASE UNCHANGED vars
  BY <1>37
     DEF vars
<1>38. QED
  BY <1>1, <1>2, <1>3, <1>4, <1>5, <1>6, <1>7, <1>8, <1>9, <1>10, <1>11, <1>12,
     <1>13, <1>14, <1>15, <1>16, <1>17, <1>18, <1>19, <1>20, <1>21, <1>22,
     <1>23, <1>24, <1>25, <1>26, <1>27, <1>28, <1>29, <1>30, <1>31, <1>32,
     <1>33, <1>34, <1>35, <1>36, <1>37
     DEF Next, WorkerStep, ClientStep

\* A worker inside process_run keeps a claimed row, running or given up.
LEMMA JobsHeldStep ==
    TypeOK /\ JobsHeld /\ JobsDistinct /\ [Next]_vars => JobsHeld'
<1> SUFFICES ASSUME TypeOK, JobsHeld, JobsDistinct, [Next]_vars
             PROVE  JobsHeld'
  OBVIOUS
<1> USE RunsAssumption DEF TypeOK, runVars, sourceVars, workerVars, clientVars,
              localVars, passVars, readVars, reportVars
<1>1. ASSUME NEW w \in Workers, SweepStale(w)
      PROVE  JobsHeld'
  BY <1>1
     DEF SweepStale, Goto, SweepTo, StaleRuns, JobsHeld, Busy
<1>2. ASSUME NEW w \in Workers, ClaimRun(w)
      PROVE  JobsHeld'
  <2>1. PICK r \in RunIds :
           /\ Goto(w, "claim", "list")
           /\ status[r] = "queued"
           /\ status' = [status EXCEPT ![r] = "running"]
           /\ job' = [job EXCEPT ![w] = r]
    BY <1>2 DEF ClaimRun, Claimable, Queued
  <2>2. UNCHANGED <<newItems, ret, runNew, new>>
    BY <1>2 DEF ClaimRun, Claimable, Queued
  <2>3. job[w] = NoRun /\ r # NoRun
    BY <2>1 DEF JobsHeld, Busy, Goto, RunIds
  <2>4. ASSUME NEW v \in Workers, v # w
        PROVE  /\ pc'[v] = pc[v] /\ job'[v] = job[v]
               /\ job[v] # NoRun => status'[job[v]] = status[job[v]]
    BY <2>1, <2>4 DEF JobsHeld, Goto
  <2>5. pc'[w] = "list" /\ job'[w] = r /\ status'[r] = "running"
    BY <2>1 DEF Goto
  <2>. QED
    BY <2>2, <2>3, <2>4, <2>5 DEF JobsHeld, Busy
<1>3. ASSUME NEW w \in Workers, ClaimNothing(w)
      PROVE  JobsHeld'
  BY <1>3
     DEF ClaimNothing, Goto, JobsHeld, Busy
<1>4. ASSUME NEW w \in Workers, ListSources(w)
      PROVE  JobsHeld'
  BY <1>4
     DEF ListSources, Goto, EnabledSources, JobsHeld, Busy
<1>5. ASSUME NEW w \in Workers, NextSource(w)
      PROVE  JobsHeld'
  BY <1>5
     DEF NextSource, Goto, JobsHeld, Busy
<1>6. ASSUME NEW w \in Workers, NoMoreSources(w)
      PROVE  JobsHeld'
  BY <1>6
     DEF NoMoreSources, Goto, JobsHeld, Busy
<1>7. ASSUME NEW w \in Workers, FetchSource(w)
      PROVE  JobsHeld'
  BY <1>7
     DEF FetchSource, Goto, JobsHeld, Busy
<1>8. ASSUME NEW w \in Workers, FetchSourceFails(w)
      PROVE  JobsHeld'
  BY <1>8
     DEF FetchSourceFails, Fail, Report, JobsHeld, Busy
<1>9. ASSUME NEW w \in Workers, ItemFails(w) \/ ItemSuppressed(w)
      PROVE  JobsHeld'
  BY <1>9
     DEF ItemFails, ItemSuppressed, Fail, Report, JobsHeld, Busy
<1>10. ASSUME NEW w \in Workers, ItemsDone(w)
      PROVE  JobsHeld'
  BY <1>10
     DEF ItemsDone, Goto, JobsHeld, Busy
<1>11. ASSUME NEW w \in Workers, RunRaises(w)
      PROVE  JobsHeld'
  BY <1>11
     DEF RunRaises, Trying, Report, Forget, JobsHeld, Busy
<1>12. ASSUME NEW w \in Workers, ReadErrors(w)
      PROVE  JobsHeld'
  BY <1>12
     DEF ReadErrors, Goto, JobsHeld, Busy
<1>13. ASSUME NEW w \in Workers, WriteErrors(w)
      PROVE  JobsHeld'
  BY <1>13
     DEF WriteErrors, Goto, Touched, JobsHeld, Busy
<1>14. ASSUME NEW w \in Workers, SetPolled(w)
      PROVE  JobsHeld'
  BY <1>14
     DEF SetPolled, Goto, JobsHeld, Busy
<1>15. ASSUME NEW w \in Workers, UpdateCounters(w)
      PROVE  JobsHeld'
  BY <1>15
     DEF UpdateCounters, Goto, Touched, JobsHeld, Busy
<1>16. ASSUME NEW w \in Workers, ResetPolicy(w)
      PROVE  JobsHeld'
  BY <1>16
     DEF ResetPolicy, AfterSource, BudgetSpent, Counter, Report, JobsHeld, Busy
<1>17. ASSUME NEW w \in Workers, ReadPolicy(w)
      PROVE  JobsHeld'
  BY <1>17
     DEF ReadPolicy, Goto, JobsHeld, Busy
<1>18. ASSUME NEW w \in Workers, WritePolicy(w)
      PROVE  JobsHeld'
  BY <1>18
     DEF WritePolicy, AfterSource, BudgetSpent, Counter, Report, JobsHeld, Busy
<1>19. ASSUME NEW w \in Workers, FinishRun(w)
      PROVE  JobsHeld'
  <2>1. job[w] # NoRun /\ status[job[w]] \in {"running", "failed"}
    BY <1>19 DEF FinishRun, EndRun, Goto, JobsHeld, Busy
  <2>2. ASSUME NEW v \in Workers, v # w
        PROVE  /\ pc'[v] = pc[v] /\ job'[v] = job[v] /\ ret'[v] = ret[v]
               /\ job[v] # NoRun => status'[job[v]] = status[job[v]]
    BY <1>19, <2>1, <2>2 DEF FinishRun, EndRun, Goto, JobsDistinct
  <2>3. pc'[w] \in {"top", "exit"} /\ job'[w] = NoRun
    BY <1>19 DEF FinishRun, EndRun, Goto
  <2>. QED
    BY <2>2, <2>3 DEF JobsHeld, Busy
<1>20. ASSUME NEW w \in Workers, FailRun(w)
      PROVE  JobsHeld'
  BY <1>20
     DEF FailRun, Goto, EndRun, Touched, Forget, JobsHeld, Busy
<1>21. ASSUME NEW w \in Workers, ListDue(w)
      PROVE  JobsHeld'
  BY <1>21
     DEF ListDue, Goto, DueSources, JobsHeld, Busy
<1>22. ASSUME NEW w \in Workers, NothingDue(w)
      PROVE  JobsHeld'
  BY <1>22
     DEF NothingDue, Goto, JobsHeld, Busy
<1>23. ASSUME NEW w \in Workers, CheckTopic(w)
      PROVE  JobsHeld'
  BY <1>23
     DEF CheckTopic, Goto, Group, JobsHeld, Busy
<1>24. ASSUME NEW w \in Workers, CreateScheduleRun(w)
      PROVE  JobsHeld'
  BY <1>24
     DEF CreateScheduleRun, Goto, InsertRun, NextRow, Group, JobsHeld, Busy
<1>25. ASSUME NEW w \in Workers, EnqueueDone(w)
      PROVE  JobsHeld'
  BY <1>25
     DEF EnqueueDone, Goto, JobsHeld, Busy
<1>26. ASSUME NEW w \in Workers, Crash(w)
      PROVE  JobsHeld'
  BY <1>26
     DEF Crash, Forget, JobsHeld, Busy
<1>27. ASSUME NEW w \in Workers, Start(w)
      PROVE  JobsHeld'
  BY <1>27
     DEF Start, JobsHeld, Busy
<1>28. ASSUME NEW c \in Clients, CreateRun(c)
      PROVE  JobsHeld'
  BY <1>28
     DEF CreateRun, InsertRun, NextRow, NoRequest, JobsHeld, Busy
<1>29. CASE UNCHANGED <<pc, job, status, ret>>
  BY <1>29
     DEF JobsHeld, Busy
<1>30. ASSUME NEW w \in Workers,
             \/ NewItem(w) \/ SkipTopic(w)
      PROVE  UNCHANGED <<pc, job, status, ret>>
  BY <1>30
     DEF NewItem, ItemLimit, SkipTopic, Group
<1>31. ASSUME NEW c \in Clients, Lookup(c)
      PROVE  UNCHANGED <<pc, job, status, ret>>
  BY <1>31 DEF Lookup
<1>32. ASSUME NEW c \in Clients, SelectSources(c)
      PROVE  UNCHANGED <<pc, job, status, ret>>
  BY <1>32 DEF SelectSources, EnabledSources, NoRequest
<1>33. ASSUME NEW s \in Sources, NEW on \in BOOLEAN, SetEnabled(s, on)
      PROVE  UNCHANGED <<pc, job, status, ret>>
  BY <1>33 DEF SetEnabled
<1>34. ASSUME NEW s \in Sources, CooldownExpires(s)
      PROVE  UNCHANGED <<pc, job, status, ret>>
  BY <1>34 DEF CooldownExpires
<1>35. ASSUME NEW s \in Sources, PollIntervalElapses(s)
      PROVE  UNCHANGED <<pc, job, status, ret>>
  BY <1>35 DEF PollIntervalElapses
<1>36. ASSUME NEW r \in RunIds, RunGoesIdle(r)
      PROVE  UNCHANGED <<pc, job, status, ret>>
  BY <1>36 DEF RunGoesIdle
<1>37. CASE UNCHANGED vars
  BY <1>37, <1>29 DEF vars
<1>38. QED
  BY <1>1, <1>2, <1>3, <1>4, <1>5, <1>6, <1>7, <1>8, <1>9, <1>10, <1>11, <1>12,
     <1>13, <1>14, <1>15, <1>16, <1>17, <1>18, <1>19, <1>20, <1>21, <1>22,
     <1>23, <1>24, <1>25, <1>26, <1>27, <1>28, <1>29, <1>30, <1>31, <1>32,
     <1>33, <1>34, <1>35, <1>36, <1>37
     DEF Next, WorkerStep, ClientStep

\* A pass keeps the source it is about.
LEMMA InHandStep ==
    TypeOK /\ JobsHeld /\ InHand /\ [Next]_vars => InHand'
<1> SUFFICES ASSUME TypeOK, JobsHeld, InHand, [Next]_vars
             PROVE  InHand'
  OBVIOUS
<1> USE RunsAssumption DEF TypeOK, runVars, sourceVars, workerVars, clientVars,
              localVars, passVars, readVars, reportVars
<1>1. ASSUME NEW w \in Workers, SweepStale(w)
      PROVE  InHand'
  BY <1>1
     DEF SweepStale, Goto, SweepTo, StaleRuns, InHand, At, JobsHeld, Busy
<1>2. ASSUME NEW w \in Workers, ClaimRun(w)
      PROVE  InHand'
  BY <1>2
     DEF ClaimRun, Goto, Claimable, Queued, Touched, InHand, At, JobsHeld, Busy
<1>3. ASSUME NEW w \in Workers, ClaimNothing(w)
      PROVE  InHand'
  BY <1>3
     DEF ClaimNothing, Goto, InHand, At, JobsHeld, Busy
<1>4. ASSUME NEW w \in Workers, ListSources(w)
      PROVE  InHand'
  BY <1>4
     DEF ListSources, Goto, EnabledSources, InHand, At, JobsHeld, Busy
<1>5. ASSUME NEW w \in Workers, NextSource(w)
      PROVE  InHand'
  BY <1>5
     DEF NextSource, Goto, InHand, At, JobsHeld, Busy
<1>6. ASSUME NEW w \in Workers, NoMoreSources(w)
      PROVE  InHand'
  BY <1>6
     DEF NoMoreSources, Goto, InHand, At, JobsHeld, Busy
<1>7. ASSUME NEW w \in Workers, FetchSource(w)
      PROVE  InHand'
  BY <1>7
     DEF FetchSource, Goto, InHand, At, JobsHeld, Busy
<1>8. ASSUME NEW w \in Workers, FetchSourceFails(w)
      PROVE  InHand'
  BY <1>8
     DEF FetchSourceFails, Fail, Report, InHand, At, JobsHeld, Busy
<1>9. ASSUME NEW w \in Workers, ItemFails(w) \/ ItemSuppressed(w)
      PROVE  InHand'
  BY <1>9
     DEF ItemFails, ItemSuppressed, Fail, Report, InHand, At, JobsHeld, Busy
<1>10. ASSUME NEW w \in Workers, ItemsDone(w)
      PROVE  InHand'
  BY <1>10
     DEF ItemsDone, Goto, InHand, At, JobsHeld, Busy
<1>11. ASSUME NEW w \in Workers, RunRaises(w)
      PROVE  InHand'
  BY <1>11
     DEF RunRaises, Trying, Report, Forget, InHand, At, JobsHeld, Busy
<1>12. ASSUME NEW w \in Workers, ReadErrors(w)
      PROVE  InHand'
  BY <1>12
     DEF ReadErrors, Goto, InHand, At, JobsHeld, Busy
<1>13. ASSUME NEW w \in Workers, WriteErrors(w)
      PROVE  InHand'
  BY <1>13
     DEF WriteErrors, Goto, Touched, InHand, At, JobsHeld, Busy
<1>14. ASSUME NEW w \in Workers, SetPolled(w)
      PROVE  InHand'
  BY <1>14
     DEF SetPolled, Goto, InHand, At, JobsHeld, Busy
<1>15. ASSUME NEW w \in Workers, UpdateCounters(w)
      PROVE  InHand'
  BY <1>15
     DEF UpdateCounters, Goto, Touched, InHand, At, JobsHeld, Busy
<1>16. ASSUME NEW w \in Workers, ResetPolicy(w)
      PROVE  InHand'
  BY <1>16
     DEF ResetPolicy, AfterSource, BudgetSpent, Counter, Report, InHand, At,
         JobsHeld, Busy
<1>17. ASSUME NEW w \in Workers, ReadPolicy(w)
      PROVE  InHand'
  BY <1>17
     DEF ReadPolicy, Goto, InHand, At, JobsHeld, Busy
<1>18. ASSUME NEW w \in Workers, WritePolicy(w)
      PROVE  InHand'
  BY <1>18
     DEF WritePolicy, AfterSource, BudgetSpent, Counter, Report, InHand, At,
         JobsHeld, Busy
<1>19. ASSUME NEW w \in Workers, FinishRun(w)
      PROVE  InHand'
  BY <1>19
     DEF FinishRun, Goto, EndRun, Touched, Forget, InHand, At, JobsHeld, Busy
<1>20. ASSUME NEW w \in Workers, FailRun(w)
      PROVE  InHand'
  BY <1>20
     DEF FailRun, Goto, EndRun, Touched, Forget, InHand, At, JobsHeld, Busy
<1>21. ASSUME NEW w \in Workers, ListDue(w)
      PROVE  InHand'
  BY <1>21
     DEF ListDue, Goto, DueSources, InHand, At, JobsHeld, Busy
<1>22. ASSUME NEW w \in Workers, NothingDue(w)
      PROVE  InHand'
  BY <1>22
     DEF NothingDue, Goto, InHand, At, JobsHeld, Busy
<1>23. ASSUME NEW w \in Workers, CheckTopic(w)
      PROVE  InHand'
  BY <1>23
     DEF CheckTopic, Goto, Group, InHand, At, JobsHeld, Busy
<1>24. ASSUME NEW w \in Workers, CreateScheduleRun(w)
      PROVE  InHand'
  BY <1>24
     DEF CreateScheduleRun, Goto, InsertRun, NextRow, Group, InHand, At,
         JobsHeld, Busy
<1>25. ASSUME NEW w \in Workers, EnqueueDone(w)
      PROVE  InHand'
  BY <1>25
     DEF EnqueueDone, Goto, InHand, At, JobsHeld, Busy
<1>26. ASSUME NEW w \in Workers, Crash(w)
      PROVE  InHand'
  BY <1>26
     DEF Crash, Forget, InHand, At, JobsHeld, Busy
<1>27. ASSUME NEW w \in Workers, Start(w)
      PROVE  InHand'
  BY <1>27
     DEF Start, InHand, At, JobsHeld, Busy
<1>28. ASSUME NEW c \in Clients, CreateRun(c)
      PROVE  InHand'
  BY <1>28
     DEF CreateRun, InsertRun, NextRow, NoRequest, InHand, At, JobsHeld, Busy
<1>29. CASE UNCHANGED <<pc, src, topic, ret>>
  BY <1>29
     DEF InHand, At, JobsHeld, Busy
<1>30. ASSUME NEW w \in Workers,
             \/ NewItem(w) \/ SkipTopic(w)
      PROVE  UNCHANGED <<pc, src, topic, ret>>
  BY <1>30
     DEF NewItem, ItemLimit, SkipTopic, Group
<1>31. ASSUME NEW c \in Clients, Lookup(c)
      PROVE  UNCHANGED <<pc, src, topic, ret>>
  BY <1>31 DEF Lookup
<1>32. ASSUME NEW c \in Clients, SelectSources(c)
      PROVE  UNCHANGED <<pc, src, topic, ret>>
  BY <1>32 DEF SelectSources, EnabledSources, NoRequest
<1>33. ASSUME NEW s \in Sources, NEW on \in BOOLEAN, SetEnabled(s, on)
      PROVE  UNCHANGED <<pc, src, topic, ret>>
  BY <1>33 DEF SetEnabled
<1>34. ASSUME NEW s \in Sources, CooldownExpires(s)
      PROVE  UNCHANGED <<pc, src, topic, ret>>
  BY <1>34 DEF CooldownExpires
<1>35. ASSUME NEW s \in Sources, PollIntervalElapses(s)
      PROVE  UNCHANGED <<pc, src, topic, ret>>
  BY <1>35 DEF PollIntervalElapses
<1>36. ASSUME NEW r \in RunIds, RunGoesIdle(r)
      PROVE  UNCHANGED <<pc, src, topic, ret>>
  BY <1>36 DEF RunGoesIdle
<1>37. CASE UNCHANGED vars
  BY <1>37, <1>29 DEF vars
<1>38. QED
  BY <1>1, <1>2, <1>3, <1>4, <1>5, <1>6, <1>7, <1>8, <1>9, <1>10, <1>11, <1>12,
     <1>13, <1>14, <1>15, <1>16, <1>17, <1>18, <1>19, <1>20, <1>21, <1>22,
     <1>23, <1>24, <1>25, <1>26, <1>27, <1>28, <1>29, <1>30, <1>31, <1>32,
     <1>33, <1>34, <1>35, <1>36, <1>37
     DEF Next, WorkerStep, ClientStep

\* No two workers hold one row: only a queued row is claimed.
LEMMA JobsDistinctStep ==
    TypeOK /\ JobsHeld /\ JobsDistinct /\ [Next]_vars => JobsDistinct'
<1> SUFFICES ASSUME TypeOK, JobsHeld, JobsDistinct, [Next]_vars
             PROVE  JobsDistinct'
  OBVIOUS
<1> USE RunsAssumption DEF TypeOK, runVars, sourceVars, workerVars, clientVars,
              localVars, passVars, readVars, reportVars
<1>1. ASSUME NEW w \in Workers, ClaimRun(w)
      PROVE  JobsDistinct'
  BY <1>1
     DEF ClaimRun, Goto, Claimable, Queued, Touched, JobsDistinct, JobsHeld
<1>2. ASSUME NEW w \in Workers, FinishRun(w)
      PROVE  JobsDistinct'
  BY <1>2
     DEF FinishRun, Goto, EndRun, Touched, Forget, JobsDistinct, JobsHeld
<1>3. ASSUME NEW w \in Workers, FailRun(w)
      PROVE  JobsDistinct'
  BY <1>3
     DEF FailRun, Goto, EndRun, Touched, Forget, JobsDistinct, JobsHeld
<1>4. ASSUME NEW w \in Workers, Crash(w)
      PROVE  JobsDistinct'
  BY <1>4
     DEF Crash, Forget, JobsDistinct, JobsHeld
<1>5. CASE UNCHANGED job
  BY <1>5
     DEF JobsDistinct, JobsHeld
<1>6. ASSUME NEW w \in Workers,
             \/ SweepStale(w) \/ ClaimNothing(w) \/ ListSources(w)
             \/ NextSource(w) \/ NoMoreSources(w) \/ FetchSource(w)
             \/ FetchSourceFails(w) \/ NewItem(w) \/ ItemFails(w) \/ ItemSuppressed(w)
             \/ ItemsDone(w) \/ RunRaises(w) \/ ReadErrors(w)
             \/ WriteErrors(w) \/ SetPolled(w) \/ UpdateCounters(w)
             \/ ResetPolicy(w) \/ ReadPolicy(w) \/ WritePolicy(w)
             \/ ListDue(w) \/ NothingDue(w) \/ SkipTopic(w) \/ CheckTopic(w)
             \/ CreateScheduleRun(w) \/ EnqueueDone(w) \/ Start(w)
      PROVE  UNCHANGED job
  BY <1>6
     DEF SweepStale, Goto, SweepTo, StaleRuns, ClaimNothing, ListSources,
         EnabledSources, NextSource, NoMoreSources, FetchSource,
         FetchSourceFails, Fail, Report, NewItem, ItemLimit, ItemFails, ItemSuppressed,
         ItemsDone, RunRaises, Trying, Forget, ReadErrors, WriteErrors, Touched,
         SetPolled, UpdateCounters, ResetPolicy, AfterSource, BudgetSpent,
         Counter, ReadPolicy, WritePolicy, ListDue, DueSources, NothingDue,
         SkipTopic, Group, CheckTopic, CreateScheduleRun, InsertRun, NextRow,
         EnqueueDone, Start
<1>7. ASSUME NEW c \in Clients, Lookup(c)
      PROVE  UNCHANGED job
  BY <1>7 DEF Lookup
<1>8. ASSUME NEW c \in Clients, SelectSources(c)
      PROVE  UNCHANGED job
  BY <1>8 DEF SelectSources, EnabledSources, NoRequest
<1>9. ASSUME NEW c \in Clients, CreateRun(c)
      PROVE  UNCHANGED job
  BY <1>9 DEF CreateRun, InsertRun, NextRow, NoRequest
<1>10. ASSUME NEW s \in Sources, NEW on \in BOOLEAN, SetEnabled(s, on)
      PROVE  UNCHANGED job
  BY <1>10 DEF SetEnabled
<1>11. ASSUME NEW s \in Sources, CooldownExpires(s)
      PROVE  UNCHANGED job
  BY <1>11 DEF CooldownExpires
<1>12. ASSUME NEW s \in Sources, PollIntervalElapses(s)
      PROVE  UNCHANGED job
  BY <1>12 DEF PollIntervalElapses
<1>13. ASSUME NEW r \in RunIds, RunGoesIdle(r)
      PROVE  UNCHANGED job
  BY <1>13 DEF RunGoesIdle
<1>14. CASE UNCHANGED vars
  BY <1>14, <1>5 DEF vars
<1>15. QED
  BY <1>1, <1>2, <1>3, <1>4, <1>5, <1>6, <1>7, <1>8, <1>9, <1>10, <1>11, <1>12,
     <1>13, <1>14
     DEF Next, WorkerStep, ClientStep

\* A row that left the queue was claimed exactly once.
LEMMA ClaimsMatchStep ==
    TypeOK /\ JobsHeld /\ ClaimsMatch /\ [Next]_vars => ClaimsMatch'
<1> SUFFICES ASSUME TypeOK, JobsHeld, ClaimsMatch, [Next]_vars
             PROVE  ClaimsMatch'
  OBVIOUS
<1> USE RunsAssumption DEF TypeOK, runVars, sourceVars, workerVars, clientVars,
              localVars, passVars, readVars, reportVars
<1>1. ASSUME NEW w \in Workers, SweepStale(w)
      PROVE  ClaimsMatch'
  BY <1>1
     DEF SweepStale, Goto, SweepTo, StaleRuns, ClaimsMatch, JobsHeld, Busy
<1>2. ASSUME NEW w \in Workers, ClaimRun(w)
      PROVE  ClaimsMatch'
  BY <1>2
     DEF ClaimRun, Goto, Claimable, Queued, Touched, ClaimsMatch, JobsHeld, Busy
<1>3. ASSUME NEW w \in Workers, FinishRun(w)
      PROVE  ClaimsMatch'
  BY <1>3
     DEF FinishRun, Goto, EndRun, Touched, Forget, ClaimsMatch, JobsHeld, Busy
<1>4. ASSUME NEW w \in Workers, FailRun(w)
      PROVE  ClaimsMatch'
  BY <1>4
     DEF FailRun, Goto, EndRun, Touched, Forget, ClaimsMatch, JobsHeld, Busy
<1>5. ASSUME NEW w \in Workers, CreateScheduleRun(w)
      PROVE  ClaimsMatch'
  BY <1>5
     DEF CreateScheduleRun, Goto, InsertRun, NextRow, Group, ClaimsMatch,
         JobsHeld, Busy
<1>6. ASSUME NEW c \in Clients, CreateRun(c)
      PROVE  ClaimsMatch'
  BY <1>6
     DEF CreateRun, InsertRun, NextRow, NoRequest, ClaimsMatch, JobsHeld, Busy
<1>7. CASE UNCHANGED <<status, claims>>
  BY <1>7
     DEF ClaimsMatch, JobsHeld, Busy
<1>8. ASSUME NEW w \in Workers,
             \/ ClaimNothing(w) \/ ListSources(w) \/ NextSource(w)
             \/ NoMoreSources(w) \/ FetchSource(w) \/ FetchSourceFails(w)
             \/ NewItem(w) \/ ItemFails(w) \/ ItemSuppressed(w) \/ ItemsDone(w) \/ RunRaises(w)
             \/ ReadErrors(w) \/ WriteErrors(w) \/ SetPolled(w)
             \/ UpdateCounters(w) \/ ResetPolicy(w) \/ ReadPolicy(w)
             \/ WritePolicy(w) \/ ListDue(w) \/ NothingDue(w)
             \/ SkipTopic(w) \/ CheckTopic(w) \/ EnqueueDone(w) \/ Crash(w)
             \/ Start(w)
      PROVE  UNCHANGED <<status, claims>>
  BY <1>8
     DEF ClaimNothing, Goto, ListSources, EnabledSources, NextSource,
         NoMoreSources, FetchSource, FetchSourceFails, Fail, Report, NewItem,
         ItemLimit, ItemFails, ItemSuppressed, ItemsDone, RunRaises, Trying, Forget, ReadErrors,
         WriteErrors, Touched, SetPolled, UpdateCounters, ResetPolicy,
         AfterSource, BudgetSpent, Counter, ReadPolicy, WritePolicy, ListDue,
         DueSources, NothingDue, SkipTopic, Group, CheckTopic, EnqueueDone,
         Crash, Start
<1>9. ASSUME NEW c \in Clients, Lookup(c)
      PROVE  UNCHANGED <<status, claims>>
  BY <1>9 DEF Lookup
<1>10. ASSUME NEW c \in Clients, SelectSources(c)
      PROVE  UNCHANGED <<status, claims>>
  BY <1>10 DEF SelectSources, EnabledSources, NoRequest
<1>11. ASSUME NEW s \in Sources, NEW on \in BOOLEAN, SetEnabled(s, on)
      PROVE  UNCHANGED <<status, claims>>
  BY <1>11 DEF SetEnabled
<1>12. ASSUME NEW s \in Sources, CooldownExpires(s)
      PROVE  UNCHANGED <<status, claims>>
  BY <1>12 DEF CooldownExpires
<1>13. ASSUME NEW s \in Sources, PollIntervalElapses(s)
      PROVE  UNCHANGED <<status, claims>>
  BY <1>13 DEF PollIntervalElapses
<1>14. ASSUME NEW r \in RunIds, RunGoesIdle(r)
      PROVE  UNCHANGED <<status, claims>>
  BY <1>14 DEF RunGoesIdle
<1>15. CASE UNCHANGED vars
  BY <1>15, <1>7 DEF vars
<1>16. QED
  BY <1>1, <1>2, <1>3, <1>4, <1>5, <1>6, <1>7, <1>8, <1>9, <1>10, <1>11, <1>12,
     <1>13, <1>14, <1>15
     DEF Next, WorkerStep, ClientStep

\* The local count of a worker is the counter of its row.
LEMMA CountersAgreeStep ==
    TypeOK /\ JobsHeld /\ JobsDistinct /\ CountersAgree /\ [Next]_vars => CountersAgree'
<1> SUFFICES ASSUME TypeOK, JobsHeld, JobsDistinct, CountersAgree, [Next]_vars
             PROVE  CountersAgree'
  OBVIOUS
<1> USE RunsAssumption DEF TypeOK, runVars, sourceVars, workerVars, clientVars,
              localVars, passVars, readVars, reportVars
<1>1. ASSUME NEW w \in Workers, SweepStale(w)
      PROVE  CountersAgree'
  BY <1>1
     DEF SweepStale, Goto, SweepTo, StaleRuns, CountersAgree, At, JobsHeld, Busy
<1>2. ASSUME NEW w \in Workers, ClaimRun(w)
      PROVE  CountersAgree'
  BY <1>2
     DEF ClaimRun, Goto, Claimable, Queued, Touched, CountersAgree, At,
         JobsHeld, Busy
<1>3. ASSUME NEW w \in Workers, ClaimNothing(w)
      PROVE  CountersAgree'
  BY <1>3
     DEF ClaimNothing, Goto, CountersAgree, At, JobsHeld, Busy
<1>4. ASSUME NEW w \in Workers, ListSources(w)
      PROVE  CountersAgree'
  BY <1>4
     DEF ListSources, Goto, EnabledSources, CountersAgree, At, JobsHeld, Busy
<1>5. ASSUME NEW w \in Workers, NextSource(w)
      PROVE  CountersAgree'
  BY <1>5
     DEF NextSource, Goto, CountersAgree, At, JobsHeld, Busy
<1>6. ASSUME NEW w \in Workers, NoMoreSources(w)
      PROVE  CountersAgree'
  BY <1>6
     DEF NoMoreSources, Goto, CountersAgree, At, JobsHeld, Busy
<1>7. ASSUME NEW w \in Workers, FetchSource(w)
      PROVE  CountersAgree'
  BY <1>7
     DEF FetchSource, Goto, CountersAgree, At, JobsHeld, Busy
<1>8. ASSUME NEW w \in Workers, FetchSourceFails(w)
      PROVE  CountersAgree'
  BY <1>8
     DEF FetchSourceFails, Fail, Report, CountersAgree, At, JobsHeld, Busy
<1>9. ASSUME NEW w \in Workers, ItemFails(w) \/ ItemSuppressed(w)
      PROVE  CountersAgree'
  BY <1>9
     DEF ItemFails, ItemSuppressed, Fail, Report, CountersAgree, At, JobsHeld, Busy
<1>10. ASSUME NEW w \in Workers, ItemsDone(w)
      PROVE  CountersAgree'
  BY <1>10
     DEF ItemsDone, Goto, CountersAgree, At, JobsHeld, Busy
<1>11. ASSUME NEW w \in Workers, RunRaises(w)
      PROVE  CountersAgree'
  BY <1>11
     DEF RunRaises, Trying, Report, Forget, CountersAgree, At, JobsHeld, Busy
<1>12. ASSUME NEW w \in Workers, ReadErrors(w)
      PROVE  CountersAgree'
  BY <1>12
     DEF ReadErrors, Goto, CountersAgree, At, JobsHeld, Busy
<1>13. ASSUME NEW w \in Workers, WriteErrors(w)
      PROVE  CountersAgree'
  BY <1>13
     DEF WriteErrors, Goto, Touched, CountersAgree, At, JobsHeld, Busy
<1>14. ASSUME NEW w \in Workers, SetPolled(w)
      PROVE  CountersAgree'
  BY <1>14
     DEF SetPolled, Goto, CountersAgree, At, JobsHeld, Busy
<1>15. ASSUME NEW w \in Workers, UpdateCounters(w)
      PROVE  CountersAgree'
  <2>1. /\ job[w] \in RunIds /\ pc[w] = "count" /\ runNew[w] = newItems[job[w]]
        /\ status[job[w]] \in {"running", "failed"}
    BY <1>15 DEF UpdateCounters, Goto, JobsHeld, Busy, CountersAgree, At
  <2>2. /\ newItems'[job[w]] = newItems[job[w]] + new[w]
        /\ runNew'[w] = runNew[w] + new[w]
        /\ pc'[w] \in {"polread", "reset"}
        /\ UNCHANGED <<status, job, ret>>
    BY <1>15, <2>1 DEF UpdateCounters, Goto
  <2>3. \A r \in RunIds : r # job[w] => newItems'[r] = newItems[r]
    BY <1>15, <2>1 DEF UpdateCounters
  <2>4. ASSUME NEW v \in Workers, v # w
        PROVE  /\ pc'[v] = pc[v] /\ runNew'[v] = runNew[v]
               /\ job[v] # NoRun => newItems'[job[v]] = newItems[job[v]]
    BY <1>15, <2>1, <2>3, <2>4 DEF UpdateCounters, Goto, JobsDistinct
  <2>5. ASSUME NEW v \in Workers, v # w
        PROVE  At(v)' = At(v)
    BY <2>2, <2>4, <2>5 DEF At
  <2>6. At(w)' = pc'[w]
    BY <2>2 DEF At
  <2>7. ASSUME NEW v \in Workers, v # w
        PROVE  /\ At(v)' = "list" => newItems'[job'[v]] = 0
               /\ At(v)' \in {"next", "fetch", "items", "polled", "count", "reset",
                              "polread", "polwrite"} => runNew'[v] = newItems'[job'[v]]
    BY <2>2, <2>4, <2>5, <2>7 DEF CountersAgree, JobsHeld, Busy, At
  <2>8. \A r \in RunIds : status'[r] \in {"absent", "queued"} => newItems'[r] = 0
    BY <2>1, <2>2, <2>3 DEF CountersAgree
  <2>. QED
    BY <2>1, <2>2, <2>6, <2>7, <2>8 DEF CountersAgree
<1>16. ASSUME NEW w \in Workers, ResetPolicy(w)
      PROVE  CountersAgree'
  BY <1>16
     DEF ResetPolicy, AfterSource, BudgetSpent, Counter, Report, CountersAgree,
         At, JobsHeld, Busy
<1>17. ASSUME NEW w \in Workers, ReadPolicy(w)
      PROVE  CountersAgree'
  BY <1>17
     DEF ReadPolicy, Goto, CountersAgree, At, JobsHeld, Busy
<1>18. ASSUME NEW w \in Workers, WritePolicy(w)
      PROVE  CountersAgree'
  BY <1>18
     DEF WritePolicy, AfterSource, BudgetSpent, Counter, Report, CountersAgree,
         At, JobsHeld, Busy
<1>19. ASSUME NEW w \in Workers, FinishRun(w)
      PROVE  CountersAgree'
  BY <1>19
     DEF FinishRun, Goto, EndRun, Touched, Forget, CountersAgree, At, JobsHeld,
         Busy
<1>20. ASSUME NEW w \in Workers, FailRun(w)
      PROVE  CountersAgree'
  BY <1>20
     DEF FailRun, Goto, EndRun, Touched, Forget, CountersAgree, At, JobsHeld,
         Busy
<1>21. ASSUME NEW w \in Workers, ListDue(w)
      PROVE  CountersAgree'
  BY <1>21
     DEF ListDue, Goto, DueSources, CountersAgree, At, JobsHeld, Busy
<1>22. ASSUME NEW w \in Workers, NothingDue(w)
      PROVE  CountersAgree'
  BY <1>22
     DEF NothingDue, Goto, CountersAgree, At, JobsHeld, Busy
<1>23. ASSUME NEW w \in Workers, CheckTopic(w)
      PROVE  CountersAgree'
  BY <1>23
     DEF CheckTopic, Goto, Group, CountersAgree, At, JobsHeld, Busy
<1>24. ASSUME NEW w \in Workers, CreateScheduleRun(w)
      PROVE  CountersAgree'
  BY <1>24
     DEF CreateScheduleRun, Goto, InsertRun, NextRow, Group, CountersAgree, At,
         JobsHeld, Busy
<1>25. ASSUME NEW w \in Workers, EnqueueDone(w)
      PROVE  CountersAgree'
  BY <1>25
     DEF EnqueueDone, Goto, CountersAgree, At, JobsHeld, Busy
<1>26. ASSUME NEW w \in Workers, Crash(w)
      PROVE  CountersAgree'
  BY <1>26
     DEF Crash, Forget, CountersAgree, At, JobsHeld, Busy
<1>27. ASSUME NEW w \in Workers, Start(w)
      PROVE  CountersAgree'
  BY <1>27
     DEF Start, CountersAgree, At, JobsHeld, Busy
<1>28. ASSUME NEW c \in Clients, CreateRun(c)
      PROVE  CountersAgree'
  BY <1>28
     DEF CreateRun, InsertRun, NextRow, NoRequest, CountersAgree, At, JobsHeld,
         Busy
<1>29. CASE UNCHANGED <<pc, job, status, ret, newItems, runNew>>
  BY <1>29
     DEF CountersAgree, At, JobsHeld, Busy
<1>30. ASSUME NEW w \in Workers,
             \/ NewItem(w) \/ SkipTopic(w)
      PROVE  UNCHANGED <<pc, job, status, ret, newItems, runNew>>
  BY <1>30
     DEF NewItem, ItemLimit, SkipTopic, Group
<1>31. ASSUME NEW c \in Clients, Lookup(c)
      PROVE  UNCHANGED <<pc, job, status, ret, newItems, runNew>>
  BY <1>31 DEF Lookup
<1>32. ASSUME NEW c \in Clients, SelectSources(c)
      PROVE  UNCHANGED <<pc, job, status, ret, newItems, runNew>>
  BY <1>32 DEF SelectSources, EnabledSources, NoRequest
<1>33. ASSUME NEW s \in Sources, NEW on \in BOOLEAN, SetEnabled(s, on)
      PROVE  UNCHANGED <<pc, job, status, ret, newItems, runNew>>
  BY <1>33 DEF SetEnabled
<1>34. ASSUME NEW s \in Sources, CooldownExpires(s)
      PROVE  UNCHANGED <<pc, job, status, ret, newItems, runNew>>
  BY <1>34 DEF CooldownExpires
<1>35. ASSUME NEW s \in Sources, PollIntervalElapses(s)
      PROVE  UNCHANGED <<pc, job, status, ret, newItems, runNew>>
  BY <1>35 DEF PollIntervalElapses
<1>36. ASSUME NEW r \in RunIds, RunGoesIdle(r)
      PROVE  UNCHANGED <<pc, job, status, ret, newItems, runNew>>
  BY <1>36 DEF RunGoesIdle
<1>37. CASE UNCHANGED vars
  BY <1>37, <1>29 DEF vars
<1>38. QED
  BY <1>1, <1>2, <1>3, <1>4, <1>5, <1>6, <1>7, <1>8, <1>9, <1>10, <1>11, <1>12,
     <1>13, <1>14, <1>15, <1>16, <1>17, <1>18, <1>19, <1>20, <1>21, <1>22,
     <1>23, <1>24, <1>25, <1>26, <1>27, <1>28, <1>29, <1>30, <1>31, <1>32,
     <1>33, <1>34, <1>35, <1>36, <1>37
     DEF Next, WorkerStep, ClientStep

\* The budget holds across the sources of a run and inside a source.
LEMMA BudgetKeptStep ==
    TypeOK /\ JobsHeld /\ CountersAgree /\ BudgetKept /\ [Next]_vars => BudgetKept'
<1> SUFFICES ASSUME TypeOK, JobsHeld, CountersAgree, BudgetKept, [Next]_vars
             PROVE  BudgetKept'
  OBVIOUS
<1> USE RunsAssumption DEF TypeOK, runVars, sourceVars, workerVars, clientVars,
              localVars, passVars, readVars, reportVars
<1>1. ASSUME NEW w \in Workers, SweepStale(w)
      PROVE  BudgetKept'
  BY <1>1
     DEF SweepStale, Goto, SweepTo, StaleRuns, BudgetKept, CountersAgree, At,
         JobsHeld, Busy
<1>2. ASSUME NEW w \in Workers, ClaimRun(w)
      PROVE  BudgetKept'
  <2>1. PICK r \in RunIds :
           /\ Goto(w, "claim", "list")
           /\ status[r] = "queued"
           /\ status' = [status EXCEPT ![r] = "running"]
           /\ job' = [job EXCEPT ![w] = r]
    BY <1>2 DEF ClaimRun, Claimable, Queued
  <2>2. UNCHANGED <<newItems, ret, runNew, new>>
    BY <1>2 DEF ClaimRun, Claimable, Queued
  <2>3. At(w)' = "list" /\ \A v \in Workers : v # w => At(v)' = At(v)
    BY <2>1, <2>2 DEF At, Goto
  <2>4. Budget > 0 => new[w] = 0
    BY <2>1 DEF At, Goto, BudgetKept
  <2>. QED
    BY <2>2, <2>3, <2>4 DEF BudgetKept
<1>3. ASSUME NEW w \in Workers, ClaimNothing(w)
      PROVE  BudgetKept'
  BY <1>3
     DEF ClaimNothing, Goto, BudgetKept, CountersAgree, At, JobsHeld, Busy
<1>4. ASSUME NEW w \in Workers, ListSources(w)
      PROVE  BudgetKept'
  BY <1>4
     DEF ListSources, Goto, EnabledSources, BudgetKept, CountersAgree, At,
         JobsHeld, Busy
<1>5. ASSUME NEW w \in Workers, NextSource(w)
      PROVE  BudgetKept'
  BY <1>5
     DEF NextSource, Goto, BudgetKept, CountersAgree, At, JobsHeld, Busy
<1>6. ASSUME NEW w \in Workers, NoMoreSources(w)
      PROVE  BudgetKept'
  BY <1>6
     DEF NoMoreSources, Goto, BudgetKept, CountersAgree, At, JobsHeld, Busy
<1>7. ASSUME NEW w \in Workers, FetchSource(w)
      PROVE  BudgetKept'
  BY <1>7
     DEF FetchSource, Goto, BudgetKept, CountersAgree, At, JobsHeld, Busy
<1>8. ASSUME NEW w \in Workers, FetchSourceFails(w)
      PROVE  BudgetKept'
  BY <1>8
     DEF FetchSourceFails, Fail, Report, BudgetKept, CountersAgree, At,
         JobsHeld, Busy
<1>9. ASSUME NEW w \in Workers, NewItem(w)
      PROVE  BudgetKept'
  BY <1>9
     DEF NewItem, ItemLimit, BudgetKept, CountersAgree, At, JobsHeld, Busy
<1>10. ASSUME NEW w \in Workers, ItemFails(w) \/ ItemSuppressed(w)
      PROVE  BudgetKept'
  BY <1>10
     DEF ItemFails, ItemSuppressed, Fail, Report, BudgetKept, CountersAgree, At, JobsHeld, Busy
<1>11. ASSUME NEW w \in Workers, ItemsDone(w)
      PROVE  BudgetKept'
  BY <1>11
     DEF ItemsDone, Goto, BudgetKept, CountersAgree, At, JobsHeld, Busy
<1>12. ASSUME NEW w \in Workers, RunRaises(w)
      PROVE  BudgetKept'
  BY <1>12
     DEF RunRaises, Trying, Report, Forget, BudgetKept, CountersAgree, At,
         JobsHeld, Busy
<1>13. ASSUME NEW w \in Workers, ReadErrors(w)
      PROVE  BudgetKept'
  BY <1>13
     DEF ReadErrors, Goto, BudgetKept, CountersAgree, At, JobsHeld, Busy
<1>14. ASSUME NEW w \in Workers, WriteErrors(w)
      PROVE  BudgetKept'
  BY <1>14
     DEF WriteErrors, Goto, Touched, BudgetKept, CountersAgree, At, JobsHeld,
         Busy
<1>15. ASSUME NEW w \in Workers, SetPolled(w)
      PROVE  BudgetKept'
  BY <1>15
     DEF SetPolled, Goto, BudgetKept, CountersAgree, At, JobsHeld, Busy
<1>16. ASSUME NEW w \in Workers, UpdateCounters(w)
      PROVE  BudgetKept'
  BY <1>16
     DEF UpdateCounters, Goto, Touched, BudgetKept, CountersAgree, At, JobsHeld,
         Busy
<1>17. ASSUME NEW w \in Workers, ResetPolicy(w)
      PROVE  BudgetKept'
  BY <1>17
     DEF ResetPolicy, AfterSource, BudgetSpent, Counter, Report, BudgetKept,
         CountersAgree, At, JobsHeld, Busy
<1>18. ASSUME NEW w \in Workers, ReadPolicy(w)
      PROVE  BudgetKept'
  BY <1>18
     DEF ReadPolicy, Goto, BudgetKept, CountersAgree, At, JobsHeld, Busy
<1>19. ASSUME NEW w \in Workers, WritePolicy(w)
      PROVE  BudgetKept'
  BY <1>19
     DEF WritePolicy, AfterSource, BudgetSpent, Counter, Report, BudgetKept,
         CountersAgree, At, JobsHeld, Busy
<1>20. ASSUME NEW w \in Workers, FinishRun(w)
      PROVE  BudgetKept'
  BY <1>20
     DEF FinishRun, Goto, EndRun, Touched, Forget, BudgetKept, CountersAgree,
         At, JobsHeld, Busy
<1>21. ASSUME NEW w \in Workers, FailRun(w)
      PROVE  BudgetKept'
  BY <1>21
     DEF FailRun, Goto, EndRun, Touched, Forget, BudgetKept, CountersAgree, At,
         JobsHeld, Busy
<1>22. ASSUME NEW w \in Workers, ListDue(w)
      PROVE  BudgetKept'
  BY <1>22
     DEF ListDue, Goto, DueSources, BudgetKept, CountersAgree, At, JobsHeld,
         Busy
<1>23. ASSUME NEW w \in Workers, NothingDue(w)
      PROVE  BudgetKept'
  BY <1>23
     DEF NothingDue, Goto, BudgetKept, CountersAgree, At, JobsHeld, Busy
<1>24. ASSUME NEW w \in Workers, CheckTopic(w)
      PROVE  BudgetKept'
  BY <1>24
     DEF CheckTopic, Goto, Group, BudgetKept, CountersAgree, At, JobsHeld, Busy
<1>25. ASSUME NEW w \in Workers, CreateScheduleRun(w)
      PROVE  BudgetKept'
  BY <1>25
     DEF CreateScheduleRun, Goto, InsertRun, NextRow, Group, BudgetKept,
         CountersAgree, At, JobsHeld, Busy
<1>26. ASSUME NEW w \in Workers, EnqueueDone(w)
      PROVE  BudgetKept'
  BY <1>26
     DEF EnqueueDone, Goto, BudgetKept, CountersAgree, At, JobsHeld, Busy
<1>27. ASSUME NEW w \in Workers, Crash(w)
      PROVE  BudgetKept'
  BY <1>27
     DEF Crash, Forget, BudgetKept, CountersAgree, At, JobsHeld, Busy
<1>28. ASSUME NEW w \in Workers, Start(w)
      PROVE  BudgetKept'
  BY <1>28
     DEF Start, BudgetKept, CountersAgree, At, JobsHeld, Busy
<1>29. ASSUME NEW c \in Clients, CreateRun(c)
      PROVE  BudgetKept'
  BY <1>29
     DEF CreateRun, InsertRun, NextRow, NoRequest, BudgetKept, CountersAgree,
         At, JobsHeld, Busy
<1>30. CASE UNCHANGED <<pc, ret, newItems, runNew, new>>
  BY <1>30
     DEF BudgetKept, CountersAgree, At, JobsHeld, Busy
<1>31. ASSUME NEW w \in Workers,
             \/ SkipTopic(w)
      PROVE  UNCHANGED <<pc, ret, newItems, runNew, new>>
  BY <1>31
     DEF SkipTopic, Group
<1>32. ASSUME NEW c \in Clients, Lookup(c)
      PROVE  UNCHANGED <<pc, ret, newItems, runNew, new>>
  BY <1>32 DEF Lookup
<1>33. ASSUME NEW c \in Clients, SelectSources(c)
      PROVE  UNCHANGED <<pc, ret, newItems, runNew, new>>
  BY <1>33 DEF SelectSources, EnabledSources, NoRequest
<1>34. ASSUME NEW s \in Sources, NEW on \in BOOLEAN, SetEnabled(s, on)
      PROVE  UNCHANGED <<pc, ret, newItems, runNew, new>>
  BY <1>34 DEF SetEnabled
<1>35. ASSUME NEW s \in Sources, CooldownExpires(s)
      PROVE  UNCHANGED <<pc, ret, newItems, runNew, new>>
  BY <1>35 DEF CooldownExpires
<1>36. ASSUME NEW s \in Sources, PollIntervalElapses(s)
      PROVE  UNCHANGED <<pc, ret, newItems, runNew, new>>
  BY <1>36 DEF PollIntervalElapses
<1>37. ASSUME NEW r \in RunIds, RunGoesIdle(r)
      PROVE  UNCHANGED <<pc, ret, newItems, runNew, new>>
  BY <1>37 DEF RunGoesIdle
<1>38. CASE UNCHANGED vars
  BY <1>38, <1>30 DEF vars
<1>39. QED
  BY <1>1, <1>2, <1>3, <1>4, <1>5, <1>6, <1>7, <1>8, <1>9, <1>10, <1>11, <1>12,
     <1>13, <1>14, <1>15, <1>16, <1>17, <1>18, <1>19, <1>20, <1>21, <1>22,
     <1>23, <1>24, <1>25, <1>26, <1>27, <1>28, <1>29, <1>30, <1>31, <1>32,
     <1>33, <1>34, <1>35, <1>36, <1>37, <1>38
     DEF Next, WorkerStep, ClientStep

\* No report of an exhausted budget is lost on the way to the verdict: the row
\* of an unfinished run belongs to the one worker that holds it.
LEMMA BudgetToldStep ==
    IInv /\ [Next]_vars => BudgetTold'
<1> SUFFICES ASSUME TypeOK, JobsHeld, JobsDistinct, CountersAgree, BudgetKept,
                    BudgetTold, [Next]_vars
             PROVE  BudgetTold'
  BY DEF IInv
<1> USE RunsAssumption DEF TypeOK, runVars, sourceVars, workerVars, clientVars,
              localVars, passVars, readVars, reportVars
<1>1. ASSUME NEW w \in Workers, SweepStale(w)
      PROVE  BudgetTold'
  <2>1. /\ status' = [r \in RunIds |-> IF r \in StaleRuns THEN "failed" ELSE status[r]]
        /\ \A r \in RunIds : errors[r] \subseteq errors'[r]
        /\ pc' = [pc EXCEPT ![w] = "claim"]
        /\ UNCHANGED <<newItems, job, msg, ret>>
    BY <1>1 DEF SweepStale, SweepTo, Goto
  <2>. QED
    BY <2>1 DEF BudgetTold, BudgetReported, Exhausted, JobsHeld, Busy
<1>2. ASSUME NEW w \in Workers, ClaimRun(w)
      PROVE  BudgetTold'
  <2>1. PICK r \in RunIds :
           /\ pc' = [pc EXCEPT ![w] = "list"]
           /\ status' = [status EXCEPT ![r] = "running"]
           /\ job' = [job EXCEPT ![w] = r]
           /\ UNCHANGED <<newItems, errors, msg, ret>>
    BY <1>2 DEF ClaimRun, Claimable, Queued, Goto
  <2>. QED
    BY <2>1 DEF BudgetTold, BudgetReported, Exhausted
<1>3. ASSUME NEW w \in Workers, FetchSourceFails(w) \/ ItemFails(w) \/ ItemSuppressed(w)
      PROVE  BudgetTold'
  BY <1>3 DEF FetchSourceFails, ItemFails, ItemSuppressed, Fail, Report, BudgetTold, BudgetReported,
              Exhausted
<1>4. ASSUME NEW w \in Workers, RunRaises(w) \/ Crash(w)
      PROVE  BudgetTold'
  BY <1>4 DEF RunRaises, Crash, Report, Forget, BudgetTold, BudgetReported, Exhausted
<1>5. ASSUME NEW w \in Workers, ReadErrors(w)
      PROVE  BudgetTold'
  BY <1>5 DEF ReadErrors, Goto, BudgetTold, BudgetReported, Exhausted
<1>6. ASSUME NEW w \in Workers, WriteErrors(w)
      PROVE  BudgetTold'
  <2>1. /\ pc[w] = "errwrite"
        /\ pc' = [pc EXCEPT ![w] = ret[w]]
        /\ errors' = [errors EXCEPT ![job[w]] = errs[w] \cup {msg[w]}]
        /\ msg' = [msg EXCEPT ![w] = "source"]
        /\ ret' = [ret EXCEPT ![w] = "next"]
        /\ UNCHANGED <<status, newItems, job>>
    BY <1>6 DEF WriteErrors, Goto
  <2>2. job[w] \in RunIds /\ job[w] # NoRun /\ status[job[w]] # "completed"
    BY <2>1 DEF JobsHeld, Busy
  <2>3. ret[w] = "finish" => "budget" \in errors'[job[w]]
    BY <2>1, <2>2 DEF BudgetTold
  <2>4. \A r \in RunIds : r # job[w] => errors'[r] = errors[r]
    BY <2>1
  <2>5. \A v \in Workers : v # w => job[v] # job[w] /\ pc'[v] = pc[v]
    BY <2>1, <2>2 DEF JobsDistinct
  <2>6. \A v \in Workers : pc[v] = "finish" => job[v] \in RunIds
    BY DEF JobsHeld, Busy
  <2>7. ret[w] \notin {"errread", "errwrite"} /\ pc'[w] = ret[w]
    BY <2>1
  <2>. QED
    BY <2>1, <2>2, <2>3, <2>4, <2>5, <2>6, <2>7 DEF BudgetTold, BudgetReported, Exhausted
<1>7. ASSUME NEW w \in Workers, UpdateCounters(w)
      PROVE  BudgetTold'
  <2>1. /\ pc[w] = "count"
        /\ pc' = [pc EXCEPT ![w] = IF failed[w] THEN "polread" ELSE "reset"]
        /\ newItems' = [newItems EXCEPT ![job[w]] = @ + new[w]]
        /\ UNCHANGED <<status, errors, job, msg, ret>>
    BY <1>7 DEF UpdateCounters, Goto
  <2>2. job[w] \in RunIds /\ job[w] # NoRun /\ status[job[w]] # "completed"
    BY <2>1 DEF JobsHeld, Busy
  <2>3. \A r \in RunIds : r # job[w] => newItems'[r] = newItems[r]
    BY <2>1
  <2>4. \A v \in Workers : v # w => job[v] # job[w] /\ pc'[v] = pc[v]
    BY <2>1, <2>2 DEF JobsDistinct
  <2>5. \A v \in Workers : pc[v] = "finish" => job[v] \in RunIds
    BY DEF JobsHeld, Busy
  <2>. QED
    BY <2>1, <2>2, <2>3, <2>4, <2>5 DEF BudgetTold, BudgetReported, Exhausted
<1>8. ASSUME NEW w \in Workers, ResetPolicy(w) \/ WritePolicy(w)
      PROVE  BudgetTold'
  <2>1. /\ AfterSource(w)
        /\ UNCHANGED <<status, newItems, errors, job>>
    BY <1>8 DEF ResetPolicy, WritePolicy
  <2>. QED
    BY <2>1 DEF AfterSource, Report, BudgetTold, BudgetReported, Exhausted
<1>9. ASSUME NEW w \in Workers, NoMoreSources(w)
      PROVE  BudgetTold'
  <2>1. /\ pc[w] = "next"
        /\ pc' = [pc EXCEPT ![w] = "finish"]
        /\ UNCHANGED <<status, newItems, errors, job, msg, ret>>
    BY <1>9 DEF NoMoreSources, Goto
  <2>2. runNew[w] = newItems[job[w]]
    BY <2>1 DEF CountersAgree, At
  <2>3. Budget > 0 => runNew[w] < Budget
    BY <2>1 DEF BudgetKept, At
  <2>4. runNew[w] \in Nat /\ Budget \in Nat
    OBVIOUS
  <2>5. ~Exhausted(job[w])
    BY <2>2, <2>3, <2>4 DEF Exhausted
  <2>. QED
    BY <2>1, <2>5 DEF BudgetTold, BudgetReported, Exhausted
<1>10. ASSUME NEW w \in Workers, FinishRun(w)
       PROVE  BudgetTold'
  <2>1. /\ pc[w] = "finish"
        /\ pc' = [pc EXCEPT ![w] = IF w \in Daemons THEN "top" ELSE "exit"]
        /\ status' = [status EXCEPT ![job[w]] = "completed"]
        /\ job' = [job EXCEPT ![w] = NoRun]
        /\ UNCHANGED <<newItems, errors, msg, ret>>
    BY <1>10 DEF FinishRun, EndRun, Goto
  <2>. QED
    BY <2>1 DEF BudgetTold, BudgetReported, Exhausted
<1>11. ASSUME NEW w \in Workers, FailRun(w)
       PROVE  BudgetTold'
  BY <1>11 DEF FailRun, EndRun, Goto, BudgetTold, BudgetReported, Exhausted
<1>12. ASSUME NEW r \in RunIds, NEW req, InsertRun(r, req), UNCHANGED <<job, msg, ret>>,
              \A w \in Workers : pc'[w] = pc[w] \/ pc'[w] = "enqueue"
       PROVE  BudgetTold'
  BY <1>12 DEF InsertRun, BudgetTold, BudgetReported, Exhausted
<1>13. ASSUME NEW w \in Workers, CreateScheduleRun(w)
       PROVE  BudgetTold'
  BY <1>12, <1>13 DEF CreateScheduleRun, Goto
<1>14. ASSUME NEW c \in Clients, CreateRun(c)
       PROVE  BudgetTold'
  BY <1>12, <1>14 DEF CreateRun
<1>15. CASE /\ UNCHANGED <<status, newItems, errors, job, msg, ret>>
            /\ \A w \in Workers : \/ pc'[w] = pc[w]
                                  \/ pc'[w] \notin {"errread", "errwrite", "finish"}
  BY <1>15 DEF BudgetTold, BudgetReported, Exhausted
<1>16. ASSUME NEW w \in Workers,
              \/ ClaimNothing(w) \/ ListSources(w) \/ NextSource(w) \/ FetchSource(w)
              \/ NewItem(w) \/ ItemsDone(w) \/ SetPolled(w) \/ ReadPolicy(w)
              \/ ListDue(w) \/ NothingDue(w) \/ SkipTopic(w) \/ CheckTopic(w)
              \/ EnqueueDone(w) \/ Start(w)
       PROVE  BudgetTold'
  <2>1. UNCHANGED <<status, newItems, errors, job, msg, ret>>
    BY <1>16 DEF ClaimNothing, ListSources, NextSource, FetchSource, NewItem, ItemsDone,
                 SetPolled, ReadPolicy, ListDue, NothingDue, SkipTopic, CheckTopic,
                 EnqueueDone, Start
  <2>2. \A v \in Workers : \/ pc'[v] = pc[v]
                           \/ pc'[v] \notin {"errread", "errwrite", "finish"}
    BY <1>16 DEF ClaimNothing, ListSources, NextSource, FetchSource, NewItem, ItemsDone,
                 SetPolled, ReadPolicy, ListDue, NothingDue, SkipTopic, CheckTopic,
                 EnqueueDone, Start, Goto
  <2>. QED
    BY <1>15, <2>1, <2>2
<1>17. ASSUME NEW c \in Clients, Lookup(c) \/ SelectSources(c)
       PROVE  BudgetTold'
  BY <1>15, <1>17 DEF Lookup, SelectSources
<1>18. ASSUME NEW s \in Sources,
              \/ SetEnabled(s, TRUE) \/ SetEnabled(s, FALSE)
              \/ CooldownExpires(s) \/ PollIntervalElapses(s)
       PROVE  BudgetTold'
  BY <1>15, <1>18 DEF SetEnabled, CooldownExpires, PollIntervalElapses
<1>19. ASSUME NEW r \in RunIds, RunGoesIdle(r)
       PROVE  BudgetTold'
  BY <1>15, <1>19 DEF RunGoesIdle
<1>20. CASE UNCHANGED vars
  BY <1>15, <1>20 DEF vars
<1>. QED
  BY <1>1, <1>2, <1>3, <1>4, <1>5, <1>6, <1>7, <1>8, <1>9, <1>10, <1>11, <1>13,
     <1>14, <1>16, <1>17, <1>18, <1>19, <1>20
     DEF Next, WorkerStep, ClientStep

-----------------------------------------------------------------------------

\* The empty queue has the invariant.
LEMMA InitIInv == Init => IInv
<1> SUFFICES ASSUME Init
             PROVE  IInv
  OBVIOUS
<1> USE RunsAssumption
<1>1. TypeOK
  <2>1. PICK t \in Topics :
           /\ request = [r \in RunIds |-> NoRequest(t)]
           /\ creq = [c \in Clients |-> NoRequest(t)]
    BY DEF Init
  <2>2. NoRequest(t) \in Request
    BY DEF NoRequest, Request, Triggers
  <2>. QED
    BY <2>1, <2>2 DEF Init, TypeOK, Statuses, ErrorKinds, PCs
<1>2. JobsHeld
  BY DEF Init, JobsHeld, Busy
<1>3. InHand
  BY DEF Init, InHand, At
<1>4. JobsDistinct /\ ClaimsMatch
  BY DEF Init, JobsDistinct, ClaimsMatch
<1>5. CountersAgree
  BY DEF Init, CountersAgree, At
<1>6. BudgetKept
  BY DEF Init, BudgetKept, At
<1>7. BudgetTold
  BY DEF Init, BudgetTold, BudgetReported
<1>. QED
  BY <1>1, <1>2, <1>3, <1>4, <1>5, <1>6, <1>7 DEF IInv

\* Every step keeps it, part by part.
LEMMA StepIInv == IInv /\ [Next]_vars => IInv'
  BY TypeStep, JobsHeldStep, InHandStep, JobsDistinctStep, ClaimsMatchStep,
     CountersAgreeStep, BudgetKeptStep, BudgetToldStep DEF IInv

\* The inductive invariant holds in every reachable state.
THEOREM Invariance == Spec => []IInv
<1>1. Init => IInv
  BY InitIInv
<1>2. IInv /\ [Next]_vars => IInv'
  BY StepIInv
<1>. QED
  BY <1>1, <1>2, PTL DEF Spec

\* Every variable keeps its type, the column a worker reads through its claimed
\* row and through the source in hand included.
THEOREM TypeCorrect == Spec => []TypeOK
<1>1. IInv => TypeOK
  BY DEF IInv
<1>. QED
  BY <1>1, Invariance, PTL

\* claim_next_research_ingestion_run hands out each row at most once, for any
\* number of workers, sweeps, crashes and restarts.
THEOREM ClaimedAtMostOnce == Spec => []ClaimedOnce
<1>1. IInv => ClaimedOnce
  BY DEF IInv, TypeOK, ClaimsMatch, ClaimedOnce
<1>. QED
  BY <1>1, Invariance, PTL

\* process_run and _process_source together keep a run within
\* RESEARCH_RUN_MAX_NEW_ITEMS, for any number of sources and workers.
THEOREM BudgetIsRespected == Spec => []BudgetRespected
<1>1. IInv => BudgetRespected
  BY DEF IInv, BudgetKept, BudgetRespected, At
<1>. QED
  BY <1>1, Invariance, PTL

\* A completed run that used its whole budget says so, for any number of workers
\* and sweeps, although append_research_run_error writes back the list it read
\* in an earlier transaction.
THEOREM BudgetIsReported == Spec => []BudgetReported
<1>1. IInv => BudgetReported
  BY DEF IInv, BudgetTold
<1>. QED
  BY <1>1, Invariance, PTL

-----------------------------------------------------------------------------

\* The job of one worker changes: only the rows it held and holds are affected.
LEMMA LiveAfter ==
    ASSUME NEW w \in Workers, NEW j \in RunIds \cup {NoRun}, TypeOK, JobsDistinct,
           job' = [job EXCEPT ![w] = j]
    PROVE  \A r \in RunIds : r \in Live' <=> r = j \/ (r # job[w] /\ r \in Live)
<1> SUFFICES ASSUME NEW r \in RunIds
             PROVE  (\E v \in Workers : job'[v] = r) <=>
                        r = j \/ (r # job[w] /\ \E v \in Workers : job[v] = r)
  BY DEF Live
<1>1. job \in [Workers -> RunIds \cup {NoRun}] /\ r # NoRun
  BY RunsAssumption DEF TypeOK, RunIds
<1>. QED
  BY <1>1 DEF JobsDistinct

\* Every step of the workers and clients is a step of RunLifecycle or leaves the
\* rows and their workers alone.
LEMMA LifecycleStep ==
    IInv /\ [Next]_vars => [Lifecycle!Next]_<<status, Live>>
<1> SUFFICES ASSUME TypeOK, JobsHeld, JobsDistinct, [Next]_vars
             PROVE  [Lifecycle!Next]_<<status, Live>>
  BY DEF IInv
<1> USE RunsAssumption
<1>1. status \in [RunIds -> Statuses] /\ job \in [Workers -> RunIds \cup {NoRun}]
  BY DEF TypeOK
<1>2. CASE UNCHANGED <<status, job>>
  BY <1>2 DEF Live
<1>3. ASSUME NEW w \in Workers, SweepStale(w)
      PROVE  Lifecycle!GiveUp(StaleRuns)
  BY <1>3 DEF SweepStale, SweepTo, StaleRuns, Lifecycle!GiveUp, Live
<1>4. ASSUME NEW w \in Workers, ClaimRun(w)
      PROVE  \E r \in RunIds : Lifecycle!Take(r)
  <2>1. PICK r \in RunIds : /\ pc[w] = "claim"
                            /\ status[r] = "queued"
                            /\ status' = [status EXCEPT ![r] = "running"]
                            /\ job' = [job EXCEPT ![w] = r]
    BY <1>4 DEF ClaimRun, Claimable, Queued, Goto
  <2>2. job[w] = NoRun
    BY <2>1 DEF JobsHeld, Busy
  <2>3. \A q \in RunIds : q \in Live' <=> q = r \/ q \in Live
    BY <2>1, <2>2, LiveAfter DEF RunIds
  <2>4. Live' = Live \cup {r}
    BY <2>3 DEF Live
  <2>. QED
    BY <2>1, <2>4 DEF Lifecycle!Take
<1>5. ASSUME NEW w \in Workers, NEW from \in Busy, NEW final \in Finished,
             EndRun(w, from, final)
      PROVE  \E r \in RunIds : Lifecycle!Judge(r, final)
  <2>1. /\ job[w] \in RunIds
        /\ status[job[w]] \in {"running", "failed"}
        /\ status' = [status EXCEPT ![job[w]] = final]
        /\ job' = [job EXCEPT ![w] = NoRun]
    BY <1>1, <1>5 DEF EndRun, Goto, JobsHeld
  <2>2. job[w] \in Live
    BY <2>1 DEF Live
  <2>3. \A q \in RunIds : q \in Live' <=> q # job[w] /\ q \in Live
    BY <2>1, LiveAfter DEF RunIds
  <2>4. Live' = Live \ {job[w]}
    BY <2>3 DEF Live
  <2>. QED
    BY <2>1, <2>2, <2>4 DEF Lifecycle!Judge
<1>6. ASSUME NEW w \in Workers, Crash(w)
      PROVE  UNCHANGED <<status, Live>> \/ \E r \in RunIds : Lifecycle!Abandon(r)
  <2>1. status' = status /\ job' = [job EXCEPT ![w] = NoRun]
    BY <1>6 DEF Crash, runVars
  <2>2. CASE job[w] = NoRun
    BY <1>1, <2>1, <2>2 DEF Live
  <2>3. CASE job[w] # NoRun
    <3>1. job[w] \in RunIds /\ job[w] \in Live
      BY <1>1, <2>3 DEF Live
    <3>2. \A q \in RunIds : q \in Live' <=> q # job[w] /\ q \in Live
      BY <2>1, LiveAfter DEF RunIds
    <3>3. Live' = Live \ {job[w]}
      BY <3>2 DEF Live
    <3>. QED
      BY <2>1, <3>1, <3>3 DEF Lifecycle!Abandon
  <2>. QED
    BY <2>2, <2>3
<1>7. ASSUME NEW r \in RunIds, NEW req, InsertRun(r, req), UNCHANGED job
      PROVE  Lifecycle!Submit(r)
  BY <1>7 DEF InsertRun, NextRow, Lifecycle!Submit, Live
<1>8. ASSUME NEW w \in Workers,
             \/ ClaimNothing(w) \/ ListSources(w) \/ NextSource(w)
             \/ NoMoreSources(w) \/ FetchSource(w) \/ FetchSourceFails(w)
             \/ NewItem(w) \/ ItemFails(w) \/ ItemSuppressed(w) \/ ItemsDone(w) \/ RunRaises(w)
             \/ ReadErrors(w) \/ WriteErrors(w) \/ SetPolled(w)
             \/ UpdateCounters(w) \/ ResetPolicy(w) \/ ReadPolicy(w)
             \/ WritePolicy(w) \/ ListDue(w) \/ NothingDue(w)
             \/ SkipTopic(w) \/ CheckTopic(w) \/ EnqueueDone(w) \/ Start(w)
      PROVE  UNCHANGED <<status, job>>
  BY <1>8
     DEF runVars, workerVars, ClaimNothing, Goto, ListSources, EnabledSources,
         NextSource, NoMoreSources, FetchSource, FetchSourceFails, Fail, Report,
         NewItem, ItemLimit, ItemFails, ItemSuppressed, ItemsDone, RunRaises, Trying, Forget,
         ReadErrors, WriteErrors, Touched, SetPolled, UpdateCounters,
         ResetPolicy, AfterSource, ReadPolicy, WritePolicy, ListDue, DueSources,
         NothingDue, SkipTopic, Group, CheckTopic, EnqueueDone, Start
<1>9. ASSUME NEW w \in Workers, CreateScheduleRun(w)
      PROVE  \E r \in RunIds : Lifecycle!Submit(r)
  BY <1>7, <1>9 DEF CreateScheduleRun
<1>10. ASSUME NEW c \in Clients, CreateRun(c)
       PROVE  \E r \in RunIds : Lifecycle!Submit(r)
  BY <1>7, <1>10 DEF CreateRun, workerVars
<1>11. ASSUME NEW c \in Clients, Lookup(c) \/ SelectSources(c)
       PROVE  UNCHANGED <<status, job>>
  BY <1>11 DEF Lookup, SelectSources, runVars, workerVars
<1>12. ASSUME NEW s \in Sources,
              \/ SetEnabled(s, TRUE) \/ SetEnabled(s, FALSE)
              \/ CooldownExpires(s) \/ PollIntervalElapses(s)
       PROVE  UNCHANGED <<status, job>>
  BY <1>12 DEF SetEnabled, CooldownExpires, PollIntervalElapses, runVars, workerVars
<1>13. ASSUME NEW r \in RunIds, RunGoesIdle(r)
       PROVE  UNCHANGED <<status, job>>
  BY <1>13 DEF RunGoesIdle, workerVars
<1>14. ASSUME NEW w \in Workers, FinishRun(w) \/ FailRun(w)
       PROVE  \E r \in RunIds : \/ Lifecycle!Judge(r, "completed")
                               \/ Lifecycle!Judge(r, "failed")
  BY <1>5, <1>14 DEF FinishRun, FailRun, Busy, Finished
<1>15. CASE UNCHANGED vars
  BY <1>2, <1>15 DEF vars, runVars, workerVars
<1>16. StaleRuns \in SUBSET RunIds
  BY DEF StaleRuns
<1>17. ASSUME NEW w \in Workers, WorkerStep(w) \/ Crash(w) \/ Start(w)
       PROVE  [Lifecycle!Next]_<<status, Live>>
  BY <1>2, <1>3, <1>4, <1>6, <1>8, <1>9, <1>14, <1>16, <1>17, Zenon
     DEF WorkerStep, Lifecycle!Next
<1>18. ASSUME NEW c \in Clients, ClientStep(c)
       PROVE  [Lifecycle!Next]_<<status, Live>>
  BY <1>2, <1>10, <1>11, <1>18 DEF ClientStep, Lifecycle!Next
<1>. QED
  BY <1>2, <1>12, <1>13, <1>15, <1>17, <1>18 DEF Next

\* The rows of the run table and the workers behind them implement RunLifecycle:
\* no run is requeued or taken twice, and a completed run stays completed.
THEOREM RefinesLifecycle == Spec => ImplementsLifecycle
<1>1. Init => Lifecycle!Init
  BY RunsAssumption DEF Init, Lifecycle!Init, Live, RunIds
<1>2. IInv /\ [Next]_vars => [Lifecycle!Next]_<<status, Live>>
  BY LifecycleStep
<1>. QED
  BY <1>1, <1>2, Invariance, PTL DEF Spec, ImplementsLifecycle, Lifecycle!Spec

\* Once no worker is left that could revise it, the verdict on a run is final, be
\* it the sweep's or the worker's (finish_ingestion_run, mark_stale_runs_failed).
THEOREM VerdictsAreFinal == Spec => Lifecycle!VerdictsFinal
<1>1. ASSUME [Lifecycle!Next]_<<status, Live>>, DOMAIN status = RunIds,
             NEW r \in RunIds \ Live, status[r] \in Finished
      PROVE  ~Lifecycle!Revised(r)
  <2>1. CASE UNCHANGED <<status, Live>>
    BY <1>1, <2>1 DEF Lifecycle!Revised
  <2>2. ASSUME NEW q \in RunIds,
               \/ Lifecycle!Submit(q) \/ Lifecycle!Take(q) \/ Lifecycle!Abandon(q)
               \/ Lifecycle!Judge(q, "completed") \/ Lifecycle!Judge(q, "failed")
        PROVE  ~Lifecycle!Revised(r)
    <3>1. q # r \/ Lifecycle!Abandon(q)
      BY <1>1, <2>2 DEF Finished, Lifecycle!Submit, Lifecycle!Take, Lifecycle!Judge
    <3>. QED
      BY <1>1, <2>2, <3>1
         DEF Lifecycle!Submit, Lifecycle!Take, Lifecycle!Abandon, Lifecycle!Judge,
             Lifecycle!Revised
  <2>3. ASSUME NEW lost \in SUBSET RunIds, Lifecycle!GiveUp(lost)
        PROVE  ~Lifecycle!Revised(r)
    BY <1>1, <2>3 DEF Finished, Lifecycle!GiveUp, Lifecycle!Revised
  <2>. QED
    BY <1>1, <2>1, <2>2, <2>3 DEF Lifecycle!Next
<1>2. IInv /\ [Next]_vars => [Lifecycle!NoneRevised]_<<status, Live>>
  BY <1>1, LifecycleStep DEF Finished, IInv, TypeOK, Lifecycle!NoneRevised
<1>. QED
  BY <1>2, Invariance, PTL DEF Spec, Lifecycle!VerdictsFinal

-----------------------------------------------------------------------------
(* Lookup and insert of one idempotency key are two transactions.            *)

\* No two calls for one topic and key are under way at once.
KeysApart ==
    \A c, d \in Clients :
        /\ cpc[c] # "idle" /\ cpc[d] # "idle"
        /\ creq[c].topic = creq[d].topic
        /\ creq[c].key = creq[d].key /\ creq[c].key # NoKey
        => c = d

\* A call under way has found no row of its key, and no key has two rows.
KeyReserved ==
    /\ \A c \in Clients : cpc[c] # "idle" => Fresh(creq[c].topic, creq[c].key)
    /\ \A t \in Topics, k \in Keys : \A q, r \in RunsWithKey(t, k) : q = r

\* A set whose members are all equal has at most one.
LEMMA AtMostOne ==
    ASSUME NEW S, \A x, y \in S : x = y
    PROVE  Cardinality(S) <= 1
<1>1. CASE S = {}
  BY <1>1, FS_EmptySet
<1>2. CASE S # {}
  <2>1. PICK x \in S : S = {x}
    BY <1>2
  <2>. QED
    BY <2>1, FS_Singleton
<1>. QED
  BY <1>1, <1>2

\* What a worker does to the rows other than inserting one: no row appears or
\* disappears, and the columns of the insert stay.
LEMMA RowsStand ==
    ASSUME NEW w \in Workers, TypeOK, JobsHeld, WorkerStep(w) \/ Crash(w) \/ Start(w),
           ~ CreateScheduleRun(w)
    PROVE  /\ UNCHANGED <<request, cpc, creq>>
           /\ \A r \in RunIds : /\ status'[r] = "absent" <=> status[r] = "absent"
                                /\ status'[r] \in Open => status[r] \in Open
<1> USE RunsAssumption DEF TypeOK, runVars, sourceVars, workerVars, clientVars,
              localVars, passVars, readVars, reportVars, Open
<1>1. CASE SweepStale(w)
  BY <1>1 DEF SweepStale, SweepTo, StaleRuns
<1>2. CASE ClaimRun(w)
  BY <1>2 DEF ClaimRun, Claimable, Queued
<1>3. CASE FinishRun(w) \/ FailRun(w)
  <2>1. PICK final \in Finished :
           /\ job[w] # NoRun
           /\ status' = [status EXCEPT ![job[w]] = final]
           /\ UNCHANGED <<request, cpc, creq>>
    BY <1>3 DEF FinishRun, FailRun, EndRun, Goto, JobsHeld, Busy, Finished
  <2>2. job[w] \in RunIds /\ status[job[w]] # "absent"
    BY <2>1 DEF JobsHeld
  <2>. QED
    BY <2>1, <2>2 DEF Finished
<1>4. CASE \/ ClaimNothing(w) \/ ListSources(w) \/ NextSource(w)
           \/ NoMoreSources(w) \/ FetchSource(w) \/ FetchSourceFails(w)
           \/ NewItem(w) \/ ItemFails(w) \/ ItemSuppressed(w) \/ ItemsDone(w) \/ RunRaises(w)
           \/ ReadErrors(w) \/ WriteErrors(w) \/ SetPolled(w)
           \/ UpdateCounters(w) \/ ResetPolicy(w) \/ ReadPolicy(w)
           \/ WritePolicy(w) \/ ListDue(w) \/ NothingDue(w)
           \/ SkipTopic(w) \/ CheckTopic(w) \/ EnqueueDone(w) \/ Crash(w) \/ Start(w)
  BY <1>4
     DEF ClaimNothing, ListSources, NextSource, NoMoreSources, FetchSource,
         FetchSourceFails, NewItem, ItemFails, ItemSuppressed, ItemsDone, RunRaises, ReadErrors,
         WriteErrors, SetPolled, UpdateCounters, ResetPolicy, ReadPolicy, WritePolicy,
         ListDue, NothingDue, SkipTopic, CheckTopic, EnqueueDone, Crash, Start
<1>. QED
  BY <1>1, <1>2, <1>3, <1>4 DEF WorkerStep

\* A call that is alone with its key inserts the first row of it.
LEMMA KeyReservedStep ==
    IInv /\ KeysApart /\ KeyReserved /\ [Next]_vars => KeyReserved'
<1> SUFFICES ASSUME TypeOK, JobsHeld, KeysApart, KeyReserved, [Next]_vars
             PROVE  KeyReserved'
  BY DEF IInv
<1> USE RunsAssumption
<1>1. CASE /\ UNCHANGED <<request, cpc, creq>>
           /\ \A r \in RunIds : status'[r] = "absent" <=> status[r] = "absent"
  BY <1>1 DEF KeyReserved, Fresh, RunsWithKey
<1>2. ASSUME NEW w \in Workers, CreateScheduleRun(w)
      PROVE  KeyReserved'
  <2>1. PICK r \in RunIds :
           /\ status[r] = "absent"
           /\ status' = [status EXCEPT ![r] = "queued"]
           /\ request' = [request EXCEPT ![r] =
                    [trigger |-> "schedule", key |-> NoKey, topic |-> topic[w],
                     selected |-> Group(w, topic[w])]]
           /\ UNCHANGED <<cpc, creq>>
    BY <1>2 DEF CreateScheduleRun, InsertRun, NextRow, clientVars
  <2>2. \A t \in Topics, k \in Keys : RunsWithKey(t, k)' = RunsWithKey(t, k)
    BY <2>1 DEF RunsWithKey, TypeOK
  <2>3. \A c \in Clients : /\ creq[c].topic \in Topics
                           /\ creq[c].key \in Keys \cup {NoKey}
    BY DEF TypeOK, Request
  <2>. QED
    BY <2>1, <2>2, <2>3 DEF KeyReserved, Fresh
<1>3. ASSUME NEW c \in Clients, Lookup(c)
      PROVE  KeyReserved'
  <2>1. PICK tr \in ApiTriggers, k \in Keys \cup {NoKey}, t \in Topics :
           /\ Fresh(t, k)
           /\ cpc' = [cpc EXCEPT ![c] = "select"]
           /\ creq' = [creq EXCEPT ![c] =
                    [trigger |-> tr, key |-> k, topic |-> t, selected |-> {}]]
           /\ UNCHANGED <<status, request>>
    BY <1>3 DEF Lookup, runVars
  <2>2. \A u \in Topics, l \in Keys \cup {NoKey} : Fresh(u, l)' = Fresh(u, l)
    BY <2>1 DEF Fresh, RunsWithKey
  <2>3. creq'[c].topic = t /\ creq'[c].key = k
    BY <2>1 DEF TypeOK
  <2>4. \A d \in Clients : d # c => creq'[d] = creq[d] /\ cpc'[d] = cpc[d]
    BY <2>1 DEF TypeOK
  <2>5. \A d \in Clients : /\ creq[d].topic \in Topics
                           /\ creq[d].key \in Keys \cup {NoKey}
    BY DEF TypeOK, Request
  <2>6. \A d \in Clients : cpc'[d] # "idle" => Fresh(creq'[d].topic, creq'[d].key)
    BY <2>1, <2>3, <2>4 DEF KeyReserved
  <2>7. \A u \in Topics, l \in Keys : RunsWithKey(u, l)' = RunsWithKey(u, l)
    BY <2>1 DEF RunsWithKey
  <2>8. \A d \in Clients : cpc'[d] # "idle" => Fresh(creq[d].topic, creq[d].key)'
    BY <2>1, <2>6 DEF Fresh, RunsWithKey
  <2>. QED
    BY <2>7, <2>8 DEF KeyReserved
<1>4. ASSUME NEW c \in Clients, SelectSources(c)
      PROVE  KeyReserved'
  <2>1. PICK ids \in SUBSET Sources :
           LET selected == EnabledSources(creq[c].topic, ids) IN
           /\ cpc[c] = "select"
           /\ cpc' = [cpc EXCEPT ![c] = IF selected = {} THEN "idle" ELSE "create"]
           /\ creq' = [creq EXCEPT ![c] = IF selected = {} THEN NoRequest(@.topic)
                                          ELSE [@ EXCEPT !.selected = selected]]
           /\ UNCHANGED <<status, request>>
    BY <1>4 DEF SelectSources, runVars
  <2>2. creq[c] \in Request
    BY DEF TypeOK
  <2>3. cpc'[c] # "idle" => /\ creq'[c].topic = creq[c].topic
                            /\ creq'[c].key = creq[c].key
    BY <2>1, <2>2 DEF TypeOK, Request
  <2>4. \A d \in Clients : d # c => creq'[d] = creq[d] /\ cpc'[d] = cpc[d]
    BY <2>1 DEF TypeOK
  <2>5. \A d \in Clients : cpc'[d] # "idle" => Fresh(creq[d].topic, creq[d].key)'
    BY <2>1, <2>3, <2>4 DEF KeyReserved, Fresh, RunsWithKey
  <2>6. \A u \in Topics, l \in Keys : RunsWithKey(u, l)' = RunsWithKey(u, l)
    BY <2>1 DEF RunsWithKey
  <2>. QED
    BY <2>5, <2>6 DEF KeyReserved
<1>5. ASSUME NEW c \in Clients, CreateRun(c)
      PROVE  KeyReserved'
  <2>1. PICK r \in RunIds :
           /\ cpc[c] = "create"
           /\ status[r] = "absent"
           /\ status' = [status EXCEPT ![r] = "queued"]
           /\ request' = [request EXCEPT ![r] = creq[c]]
           /\ cpc' = [cpc EXCEPT ![c] = "idle"]
           /\ creq' = [creq EXCEPT ![c] = NoRequest(@.topic)]
    BY <1>5 DEF CreateRun, InsertRun, NextRow
  <2> DEFINE mine(t, k) == t = creq[c].topic /\ k = creq[c].key
  <2>2. ASSUME NEW t \in Topics, NEW k \in Keys, ~mine(t, k)
        PROVE  RunsWithKey(t, k)' = RunsWithKey(t, k)
    BY <2>1, <2>2 DEF RunsWithKey, TypeOK
  <2>3. ASSUME NEW t \in Topics, NEW k \in Keys, mine(t, k)
        PROVE  RunsWithKey(t, k)' = {r}
    <3>1. RunsWithKey(t, k) = {}
      BY <2>1, <2>3 DEF KeyReserved, Fresh
    <3>. QED
      BY <2>1, <2>3, <3>1 DEF RunsWithKey, TypeOK
  <2>4. ASSUME NEW d \in Clients, cpc'[d] # "idle"
        PROVE  Fresh(creq[d].topic, creq[d].key)'
    <3>1. d # c /\ creq'[d] = creq[d] /\ cpc[d] # "idle"
      BY <2>1, <2>4 DEF TypeOK
    <3>2. creq[d].topic \in Topics /\ creq[d].key \in Keys \cup {NoKey}
      BY DEF TypeOK, Request
    <3>3. creq[d].key # NoKey => ~mine(creq[d].topic, creq[d].key)
      BY <2>1, <3>1 DEF KeysApart
    <3>4. Fresh(creq[d].topic, creq[d].key)
      BY <3>1 DEF KeyReserved
    <3>5. CASE creq[d].key = NoKey
      BY <3>1, <3>5 DEF Fresh
    <3>6. CASE creq[d].key # NoKey
      <4>1. PICK t \in Topics, k \in Keys : creq[d].topic = t /\ creq[d].key = k
        BY <3>2, <3>6
      <4>2. RunsWithKey(t, k) = {}
        BY <3>4, <3>6, <4>1 DEF Fresh
      <4>3. RunsWithKey(t, k)' = {}
        BY <2>2, <3>3, <3>6, <4>1, <4>2
      <4>. QED
        BY <3>1, <4>1, <4>3 DEF Fresh, RunsWithKey
    <3>. QED
      BY <3>5, <3>6
  <2>5. \A t \in Topics, k \in Keys : \A p, q \in RunsWithKey(t, k)' : p = q
    <3>1. ASSUME NEW t \in Topics, NEW k \in Keys
          PROVE  RunsWithKey(t, k)' = {r} \/ RunsWithKey(t, k)' = RunsWithKey(t, k)
      BY <2>2, <2>3
    <3>. QED
      BY <3>1 DEF KeyReserved
  <2>. QED
    BY <2>4, <2>5 DEF KeyReserved
<1>6. ASSUME NEW w \in Workers, WorkerStep(w) \/ Crash(w) \/ Start(w)
      PROVE  KeyReserved'
  BY <1>1, <1>2, <1>6, RowsStand
<1>7. ASSUME NEW s \in Sources,
             \/ SetEnabled(s, TRUE) \/ SetEnabled(s, FALSE)
             \/ CooldownExpires(s) \/ PollIntervalElapses(s)
      PROVE  KeyReserved'
  BY <1>1, <1>7 DEF SetEnabled, CooldownExpires, PollIntervalElapses, runVars,
                    clientVars
<1>8. ASSUME NEW r \in RunIds, RunGoesIdle(r)
      PROVE  KeyReserved'
  BY <1>1, <1>8 DEF RunGoesIdle, clientVars
<1>9. CASE UNCHANGED vars
  BY <1>1, <1>9 DEF vars, runVars, clientVars
<1>. QED
  BY <1>3, <1>4, <1>5, <1>6, <1>7, <1>8, <1>9 DEF Next, ClientStep

\* queue_research_ingest_run_endpoint makes one run of an idempotency key however
\* often it is sent, whatever became of the run meanwhile, as long as two calls
\* with one key do not overlap.
THEOREM KeyGivesOneRun == Spec /\ []KeysApart => []OneRunPerKey
<1>1. Init => KeyReserved
  BY DEF Init, KeyReserved, RunsWithKey
<1>2. IInv /\ KeysApart /\ KeyReserved /\ [Next]_vars => KeyReserved'
  BY KeyReservedStep
<1>3. KeyReserved => OneRunPerKey
  BY AtMostOne DEF KeyReserved, OneRunPerKey
<1>. QED
  BY <1>1, <1>2, <1>3, Invariance, PTL DEF Spec

\* A single caller cannot overlap with itself.
THEOREM OneCallerOneRun ==
    ASSUME \A c, d \in Clients : c = d
    PROVE  Spec => []OneRunPerKey
<1>1. KeysApart
  BY DEF KeysApart
<1>. QED
  BY <1>1, KeyGivesOneRun, PTL

-----------------------------------------------------------------------------
(* Check and insert of a schedule run are two transactions.                  *)

\* No two workers are between check and insert for one topic.
InsertsApart ==
    \A v, w \in Workers :
        pc[v] = "create" /\ pc[w] = "create" /\ topic[v] = topic[w] => v = w

\* The open schedule runs of a topic.
ScheduleRunsOf(t) ==
    {r \in RunIds : /\ status[r] \in Open
                    /\ request[r].topic = t
                    /\ request[r].trigger = "schedule"}

\* A worker about to insert has found no open run of its topic, and no topic has
\* two; the clients ask for none.
TopicReserved ==
    /\ \A c \in Clients : cpc[c] # "idle" => creq[c].trigger \in ApiTriggers
    /\ \A w \in Workers : pc[w] = "create" => ~OpenScheduleRun(topic[w])
    /\ \A t \in Topics : \A q, r \in ScheduleRunsOf(t) : q = r

\* Only CheckTopic brings a worker between check and insert.
LEMMA CheckedByCheckTopic ==
    ASSUME NEW w \in Workers, TypeOK, JobsHeld, WorkerStep(w) \/ Crash(w) \/ Start(w),
           ~ CheckTopic(w)
    PROVE  \A v \in Workers :
               pc'[v] = "create" => v # w /\ pc[v] = "create" /\ topic'[v] = topic[v]
<1> USE DEF TypeOK, runVars, sourceVars, workerVars, clientVars,
              localVars, passVars, readVars, reportVars
<1>1. CASE \/ SweepStale(w) \/ ClaimRun(w) \/ ClaimNothing(w) \/ ListSources(w)
           \/ NextSource(w) \/ NoMoreSources(w) \/ FetchSource(w) \/ FetchSourceFails(w)
           \/ NewItem(w) \/ ItemFails(w) \/ ItemSuppressed(w) \/ ItemsDone(w)
  BY <1>1 DEF SweepStale, SweepTo, ClaimRun, ClaimNothing, ListSources, NextSource,
              NoMoreSources, FetchSource, FetchSourceFails, NewItem, ItemFails, ItemSuppressed, ItemsDone,
              Goto, Fail, Report
<1>2. CASE \/ ReadErrors(w) \/ WriteErrors(w) \/ SetPolled(w) \/ UpdateCounters(w)
           \/ ReadPolicy(w) \/ Start(w)
  BY <1>2 DEF ReadErrors, WriteErrors, SetPolled, UpdateCounters, ReadPolicy, Start, Goto
<1>3. CASE RunRaises(w) \/ FinishRun(w) \/ FailRun(w) \/ Crash(w)
  BY <1>3 DEF RunRaises, FinishRun, FailRun, EndRun, Crash, Goto, Report, Forget
<1>4. CASE \/ ListDue(w) \/ NothingDue(w) \/ SkipTopic(w) \/ CreateScheduleRun(w)
           \/ EnqueueDone(w)
  BY <1>4 DEF ListDue, NothingDue, SkipTopic, CreateScheduleRun, EnqueueDone, Goto
<1>5. CASE ResetPolicy(w) \/ WritePolicy(w)
  <2>1. AfterSource(w)
    BY <1>5 DEF ResetPolicy, WritePolicy
  <2>2. topic' = topic /\ \E to \in {"errread", "next"} : pc' = [pc EXCEPT ![w] = to]
    BY <2>1 DEF AfterSource, Report
  <2>. QED
    BY <2>2
<1>. QED
  BY <1>1, <1>2, <1>3, <1>4, <1>5 DEF WorkerStep

\* A worker that is alone with its topic inserts the only open run of it.
LEMMA TopicReservedStep ==
    ASSUME "schedule" \notin ApiTriggers
    PROVE  IInv /\ InsertsApart /\ TopicReserved /\ [Next]_vars => TopicReserved'
<1> SUFFICES ASSUME TypeOK, JobsHeld, InHand, InsertsApart, TopicReserved, [Next]_vars
             PROVE  TopicReserved'
  BY DEF IInv
<1> USE RunsAssumption
<1>1. CASE /\ UNCHANGED <<request, cpc, creq>>
           /\ \A r \in RunIds : status'[r] \in Open => status[r] \in Open
           /\ \A v \in Workers :
                pc'[v] = "create" => pc[v] = "create" /\ topic'[v] = topic[v]
  BY <1>1 DEF TopicReserved, OpenScheduleRun, ScheduleRunIn, ScheduleRunsOf
<1>2. ASSUME NEW w \in Workers, CheckTopic(w)
      PROVE  TopicReserved'
  <2>1. PICK t \in Topics :
           /\ ~OpenScheduleRun(t)
           /\ pc' = [pc EXCEPT ![w] = "create"]
           /\ topic' = [topic EXCEPT ![w] = t]
           /\ UNCHANGED <<status, request, cpc, creq>>
    BY <1>2 DEF CheckTopic, Goto, runVars, clientVars
  <2>2. \A v \in Workers : pc'[v] = "create" => ~OpenScheduleRun(topic'[v])
    BY <2>1 DEF TopicReserved, TypeOK
  <2>. QED
    BY <2>1, <2>2 DEF TopicReserved, OpenScheduleRun, ScheduleRunIn, ScheduleRunsOf
<1>3. ASSUME NEW w \in Workers, CreateScheduleRun(w)
      PROVE  TopicReserved'
  <2>1. PICK r \in RunIds :
           /\ pc[w] = "create"
           /\ pc' = [pc EXCEPT ![w] = "enqueue"]
           /\ topic' = [topic EXCEPT ![w] = NoTopic]
           /\ status[r] = "absent"
           /\ status' = [status EXCEPT ![r] = "queued"]
           /\ request' = [request EXCEPT ![r] =
                    [trigger |-> "schedule", key |-> NoKey, topic |-> topic[w],
                     selected |-> Group(w, topic[w])]]
           /\ UNCHANGED <<cpc, creq>>
    BY <1>3 DEF CreateScheduleRun, InsertRun, NextRow, Goto, clientVars
  <2>2. topic[w] \in Topics /\ ScheduleRunsOf(topic[w]) = {}
    BY <2>1 DEF TopicReserved, OpenScheduleRun, ScheduleRunIn, ScheduleRunsOf, InHand
  <2>3. ASSUME NEW t \in Topics
        PROVE  ScheduleRunsOf(t)' = IF t = topic[w] THEN {r} ELSE ScheduleRunsOf(t)
    BY <2>1, <2>2 DEF ScheduleRunsOf, Open, TypeOK
  <2>4. ASSUME NEW v \in Workers, pc'[v] = "create"
        PROVE  ~OpenScheduleRun(topic[v])'
    <3>1. v # w /\ pc[v] = "create" /\ topic'[v] = topic[v] /\ topic[v] # topic[w]
      BY <2>1, <2>4 DEF InsertsApart, TypeOK
    <3>2. topic[v] \in Topics /\ ScheduleRunsOf(topic[v]) = {}
      BY <3>1 DEF TopicReserved, OpenScheduleRun, ScheduleRunIn, ScheduleRunsOf, InHand, At
    <3>3. PICK t \in Topics : t = topic[v]
      BY <3>2
    <3>4. ScheduleRunsOf(t)' = {}
      BY <2>3, <3>1, <3>2, <3>3
    <3>. QED
      BY <3>1, <3>3, <3>4 DEF OpenScheduleRun, ScheduleRunIn, ScheduleRunsOf
  <2>5. \A t \in Topics : \A p, q \in ScheduleRunsOf(t)' : p = q
    BY <2>3 DEF TopicReserved
  <2>6. \A c \in Clients : cpc'[c] # "idle" => creq'[c].trigger \in ApiTriggers
    BY <2>1 DEF TopicReserved
  <2>. QED
    BY <2>4, <2>5, <2>6 DEF TopicReserved
<1>4. ASSUME NEW c \in Clients, Lookup(c) \/ SelectSources(c)
      PROVE  TopicReserved'
  <2>1. UNCHANGED <<status, request, pc, topic>>
    BY <1>4 DEF Lookup, SelectSources, runVars, workerVars, localVars, readVars
  <2>2. ASSUME Lookup(c)
        PROVE  \A d \in Clients : cpc'[d] # "idle" => creq'[d].trigger \in ApiTriggers
    BY <2>2 DEF Lookup, TopicReserved, TypeOK
  <2>3. ASSUME SelectSources(c)
        PROVE  \A d \in Clients : cpc'[d] # "idle" => creq'[d].trigger \in ApiTriggers
    <3>1. PICK ids \in SUBSET Sources :
           LET selected == EnabledSources(creq[c].topic, ids) IN
           /\ cpc[c] = "select"
           /\ cpc' = [cpc EXCEPT ![c] = IF selected = {} THEN "idle" ELSE "create"]
           /\ creq' = [creq EXCEPT ![c] = IF selected = {} THEN NoRequest(@.topic)
                                          ELSE [@ EXCEPT !.selected = selected]]
      BY <2>3 DEF SelectSources
    <3>2. creq[c] \in Request
      BY DEF TypeOK
    <3>3. cpc'[c] # "idle" => creq'[c].trigger = creq[c].trigger
      BY <3>1, <3>2 DEF TypeOK, Request
    <3>4. \A d \in Clients : d # c => creq'[d] = creq[d] /\ cpc'[d] = cpc[d]
      BY <3>1 DEF TypeOK
    <3>. QED
      BY <3>1, <3>3, <3>4 DEF TopicReserved
  <2>4. \A d \in Clients : cpc'[d] # "idle" => creq'[d].trigger \in ApiTriggers
    BY <1>4, <2>2, <2>3
  <2>. QED
    BY <2>1, <2>4 DEF TopicReserved, OpenScheduleRun, ScheduleRunIn, ScheduleRunsOf
<1>5. ASSUME NEW c \in Clients, CreateRun(c)
      PROVE  TopicReserved'
  <2>1. PICK r \in RunIds :
           /\ cpc[c] = "create"
           /\ status[r] = "absent"
           /\ status' = [status EXCEPT ![r] = "queued"]
           /\ request' = [request EXCEPT ![r] = creq[c]]
           /\ cpc' = [cpc EXCEPT ![c] = "idle"]
           /\ creq' = [creq EXCEPT ![c] = NoRequest(@.topic)]
           /\ UNCHANGED <<pc, topic>>
    BY <1>5 DEF CreateRun, InsertRun, NextRow, workerVars, localVars, readVars
  <2>2. creq[c].trigger # "schedule"
    BY <2>1 DEF TopicReserved
  <2>3. \A q \in RunIds : /\ status'[q] \in Open /\ request'[q].trigger = "schedule"
                             => status[q] \in Open /\ request'[q] = request[q]
    BY <2>1, <2>2 DEF TypeOK
  <2>4. \A d \in Clients : cpc'[d] # "idle" => creq'[d].trigger \in ApiTriggers
    BY <2>1 DEF TopicReserved, TypeOK
  <2>. QED
    BY <2>1, <2>3, <2>4 DEF TopicReserved, OpenScheduleRun, ScheduleRunIn, ScheduleRunsOf
<1>6. ASSUME NEW w \in Workers, WorkerStep(w) \/ Crash(w) \/ Start(w)
      PROVE  TopicReserved'
  BY <1>1, <1>2, <1>3, <1>6, RowsStand, CheckedByCheckTopic
<1>7. ASSUME NEW s \in Sources,
             \/ SetEnabled(s, TRUE) \/ SetEnabled(s, FALSE)
             \/ CooldownExpires(s) \/ PollIntervalElapses(s)
      PROVE  TopicReserved'
  BY <1>1, <1>7 DEF SetEnabled, CooldownExpires, PollIntervalElapses, runVars,
                    clientVars, workerVars, localVars, readVars
<1>8. ASSUME NEW r \in RunIds, RunGoesIdle(r)
      PROVE  TopicReserved'
  BY <1>1, <1>8 DEF RunGoesIdle, clientVars, workerVars, localVars, readVars
<1>9. CASE UNCHANGED vars
  BY <1>1, <1>9 DEF vars, runVars, clientVars, workerVars, localVars, readVars
<1>. QED
  BY <1>4, <1>5, <1>6, <1>7, <1>8, <1>9 DEF Next, ClientStep

\* enqueue_due_schedule_runs leaves at most one open schedule run per topic, as
\* long as no two workers are between has_open_research_run_for_topic and the
\* insert for one topic and no client posts a run with the trigger schedule.
THEOREM TopicHasOneOpenRun ==
    ASSUME "schedule" \notin ApiTriggers
    PROVE  Spec /\ []InsertsApart => []OneOpenScheduleRun
<1>1. Init => TopicReserved
  BY DEF Init, TopicReserved, ScheduleRunsOf, Open
<1>2. IInv /\ InsertsApart /\ TopicReserved /\ [Next]_vars => TopicReserved'
  BY TopicReservedStep
<1>3. TopicReserved => OneOpenScheduleRun
  BY AtMostOne DEF TopicReserved, OneOpenScheduleRun, ScheduleRunsOf
<1>. QED
  BY <1>1, <1>2, <1>3, Invariance, PTL DEF Spec

\* The workers started with --once never enqueue.
OnlyDaemonsEnqueue ==
    \A w \in Workers : pc[w] \in {"due", "enqueue", "create"} => w \in Daemons

\* Only a daemon that finds nothing to claim looks for due sources.
LEMMA OnlyDaemonsStep ==
    TypeOK /\ OnlyDaemonsEnqueue /\ [Next]_vars => OnlyDaemonsEnqueue'
<1> SUFFICES ASSUME TypeOK, OnlyDaemonsEnqueue, [Next]_vars
             PROVE  OnlyDaemonsEnqueue'
  OBVIOUS
<1> USE DEF TypeOK, workerVars
<1>1. ASSUME NEW w \in Workers,
             \/ SweepStale(w) \/ ClaimRun(w) \/ ClaimNothing(w) \/ ListSources(w)
             \/ NextSource(w) \/ NoMoreSources(w) \/ FetchSource(w)
             \/ FetchSourceFails(w) \/ NewItem(w) \/ ItemFails(w) \/ ItemSuppressed(w) \/ ItemsDone(w)
      PROVE  OnlyDaemonsEnqueue'
  BY <1>1 DEF OnlyDaemonsEnqueue, SweepStale, SweepTo, ClaimRun, ClaimNothing,
              ListSources, NextSource, NoMoreSources, FetchSource, FetchSourceFails,
              NewItem, ItemFails, ItemSuppressed, ItemsDone, Goto, Fail, Report
<1>2. ASSUME NEW w \in Workers,
             \/ ReadErrors(w) \/ WriteErrors(w) \/ SetPolled(w) \/ UpdateCounters(w)
             \/ ResetPolicy(w) \/ ReadPolicy(w) \/ WritePolicy(w) \/ Start(w)
      PROVE  OnlyDaemonsEnqueue'
  BY <1>2 DEF OnlyDaemonsEnqueue, ReadErrors, WriteErrors, SetPolled, UpdateCounters,
              ResetPolicy, ReadPolicy, WritePolicy, Start, Goto, Report, AfterSource
<1>3. ASSUME NEW w \in Workers, RunRaises(w) \/ FinishRun(w) \/ FailRun(w) \/ Crash(w)
      PROVE  OnlyDaemonsEnqueue'
  BY <1>3 DEF OnlyDaemonsEnqueue, RunRaises, FinishRun, FailRun, EndRun, Crash, Goto,
              Report
<1>4. ASSUME NEW w \in Workers,
             \/ ListDue(w) \/ NothingDue(w) \/ SkipTopic(w) \/ CheckTopic(w)
             \/ CreateScheduleRun(w) \/ EnqueueDone(w)
      PROVE  OnlyDaemonsEnqueue'
  BY <1>4 DEF OnlyDaemonsEnqueue, ListDue, NothingDue, SkipTopic, CheckTopic,
              CreateScheduleRun, EnqueueDone, Goto
<1>5. CASE pc' = pc
  BY <1>5 DEF OnlyDaemonsEnqueue
<1>6. ASSUME NEW c \in Clients, ClientStep(c)
      PROVE  pc' = pc
  BY <1>6 DEF ClientStep, Lookup, SelectSources, CreateRun
<1>7. ASSUME NEW s \in Sources,
             \/ SetEnabled(s, TRUE) \/ SetEnabled(s, FALSE)
             \/ CooldownExpires(s) \/ PollIntervalElapses(s)
      PROVE  pc' = pc
  BY <1>7 DEF SetEnabled, CooldownExpires, PollIntervalElapses
<1>8. ASSUME NEW r \in RunIds, RunGoesIdle(r)
      PROVE  pc' = pc
  BY <1>8 DEF RunGoesIdle
<1>9. CASE UNCHANGED vars
  BY <1>5, <1>9 DEF vars
<1>. QED
  BY <1>1, <1>2, <1>3, <1>4, <1>5, <1>6, <1>7, <1>8, <1>9 DEF Next, WorkerStep

\* A single daemon, however many one-shot workers there are beside it, is enough:
\* the others never enqueue.
THEOREM OneDaemonOneOpenRun ==
    ASSUME "schedule" \notin ApiTriggers, \A v, w \in Daemons : v = w
    PROVE  Spec => []OneOpenScheduleRun
<1>1. Init => OnlyDaemonsEnqueue
  BY DEF Init, OnlyDaemonsEnqueue
<1>2. IInv /\ OnlyDaemonsEnqueue /\ [Next]_vars => OnlyDaemonsEnqueue'
  BY OnlyDaemonsStep DEF IInv
<1>3. OnlyDaemonsEnqueue => InsertsApart
  BY DEF OnlyDaemonsEnqueue, InsertsApart
<1>. QED
  BY <1>1, <1>2, <1>3, Invariance, TopicHasOneOpenRun, PTL DEF Spec

-----------------------------------------------------------------------------
(* mark_research_source_failure reads the counter and writes it back.        *)

\* While a worker is between read and write of a source, no other writes it.
PoliciesApart ==
    \A v, w \in Workers :
        /\ pc[v] = "polwrite" /\ pc[w] \in {"reset", "polwrite"}
        /\ src[v] = src[w]
        => v = w

\* The counter a worker is about to increment is the one in the row.
CounterRead ==
    /\ \A w \in Workers : pc[w] = "polwrite" => fails[w] = failures[src[w]]
    /\ FailuresExact

\* What the steps of a worker leave alone of a pass that is about to write the
\* counter, and of an enqueue round: only ReadPolicy starts the one and only
\* ListDue the other.
LEMMA PassesStand ==
    ASSUME NEW w \in Workers, TypeOK, WorkerStep(w) \/ Crash(w) \/ Start(w)
    PROVE  /\ \A v \in Workers \ {w} :
                /\ pc'[v] = pc[v] /\ src'[v] = src[v]
                /\ fails'[v] = fails[v] /\ todo'[v] = todo[v]
           /\ pc'[w] = "polwrite" => ReadPolicy(w)
           /\ pc'[w] \in {"enqueue", "create"} =>
                ListDue(w) \/ /\ pc[w] \in {"enqueue", "create"}
                              /\ todo'[w] \subseteq todo[w]
<1> USE DEF TypeOK, localVars, passVars, readVars
<1>1. CASE \/ SweepStale(w) \/ ClaimRun(w) \/ ClaimNothing(w) \/ ListSources(w)
           \/ NextSource(w) \/ NoMoreSources(w) \/ FetchSource(w)
  BY <1>1 DEF SweepStale, SweepTo, ClaimRun, ClaimNothing, ListSources, NextSource,
              NoMoreSources, FetchSource, Goto
<1>2. CASE FetchSourceFails(w) \/ NewItem(w) \/ ItemFails(w) \/ ItemSuppressed(w) \/ ItemsDone(w)
  BY <1>2 DEF FetchSourceFails, NewItem, ItemFails, ItemSuppressed, ItemsDone, Goto, Fail, Report
<1>3. CASE \/ ReadErrors(w) \/ WriteErrors(w) \/ SetPolled(w) \/ UpdateCounters(w)
           \/ ReadPolicy(w) \/ Start(w)
  BY <1>3 DEF ReadErrors, WriteErrors, SetPolled, UpdateCounters, ReadPolicy, Start, Goto
<1>4. CASE RunRaises(w) \/ FinishRun(w) \/ FailRun(w) \/ Crash(w)
  BY <1>4 DEF RunRaises, FinishRun, FailRun, EndRun, Crash, Goto, Report, Forget
<1>5. CASE ListDue(w) \/ NothingDue(w) \/ EnqueueDone(w)
  BY <1>5 DEF ListDue, NothingDue, EnqueueDone, Goto
<1>6. CASE SkipTopic(w) \/ CheckTopic(w) \/ CreateScheduleRun(w)
  BY <1>6 DEF SkipTopic, CheckTopic, CreateScheduleRun, Goto
<1>7. CASE ResetPolicy(w) \/ WritePolicy(w)
  <2>1. AfterSource(w)
    BY <1>7 DEF ResetPolicy, WritePolicy
  <2>2. /\ src' = [src EXCEPT ![w] = NoSource]
        /\ fails' = [fails EXCEPT ![w] = 0]
        /\ todo' = todo
        /\ \E to \in {"errread", "next"} : pc' = [pc EXCEPT ![w] = to]
    BY <2>1 DEF AfterSource, Report
  <2>. QED
    BY <2>2
<1>. QED
  BY <1>1, <1>2, <1>3, <1>4, <1>5, <1>6, <1>7 DEF WorkerStep

\* Only the policy calls write the counter.
LEMMA CountersStand ==
    ASSUME NEW w \in Workers, WorkerStep(w) \/ Crash(w) \/ Start(w),
           ~ ResetPolicy(w), ~ WritePolicy(w)
    PROVE  UNCHANGED <<failures, streak>>
  BY DEF WorkerStep, sourceVars, SweepStale, SweepTo, ClaimRun, ClaimNothing, ListSources,
         NextSource, NoMoreSources, FetchSource, FetchSourceFails, NewItem, ItemFails, ItemSuppressed,
         ItemsDone, RunRaises, ReadErrors, WriteErrors, SetPolled, UpdateCounters,
         ReadPolicy, FinishRun, FailRun, EndRun, ListDue, NothingDue, SkipTopic, CheckTopic,
         CreateScheduleRun, EnqueueDone, Crash, Start

\* Nobody writes the counter between read and write: it goes up by one.
LEMMA CounterReadStep ==
    IInv /\ PoliciesApart /\ CounterRead /\ [Next]_vars => CounterRead'
<1> SUFFICES ASSUME TypeOK, InHand, PoliciesApart, CounterRead, [Next]_vars
             PROVE  CounterRead'
  BY DEF IInv
<1>1. CASE UNCHANGED <<pc, src, fails, failures, streak>>
  BY <1>1 DEF CounterRead, FailuresExact
<1>2. \A w \in Workers : pc[w] \in {"reset", "polread", "polwrite"} => src[w] \in Sources
  BY DEF InHand, At
<1>3. ASSUME NEW w \in Workers, WorkerStep(w) \/ Crash(w) \/ Start(w)
      PROVE  CounterRead'
  <2>1. /\ \A v \in Workers \ {w} :
             pc'[v] = pc[v] /\ src'[v] = src[v] /\ fails'[v] = fails[v]
        /\ pc'[w] = "polwrite" => ReadPolicy(w)
    BY <1>3, PassesStand
  <2>2. CASE ResetPolicy(w) \/ WritePolicy(w)
    <3>1. /\ pc[w] \in {"reset", "polwrite"} /\ src[w] \in Sources
          /\ ~ ReadPolicy(w)
      BY <1>2, <2>2 DEF ResetPolicy, WritePolicy, ReadPolicy, Goto
    <3>2. \A s \in Sources \ {src[w]} : failures'[s] = failures[s] /\ streak'[s] = streak[s]
      BY <2>2 DEF ResetPolicy, WritePolicy, TypeOK
    <3>3. failures'[src[w]] = streak'[src[w]]
      <4>1. CASE ResetPolicy(w)
        BY <3>1, <4>1 DEF ResetPolicy, Counter, TypeOK
      <4>2. CASE WritePolicy(w)
        BY <3>1, <4>2 DEF WritePolicy, Counter, CounterRead, FailuresExact, TypeOK
      <4>. QED
        BY <2>2, <4>1, <4>2
    <3>4. ASSUME NEW v \in Workers, pc'[v] = "polwrite"
          PROVE  fails'[v] = failures'[src'[v]]
      <4>1. v # w /\ pc[v] = "polwrite"
        BY <2>1, <3>1, <3>4
      <4>2. src[v] \in Sources \ {src[w]}
        BY <1>2, <3>1, <4>1 DEF PoliciesApart
      <4>. QED
        BY <2>1, <3>2, <4>1, <4>2 DEF CounterRead
    <3>5. \A s \in Sources : failures'[s] = streak'[s]
      BY <3>2, <3>3 DEF CounterRead, FailuresExact
    <3>. QED
      BY <3>4, <3>5 DEF CounterRead, FailuresExact
  <2>3. CASE ReadPolicy(w)
    <3>1. /\ pc[w] = "polread"
          /\ fails' = [fails EXCEPT ![w] = failures[src[w]]]
          /\ UNCHANGED <<src, failures, streak>>
      BY <2>3 DEF ReadPolicy, Goto, sourceVars, passVars
    <3>. QED
      BY <2>1, <3>1 DEF CounterRead, FailuresExact, TypeOK
  <2>4. CASE ~ ResetPolicy(w) /\ ~ WritePolicy(w) /\ ~ ReadPolicy(w)
    <3>1. UNCHANGED <<failures, streak>>
      BY <1>3, <2>4, CountersStand
    <3>. QED
      BY <2>1, <2>4, <3>1 DEF CounterRead, FailuresExact
  <2>. QED
    BY <2>2, <2>3, <2>4
<1>4. ASSUME NEW c \in Clients, ClientStep(c)
      PROVE  UNCHANGED <<pc, src, fails, failures, streak>>
  BY <1>4 DEF ClientStep, Lookup, SelectSources, CreateRun, sourceVars, workerVars,
              localVars, passVars, readVars
<1>5. ASSUME NEW s \in Sources,
             \/ SetEnabled(s, TRUE) \/ SetEnabled(s, FALSE)
             \/ CooldownExpires(s) \/ PollIntervalElapses(s)
      PROVE  UNCHANGED <<pc, src, fails, failures, streak>>
  BY <1>5 DEF SetEnabled, CooldownExpires, PollIntervalElapses, workerVars,
              localVars, passVars, readVars
<1>6. ASSUME NEW r \in RunIds, RunGoesIdle(r)
      PROVE  UNCHANGED <<pc, src, fails, failures, streak>>
  BY <1>6 DEF RunGoesIdle, sourceVars, workerVars, localVars, passVars, readVars
<1>7. CASE UNCHANGED vars
  BY <1>1, <1>7 DEF vars, sourceVars, workerVars, localVars, passVars, readVars
<1>. QED
  BY <1>1, <1>3, <1>4, <1>5, <1>6, <1>7 DEF Next

\* consecutive_failures is the number of failed passes since the last success, as
\* long as no two workers are in the policy calls of one source.
THEOREM FailuresAreExact == Spec /\ []PoliciesApart => []FailuresExact
<1>1. Init => CounterRead
  BY DEF Init, CounterRead, FailuresExact
<1>2. IInv /\ PoliciesApart /\ CounterRead /\ [Next]_vars => CounterRead'
  BY CounterReadStep
<1>3. CounterRead => FailuresExact
  BY DEF CounterRead
<1>. QED
  BY <1>1, <1>2, <1>3, Invariance, PTL DEF Spec

\* One worker process, the deployed shape, counts exactly.
THEOREM OneWorkerCountsExactly ==
    ASSUME \A v, w \in Workers : v = w
    PROVE  Spec => []FailuresExact
<1>1. PoliciesApart
  BY DEF PoliciesApart
<1>. QED
  BY <1>1, FailuresAreExact, PTL

-----------------------------------------------------------------------------
(* list_due_research_sources is read once, the runs are created afterwards.  *)

\* Nobody puts a source in cooldown that is on the list of an enqueuing worker.
ListsStand ==
    \A v, w \in Workers :
        pc[v] \in {"enqueue", "create"} /\ pc[w] = "polwrite" => src[w] \notin todo[v]

\* The sources on the list of an enqueuing worker are still out of cooldown.
ListsFresh ==
    \A w \in Workers : pc[w] \in {"enqueue", "create"} => \A s \in todo[w] : ~cooling[s]

\* Only a failure puts a source in cooldown.
LEMMA CoolingStands ==
    ASSUME NEW w \in Workers, TypeOK, WorkerStep(w) \/ Crash(w) \/ Start(w),
           ~ WritePolicy(w)
    PROVE  \A s \in Sources : cooling'[s] => cooling[s]
<1>1. CASE ResetPolicy(w)
  BY <1>1 DEF ResetPolicy, TypeOK
<1>2. CASE ~ ResetPolicy(w)
  <2>1. cooling' = cooling
    BY <1>2
       DEF WorkerStep, sourceVars, SweepStale, SweepTo, ClaimRun, ClaimNothing,
           ListSources, NextSource, NoMoreSources, FetchSource, FetchSourceFails, NewItem,
           ItemFails, ItemSuppressed, ItemsDone, RunRaises, ReadErrors, WriteErrors, SetPolled,
           UpdateCounters, ReadPolicy, FinishRun, FailRun, EndRun, ListDue, NothingDue,
           SkipTopic, CheckTopic, CreateScheduleRun, EnqueueDone, Crash, Start
  <2>. QED
    BY <2>1
<1>. QED
  BY <1>1, <1>2

\* A list read once stays fresh.
LEMMA ListsFreshStep ==
    IInv /\ ListsStand /\ ListsFresh /\ [Next]_vars => ListsFresh'
<1> SUFFICES ASSUME TypeOK, InHand, ListsStand, ListsFresh, [Next]_vars
             PROVE  ListsFresh'
  BY DEF IInv
<1>1. CASE UNCHANGED <<pc, todo>> /\ \A s \in Sources : cooling'[s] => cooling[s]
  BY <1>1 DEF ListsFresh, TypeOK
<1>2. ASSUME NEW w \in Workers, WorkerStep(w) \/ Crash(w) \/ Start(w)
      PROVE  ListsFresh'
  <2>1. /\ \A v \in Workers \ {w} : pc'[v] = pc[v] /\ todo'[v] = todo[v]
        /\ pc'[w] \in {"enqueue", "create"} =>
             ListDue(w) \/ /\ pc[w] \in {"enqueue", "create"}
                           /\ todo'[w] \subseteq todo[w]
    BY <1>2, PassesStand
  <2>2. CASE WritePolicy(w)
    <3>1. /\ pc[w] = "polwrite" /\ src[w] \in Sources
          /\ \A s \in Sources \ {src[w]} : cooling'[s] = cooling[s]
      BY <2>2 DEF WritePolicy, InHand, At, TypeOK
    <3>2. ~ ListDue(w)
      BY <3>1 DEF ListDue, Goto
    <3>. QED
      BY <2>1, <3>1, <3>2 DEF ListsFresh, ListsStand, TypeOK
  <2>3. CASE ListDue(w)
    <3>1. todo'[w] = DueSources /\ cooling' = cooling
      BY <2>3 DEF ListDue, sourceVars, TypeOK
    <3>. QED
      BY <2>1, <3>1 DEF ListsFresh, DueSources
  <2>4. CASE ~ WritePolicy(w) /\ ~ ListDue(w)
    <3>1. \A s \in Sources : cooling'[s] => cooling[s]
      BY <1>2, <2>4, CoolingStands
    <3>. QED
      BY <2>1, <2>4, <3>1 DEF ListsFresh, TypeOK
  <2>. QED
    BY <2>2, <2>3, <2>4
<1>3. ASSUME NEW c \in Clients, ClientStep(c)
      PROVE  UNCHANGED <<pc, todo, cooling>>
  BY <1>3 DEF ClientStep, Lookup, SelectSources, CreateRun, sourceVars, workerVars,
              localVars, passVars
<1>4. ASSUME NEW s \in Sources,
             \/ SetEnabled(s, TRUE) \/ SetEnabled(s, FALSE) \/ PollIntervalElapses(s)
      PROVE  UNCHANGED <<pc, todo, cooling>>
  BY <1>4 DEF SetEnabled, PollIntervalElapses, workerVars, localVars, passVars
<1>5. ASSUME NEW s \in Sources, CooldownExpires(s)
      PROVE  ListsFresh'
  BY <1>1, <1>5 DEF CooldownExpires, workerVars, localVars, passVars, TypeOK
<1>6. ASSUME NEW r \in RunIds, RunGoesIdle(r)
      PROVE  UNCHANGED <<pc, todo, cooling>>
  BY <1>6 DEF RunGoesIdle, sourceVars, workerVars, localVars, passVars
<1>7. CASE UNCHANGED vars
  BY <1>1, <1>7 DEF vars, sourceVars, workerVars, localVars, passVars
<1>. QED
  BY <1>1, <1>2, <1>3, <1>4, <1>5, <1>6, <1>7 DEF Next

\* No schedule run is created for a source in cooldown, as long as no worker
\* fails a source that another has on its list.
THEOREM CooldownIsHonored == Spec /\ []ListsStand => ScheduleHonorsCooldown
<1>1. Init => ListsFresh
  BY DEF Init, ListsFresh
<1>2. IInv /\ ListsStand /\ ListsFresh /\ [Next]_vars => ListsFresh'
  BY ListsFreshStep
<1>3. ListsFresh =>
        [\A w \in Workers : CreateScheduleRun(w) =>
                \A s \in Group(w, topic[w]) : ~cooling[s]]_vars
  BY DEF ListsFresh, CreateScheduleRun, Goto, Group
<1>. QED
  BY <1>1, <1>2, <1>3, Invariance, PTL DEF Spec, ScheduleHonorsCooldown

\* One worker process does not fail a source while it enqueues.
THEOREM OneWorkerHonorsCooldown ==
    ASSUME \A v, w \in Workers : v = w
    PROVE  Spec => ScheduleHonorsCooldown
<1>1. ListsStand
  <2>1. ASSUME NEW v \in Workers, NEW w \in Workers,
               pc[v] \in {"enqueue", "create"}, pc[w] = "polwrite"
        PROVE  FALSE
    BY <2>1
  <2>. QED
    BY <2>1 DEF ListsStand
<1>. QED
  BY <1>1, CooldownIsHonored, PTL

=============================================================================
