----------------------- MODULE SourceBootstrapProofs -----------------------
(* Proofs about BootstrapLimiter: the window is kept for every limit,       *)
(* window, number of threads and delay between the clock and the lock.      *)
(* Proofs about SourceBootstrap, which the limiter is part of: the          *)
(* guarantees of an idempotency key for any number of requests, keys,       *)
(* sources and failures.                                                    *)
EXTENDS SourceBootstrap, SequenceTheorems, TLAPS

USE DEF NoStamp

-----------------------------------------------------------------------------
(* The limiter *)

\* Calls are numbered from 1 and stamped with numbers.
LEMMA CallTypes ==
    ASSUME LimiterTypeOK
    PROVE  /\ Len(calls) \in Nat /\ head \in Nat /\ boot \in Nat
           /\ clock \in Nat
           /\ \A i \in 1 .. Len(calls) : calls[i].stamp \in Nat /\ calls[i].at \in Nat
  <1>1. Len(calls) \in Nat
    BY DEF LimiterTypeOK
  <1>2. \A i \in 1 .. Len(calls) : calls[i] \in [stamp : 0 .. Horizon, at : 0 .. Horizon]
    BY ElementOfSeq DEF LimiterTypeOK
  <1>3. \A i \in 1 .. Len(calls) : calls[i].stamp \in Nat /\ calls[i].at \in Nat
    BY <1>2, LimiterAssumption
  <1> QED
    BY <1>1, <1>3, LimiterAssumption DEF LimiterTypeOK

\* The initial state satisfies the invariant.
LEMMA LimiterInvInit == LimiterInit => LimiterInv
  BY LimiterAssumption
  DEF LimiterInit, LimiterInv, LimiterTypeOK, StampsRecent, PoppedStale, DequeBounded,
      RateKept, Waiting

\* Time passes.
LEMMA TickKeepsInv == LimiterInv /\ Tick => LimiterInv'
  <1> SUFFICES ASSUME LimiterInv, Tick PROVE LimiterInv'
    OBVIOUS
  <1> USE LimiterAssumption DEF LimiterInv, LimiterTypeOK
  <1>1. LimiterTypeOK'
    BY DEF Tick
  <1>2. StampsRecent'
    BY CallTypes DEF Tick, StampsRecent, Waiting
  <1>3. PoppedStale'
    <2> SUFFICES ASSUME NEW i \in (boot + 1) .. head
                 PROVE  calls[i].stamp + Window < clock + 1
      BY DEF Tick, PoppedStale
    <2>1. calls[i].stamp + Window < clock
      BY DEF PoppedStale
    <2>2. calls[i].stamp \in Nat /\ clock \in Nat
      BY CallTypes
    <2> QED
      BY <2>1, <2>2
  <1>4. DequeBounded' /\ RateKept'
    BY DEF Tick, DequeBounded, RateKept
  <1> QED
    BY <1>1, <1>2, <1>3, <1>4

\* A request reads the clock.
LEMMA ReadClockKeepsInv ==
    ASSUME NEW t \in Threads, LimiterInv, ReadClock(t)
    PROVE  LimiterInv'
  <1> USE LimiterAssumption DEF LimiterInv, LimiterTypeOK
  <1>1. LimiterTypeOK'
    BY DEF ReadClock
  <1>2. StampsRecent'
    BY DEF ReadClock, StampsRecent, Waiting
  <1>3. PoppedStale' /\ DequeBounded' /\ RateKept'
    BY DEF ReadClock, PoppedStale, DequeBounded, RateKept
  <1> QED
    BY <1>1, <1>2, <1>3

\* What a request pops is older than the window, seen from now.
LEMMA PopsStale ==
    ASSUME NEW t \in Threads, LimiterInv, stamp[t] # NoStamp,
           NEW h \in head .. Len(calls), Popped(t, h)
    PROVE  \A i \in (boot + 1) .. h : calls[i].stamp + Window < clock
  <1> USE LimiterAssumption DEF LimiterInv, LimiterTypeOK
  <1> SUFFICES ASSUME NEW i \in (boot + 1) .. h
               PROVE  calls[i].stamp + Window < clock
    OBVIOUS
  <1>1. i \in 1 .. Len(calls) /\ calls[i].stamp \in Nat
    BY CallTypes
  <1>2. stamp[t] <= clock /\ stamp[t] \in Nat
    BY DEF StampsRecent, Waiting
  <1>3. CASE i <= head
    <2>1. i \in (boot + 1) .. head
      BY <1>1, <1>3, CallTypes
    <2> QED
      BY <2>1 DEF PoppedStale
  <1>4. CASE i > head
    BY <1>1, <1>2, <1>4, CallTypes DEF Popped, Stale
  <1> QED
    BY <1>3, <1>4

\* A request is admitted.
LEMMA AdmitKeepsInv ==
    ASSUME NEW t \in Threads, LimiterInv, Admit(t)
    PROVE  LimiterInv'
  <1> USE LimiterAssumption
  <1> DEFINE call == [stamp |-> stamp[t], at |-> clock]
  <1>1. PICK h \in head .. Len(calls) : Popped(t, h) /\ HasRoom(h) /\ head' = h
    BY DEF Admit
  <1>2. /\ calls' = Append(calls, call)
        /\ stamp' = [stamp EXCEPT ![t] = NoStamp]
        /\ UNCHANGED <<clock, boot>>
        /\ stamp[t] # NoStamp
    BY DEF Admit, Leave
  <1>a. /\ LimiterTypeOK /\ StampsRecent /\ PoppedStale /\ DequeBounded /\ RateKept
        /\ head \in 0 .. Len(calls) /\ boot \in 0 .. head
    BY DEF LimiterInv, LimiterTypeOK
  <1>b. /\ Len(calls) \in Nat /\ head \in Nat /\ boot \in Nat /\ clock \in Nat
        /\ \A i \in 1 .. Len(calls) : calls[i].stamp \in Nat /\ calls[i].at \in Nat
    BY <1>a, CallTypes
  <1>3. stamp[t] \in 0 .. Horizon /\ stamp[t] <= clock /\ clock <= stamp[t] + Lag
    BY <1>2, <1>a DEF LimiterTypeOK, StampsRecent, Waiting
  <1>4. call \in [stamp : 0 .. Horizon, at : 0 .. Horizon]
    BY <1>3, <1>a DEF LimiterTypeOK
  <1>5. /\ Len(calls') = Len(calls) + 1
        /\ \A i \in 1 .. Len(calls) : calls'[i] = calls[i]
        /\ calls'[Len(calls) + 1] = call
    BY <1>2, <1>4, <1>a DEF LimiterTypeOK
  <1>6. LimiterTypeOK'
    BY <1>1, <1>2, <1>4, <1>5, <1>a DEF LimiterTypeOK
  <1>7. StampsRecent'
    BY <1>2, <1>3, <1>5, <1>a, <1>b DEF LimiterTypeOK, StampsRecent, Waiting
  <1>p. \A i \in (boot + 1) .. h : calls[i].stamp + Window < clock
    BY <1>1, <1>2, PopsStale
  <1>8. PoppedStale'
    BY <1>1, <1>2, <1>5, <1>a, <1>b, <1>p DEF PoppedStale
  <1>9. DequeBounded'
    BY <1>1, <1>5, <1>a, <1>b DEF DequeBounded, HasRoom
  <1>10. RateKept'
    <2> SUFFICES ASSUME NEW i \in (boot + 1) .. (Len(calls) + 1),
                        NEW j \in (boot + 1) .. (Len(calls) + 1),
                        j = i + MaxCalls
                 PROVE  calls'[i].at + Window < calls'[j].at + Lag
      BY <1>2, <1>5 DEF RateKept
    <2>1. CASE j <= Len(calls)
      <3>1. i \in 1 .. Len(calls) /\ j \in 1 .. Len(calls)
        BY <2>1, <1>a, <1>b
      <3>2. calls[i].at + Window < calls[j].at + Lag
        BY <2>1, <1>a, <1>b DEF RateKept
      <3> QED
        BY <3>1, <3>2, <1>5
    <2>2. CASE j = Len(calls) + 1
      <3>1. i \in (boot + 1) .. h
        BY <1>1, <2>2, <1>a, <1>b DEF HasRoom
      <3>2. calls[i].stamp + Window < clock
        BY <1>p, <3>1
      <3>3. i \in 1 .. Len(calls) /\ calls[i].stamp \in Nat /\ calls[i].at \in Nat
        BY <3>1, <1>1, <1>a, <1>b
      <3>4. calls[i].at <= calls[i].stamp + Lag
        BY <3>3, <1>a DEF StampsRecent
      <3>5. calls[i].at + Window < clock + Lag
        BY <3>2, <3>3, <3>4, <1>b
      <3>6. calls'[i] = calls[i] /\ calls'[j].at = clock
        BY <1>5, <2>2, <3>3
      <3> QED
        BY <3>5, <3>6
    <2> QED
      BY <2>1, <2>2, <1>b
  <1> QED
    BY <1>6, <1>7, <1>8, <1>9, <1>10 DEF LimiterInv

\* A request is refused; what was stale is gone all the same.
LEMMA RefuseKeepsInv ==
    ASSUME NEW t \in Threads, LimiterInv, Refuse(t)
    PROVE  LimiterInv'
  <1> USE LimiterAssumption DEF LimiterInv, LimiterTypeOK
  <1>1. PICK h \in head .. Len(calls) : Popped(t, h) /\ head' = h
    BY DEF Refuse
  <1>2. /\ stamp' = [stamp EXCEPT ![t] = NoStamp]
        /\ UNCHANGED <<clock, calls, boot>>
        /\ stamp[t] # NoStamp
    BY DEF Refuse, Leave
  <1>3. LimiterTypeOK'
    BY <1>1, <1>2
  <1>4. StampsRecent'
    BY <1>2 DEF StampsRecent, Waiting
  <1>5. PoppedStale'
    BY <1>1, <1>2, PopsStale DEF PoppedStale
  <1>6. DequeBounded' /\ RateKept'
    BY <1>1, <1>2 DEF DequeBounded, RateKept
  <1> QED
    BY <1>3, <1>4, <1>5, <1>6

\* The process restarts with an empty deque.
LEMMA RestartKeepsInv == LimiterInv /\ Restart => LimiterInv'
  <1> SUFFICES ASSUME LimiterInv, Restart PROVE LimiterInv'
    OBVIOUS
  <1> USE LimiterAssumption DEF LimiterInv, LimiterTypeOK
  <1>1. LimiterTypeOK'
    BY DEF Restart
  <1>2. StampsRecent'
    BY DEF Restart, StampsRecent, Waiting
  <1>3. PoppedStale' /\ DequeBounded' /\ RateKept'
    BY DEF Restart, PoppedStale, DequeBounded, RateKept
  <1> QED
    BY <1>1, <1>2, <1>3

\* Every step of the limiter keeps the invariant.
LEMMA LimiterInvNext == LimiterInv /\ [LimiterNext]_limiterVars => LimiterInv'
  <1> SUFFICES ASSUME LimiterInv, [LimiterNext]_limiterVars PROVE LimiterInv'
    OBVIOUS
  <1>1. CASE UNCHANGED limiterVars
    BY <1>1
    DEF limiterVars, LimiterInv, LimiterTypeOK, StampsRecent, PoppedStale, DequeBounded,
        RateKept, Waiting
  <1>2. ASSUME NEW t \in Threads, ReadClock(t) \/ Admit(t) \/ Refuse(t) PROVE LimiterInv'
    BY <1>2, ReadClockKeepsInv, AdmitKeepsInv, RefuseKeepsInv
  <1> QED
    BY <1>1, <1>2, TickKeepsInv, RestartKeepsInv DEF LimiterNext

\* The deque stays in order and within its limit (main.py, _bootstrap_rate_state).
THEOREM LimiterInvariance == LimiterSpec => []LimiterInv
  BY LimiterInvInit, LimiterInvNext, PTL DEF LimiterSpec

\* No window shorter by Lag admits more than the limit, for every limit, window,
\* delay between the clock and the lock and number of threads
\* (main.py, _enforce_bootstrap_rate_limit).
THEOREM WindowIsKept == LimiterSpec => []RateKept
  <1>1. LimiterInv => RateKept
    BY DEF LimiterInv
  <1> QED
    BY <1>1, LimiterInvariance, PTL

USE DEF NoRun, Reports, RunIds

-----------------------------------------------------------------------------
(* Facts about the state *)

\* What a request is made of.
LEMMA RequestFields ==
    ASSUME NEW r \in Requests
    PROVE  /\ r.key \in Keys \cup {NoKey}
           /\ r.suggestions \in Seq(Sources \cup {BadUrl})
           /\ r.ingest \in BOOLEAN
  BY BootstrapAssumption

\* The tables are numbered from 1.
LEMMA TableTypes ==
    ASSUME TypeOK
    PROVE  /\ Len(runs) \in Nat /\ DOMAIN runs = 1 .. Len(runs)
           /\ Len(events) \in Nat /\ DOMAIN events = 1 .. Len(events)
           /\ \A r \in 1 .. Len(runs) :
                 runs[r].key \in Keys \cup {NoKey} /\ runs[r].sources \in SUBSET Sources
           /\ \A e \in 1 .. Len(events) :
                 events[e] \in [req : Requests, results : Seq(Reports), run : Nat]
  <1>1. Len(runs) \in Nat /\ DOMAIN runs = 1 .. Len(runs)
    BY LenProperties DEF TypeOK
  <1>2. Len(events) \in Nat /\ DOMAIN events = 1 .. Len(events)
    BY LenProperties DEF TypeOK
  <1>3. \A r \in 1 .. Len(runs) : runs[r] \in [key : Keys \cup {NoKey}, sources : SUBSET Sources]
    BY ElementOfSeq DEF TypeOK
  <1>4. \A e \in 1 .. Len(events) : events[e] \in [req : Requests, results : Seq(Reports), run : Nat]
    BY ElementOfSeq DEF TypeOK
  <1> QED
    BY <1>1, <1>2, <1>3, <1>4

\* A request that is being served has a payload.
LEMMA ServedTypes ==
    ASSUME TypeOK, NEW t \in Threads, pc[t] # "idle"
    PROVE  /\ req[t] \in Requests
           /\ Key(t) \in Keys \cup {NoKey}
           /\ req[t].suggestions \in Seq(Sources \cup {BadUrl})
           /\ results[t] \in Seq(Reports)
           /\ Len(results[t]) \in Nat
           /\ run[t] \in Nat
  <1>1. req[t] \in Requests /\ results[t] \in Seq(Reports) /\ run[t] \in Nat
    BY DEF TypeOK
  <1> QED
    BY <1>1, RequestFields, LenProperties DEF Key

\* What the insert of a run leaves of the runs that were there.
LEMMA RunInserted ==
    ASSUME TypeOK, NEW t \in Threads, CreateRun(t)
    PROVE  /\ runs' \in Seq([key : Keys \cup {NoKey}, sources : SUBSET Sources])
           /\ Len(runs') = Len(runs) + 1
           /\ \A r \in 1 .. Len(runs) : runs'[r] = runs[r]
           /\ runs'[Len(runs) + 1] = [key |-> Key(t), sources |-> Valid(req[t])]
  <1>1. [key |-> Key(t), sources |-> Valid(req[t])]
           \in [key : Keys \cup {NoKey}, sources : SUBSET Sources]
    BY ServedTypes DEF CreateRun, Valid
  <1>2. runs \in Seq([key : Keys \cup {NoKey}, sources : SUBSET Sources])
    BY DEF TypeOK
  <1>3. runs' = Append(runs, [key |-> Key(t), sources |-> Valid(req[t])])
    BY DEF CreateRun
  <1> QED
    BY <1>1, <1>2, <1>3, AppendProperties

\* What the insert of an event leaves of the events that were there.
LEMMA EventInserted ==
    ASSUME TypeOK, NEW t \in Threads, CreateEvent(t)
    PROVE  /\ events' \in Seq([req : Requests, results : Seq(Reports), run : Nat])
           /\ Len(events') = Len(events) + 1
           /\ DOMAIN events' = 1 .. (Len(events) + 1)
           /\ \A e \in 1 .. Len(events) : events'[e] = events[e]
           /\ events'[Len(events) + 1] = [req |-> req[t], results |-> results[t], run |-> run[t]]
  <1>1. [req |-> req[t], results |-> results[t], run |-> run[t]]
           \in [req : Requests, results : Seq(Reports), run : Nat]
    BY ServedTypes DEF CreateEvent
  <1>2. events \in Seq([req : Requests, results : Seq(Reports), run : Nat])
    BY DEF TypeOK
  <1>3. events' = Append(events, [req |-> req[t], results |-> results[t], run |-> run[t]])
    BY DEF CreateEvent
  <1> QED
    BY <1>1, <1>2, <1>3, AppendProperties, LenProperties

\* What a report leaves of the results that were there.
LEMMA Reported ==
    ASSUME TypeOK, NEW t \in Threads, NEW result \in Reports, Report(t, result)
    PROVE  /\ results' \in [Threads -> Seq(Reports)]
           /\ \A u \in Threads : u # t => results'[u] = results[u]
           /\ Len(results[t]) \in Nat
           /\ Len(results'[t]) = Len(results[t]) + 1
  <1>1. results[t] \in Seq(Reports) /\ results'[t] = Append(results[t], result)
    BY DEF TypeOK, Report
  <1>2. Append(results[t], result) \in Seq(Reports) /\ Len(Append(results[t], result)) = Len(results[t]) + 1
    BY <1>1, AppendProperties
  <1>3. Len(results[t]) \in Nat
    BY <1>1, LenProperties
  <1> QED
    BY <1>1, <1>2, <1>3 DEF TypeOK, Report

-----------------------------------------------------------------------------
(* The limiter and the types *)

\* The initial state satisfies the invariant.
LEMMA BootInvInit == Init => BootInv
  <1> SUFFICES ASSUME Init PROVE BootInv
    OBVIOUS
  <1>1. LimiterInv
    BY LimiterInvInit DEF Init
  <1>2. TypeOK
    <2>1. <<>> \in Seq(Reports) /\ \A S : <<>> \in Seq(S)
      BY EmptySeq
    <2> QED
      BY <2>1 DEF Init, TypeOK, PCs
  <1>3. Len(runs) = 0 /\ Len(events) = 0 /\ DOMAIN events = {}
    BY DEF Init
  <1>4. SoleWorker /\ Unsettled /\ OneEvent /\ AnswersLogged
    BY <1>3 DEF Init, SoleWorker, Unsettled, OneEvent, AnswersLogged, Working
  <1>5. RunsOwned /\ RunsNamed /\ RunsCovered
    BY <1>3 DEF Init, RunsOwned, RunsNamed, RunsCovered
  <1>6. Catalogued
    <2> SUFFICES ASSUME NEW t \in Threads PROVE UpsertedSoFar(t)
      BY DEF Catalogued
    <2>1. pc[t] = "idle" /\ results[t] = <<>>
      BY DEF Init
    <2>2. Len(results[t]) = 0
      BY <2>1
    <2> QED
      BY <2>1, <2>2 DEF UpsertedSoFar, Working
  <1> QED
    BY <1>1, <1>2, <1>4, <1>5, <1>6 DEF BootInv

\* Every step is a step of the limiter or leaves it alone.
LEMMA LimiterOrStutter == [Next]_vars => [LimiterNext]_limiterVars
  <1> SUFFICES ASSUME [Next]_vars PROVE [LimiterNext]_limiterVars
    OBVIOUS
  <1>1. ASSUME NEW t \in Threads, Serve(t) PROVE [LimiterNext]_limiterVars
    BY <1>1
    DEF Serve, Arrive, Admitted, Refused, Conflict, Replay, Miss, SkipInvalid, SkipDuplicate,
        SelectSource, UpsertSource, CreateRun, NoRunWanted, CreateEvent, Fail, LimiterNext
  <1>2. ASSUME NEW s \in Sources, Operator(s) PROVE [LimiterNext]_limiterVars
    BY <1>2 DEF Operator, SetEnabled, UpsertByHand
  <1> QED
    BY <1>1, <1>2 DEF Next, vars, TimePasses, Die, LimiterNext

\* Ending requests keeps the types of their variables.
LEMMA EndTypes ==
    ASSUME TypeOK, NEW T \in SUBSET Threads, End(T)
    PROVE  /\ pc' \in [Threads -> PCs]
           /\ req' \in [Threads -> Requests \cup {NoRequest}]
           /\ \A t \in Threads : pc'[t] # "idle" => req'[t] \in Requests
           /\ found' \subseteq Threads
           /\ results' \in [Threads -> Seq(Reports)]
           /\ run' \in [Threads -> Nat]
  <1>1. <<>> \in Seq(Reports)
    BY EmptySeq
  <1> QED
    BY <1>1 DEF End, TypeOK, PCs

\* The keys a request may leave behind are keys.
LEMMA LeftBehindTypes ==
    ASSUME TypeOK, NEW T \in SUBSET Threads
    PROVE  LeftBehind(T) \subseteq Keys \cup {NoKey}
  BY ServedTypes DEF LeftBehind

\* Every step keeps the types.
LEMMA TypesKept == BootInv /\ [Next]_vars => TypeOK'
  <1> SUFFICES ASSUME BootInv, [Next]_vars PROVE TypeOK'
    OBVIOUS
  <1>0. TypeOK
    BY DEF BootInv
  <1>1. ASSUME NEW t \in Threads, NEW r \in Requests, Arrive(t, r) PROVE TypeOK'
    BY <1>0, <1>1 DEF Arrive, Goto, TypeOK, PCs, tables, history
  <1>2. ASSUME NEW t \in Threads, Admitted(t) \/ NoRunWanted(t) PROVE TypeOK'
    BY <1>0, <1>2 DEF Admitted, NoRunWanted, Goto, TypeOK, PCs, tables, history
  <1>3. ASSUME NEW t \in Threads, Refused(t) \/ Conflict(t) PROVE TypeOK'
    <2>1. End({t}) /\ UNCHANGED <<tables, history>>
      BY <1>3 DEF Refused, Conflict
    <2> QED
      BY <1>0, <2>1, EndTypes DEF TypeOK, tables, history
  <1>4. ASSUME NEW t \in Threads, Replay(t) PROVE TypeOK'
    <2>1. PICK e \in Newest(Key(t)) : answers' = answers \cup {Answer(events[e])}
      BY <1>4 DEF Replay
    <2>2. e \in 1 .. Len(events) /\ events[e].req.key = Key(t) /\ Key(t) # NoKey
      BY <1>0, <1>4, <2>1, TableTypes DEF Newest, EventsOf, Replay, Found
    <2>3. Key(t) \in Keys
      BY <1>0, <1>4, <2>2, ServedTypes DEF Replay
    <2>4. Answer(events[e]) \in [key : Keys, results : Seq(Reports), run : Nat]
      BY <1>0, <2>2, <2>3, TableTypes DEF Answer
    <2>5. End({t}) /\ UNCHANGED <<tables, raced, dropped>>
      BY <1>4 DEF Replay
    <2> QED
      BY <1>0, <2>1, <2>4, <2>5, EndTypes DEF TypeOK, tables
  <1>5. ASSUME NEW t \in Threads, Miss(t) PROVE TypeOK'
    <2>1. {Key(u) : u \in {u \in Threads : Working(u) /\ Key(u) = Key(t)}} \subseteq Keys \cup {NoKey}
      BY <1>0, ServedTypes DEF Working
    <2> QED
      BY <1>0, <1>5, <2>1 DEF Miss, Goto, TypeOK, PCs, tables
  <1>6. ASSUME NEW t \in Threads, SkipInvalid(t) \/ SkipDuplicate(t) PROVE TypeOK'
    <2>1. /\ Report(t, "invalid") \/ Report(t, "skipped_duplicate")
          /\ UNCHANGED <<tables, pc, req, found, run, history>>
      BY <1>6 DEF SkipInvalid, SkipDuplicate
    <2>2. results' \in [Threads -> Seq(Reports)]
      BY <1>0, <2>1, Reported
    <2> QED
      BY <1>0, <2>1, <2>2 DEF TypeOK, tables, history
  <1>7. ASSUME NEW t \in Threads, SelectSource(t) PROVE TypeOK'
    BY <1>0, <1>7 DEF SelectSource, Goto, TypeOK, PCs, tables, history
  <1>8. ASSUME NEW t \in Threads, UpsertSource(t) PROVE TypeOK'
    <2>1. Report(t, "updated") \/ Report(t, "created")
      BY <1>8 DEF UpsertSource
    <2>2. results' \in [Threads -> Seq(Reports)]
      BY <1>0, <2>1, Reported
    <2> QED
      BY <1>0, <1>8, <2>2 DEF UpsertSource, Goto, TypeOK, PCs, history
  <1>9. ASSUME NEW t \in Threads, CreateRun(t) PROVE TypeOK'
    <2>1. Len(runs) + 1 \in Nat
      BY <1>0, TableTypes
    <2> QED
      BY <1>0, <1>9, <2>1, RunInserted DEF CreateRun, Goto, TypeOK, PCs, history
  <1>10. ASSUME NEW t \in Threads, CreateEvent(t) PROVE TypeOK'
    <2> DEFINE event == [req |-> req[t], results |-> results[t], run |-> run[t]]
    <2>1. pc[t] # "idle" /\ End({t}) /\ UNCHANGED <<catalog, runs, raced, dropped>>
      BY <1>10 DEF CreateEvent
    <2>2. Key(t) # NoKey => Answer(event) \in [key : Keys, results : Seq(Reports), run : Nat]
      BY <1>0, <2>1, ServedTypes DEF Answer, Key
    <2>3. answers' = IF Key(t) = NoKey THEN answers ELSE answers \cup {Answer(event)}
      BY <1>10 DEF CreateEvent
    <2> QED
      BY <1>0, <1>10, <2>1, <2>2, <2>3, EventInserted, EndTypes DEF TypeOK
  <1>11. ASSUME NEW t \in Threads, Fail(t) PROVE TypeOK'
    <2>1. End({t}) /\ dropped' = dropped \cup LeftBehind({t})
          /\ UNCHANGED <<tables, answers, raced>>
      BY <1>11 DEF Fail
    <2> QED
      BY <1>0, <2>1, EndTypes, LeftBehindTypes DEF TypeOK, tables
  <1>12. CASE Die
    <2>1. End(Threads) /\ dropped' = dropped \cup LeftBehind(Threads)
          /\ UNCHANGED <<tables, answers, raced>>
      BY <1>12 DEF Die
    <2> QED
      BY <1>0, <2>1, EndTypes, LeftBehindTypes DEF TypeOK, tables
  <1>13. ASSUME NEW s \in Sources, Operator(s) PROVE TypeOK'
    BY <1>0, <1>13 DEF Operator, SetEnabled, UpsertByHand, TypeOK, threads, history
  <1>14. CASE TimePasses \/ UNCHANGED vars
    BY <1>0, <1>14 DEF TimePasses, vars, TypeOK, tables, threads, history
  <1> QED
    BY <1>1, <1>2, <1>3, <1>4, <1>5, <1>6, <1>7, <1>8, <1>9, <1>10, <1>11, <1>12, <1>13, <1>14
    DEF Next, Serve

-----------------------------------------------------------------------------
(* Idempotency *)

\* The history only grows.
LEMMA HistoryGrows == [Next]_vars => raced \subseteq raced' /\ dropped \subseteq dropped'
  <1> SUFFICES ASSUME [Next]_vars PROVE raced \subseteq raced' /\ dropped \subseteq dropped'
    OBVIOUS
  <1>1. ASSUME NEW t \in Threads, Serve(t)
        PROVE  raced \subseteq raced' /\ dropped \subseteq dropped'
    BY <1>1
    DEF Serve, Arrive, Admitted, Refused, Conflict, Replay, Miss, SkipInvalid, SkipDuplicate,
        SelectSource, UpsertSource, CreateRun, NoRunWanted, CreateEvent, Fail, history
  <1>2. ASSUME NEW s \in Sources, Operator(s)
        PROVE  raced \subseteq raced' /\ dropped \subseteq dropped'
    BY <1>2 DEF Operator, SetEnabled, UpsertByHand, history
  <1> QED
    BY <1>1, <1>2 DEF Next, vars, history, TimePasses, Die

\* Only a miss puts a request to work, and only that one.
LEMMA WorkBegins ==
    ASSUME TypeOK, [Next]_vars, NEW u \in Threads, Working(u)'
    PROVE  (Working(u) /\ req'[u] = req[u]) \/ Miss(u)
  <1>1. ASSUME NEW t \in Threads, Serve(t), ~Miss(t) PROVE Working(u) /\ req'[u] = req[u]
    <2>1. ASSUME NEW r \in Requests, Arrive(t, r) PROVE Working(u) /\ req'[u] = req[u]
      BY <2>1 DEF Arrive, Goto, Working, TypeOK
    <2>2. CASE Admitted(t) \/ NoRunWanted(t) \/ SelectSource(t) \/ UpsertSource(t) \/ CreateRun(t)
      BY <2>2 DEF Admitted, NoRunWanted, SelectSource, UpsertSource, CreateRun, Goto, Working, TypeOK
    <2>3. CASE Refused(t) \/ Conflict(t) \/ Replay(t) \/ CreateEvent(t) \/ Fail(t)
      BY <2>3 DEF Refused, Conflict, Replay, CreateEvent, Fail, End, Working
    <2>4. CASE SkipInvalid(t) \/ SkipDuplicate(t)
      BY <2>4 DEF SkipInvalid, SkipDuplicate, Working
    <2> QED
      BY <1>1, <2>1, <2>2, <2>3, <2>4 DEF Serve
  <1>2. ASSUME NEW t \in Threads, Miss(t), u # t PROVE Working(u) /\ req'[u] = req[u]
    BY <1>2 DEF Miss, Goto, Working, TypeOK
  <1>3. ASSUME NEW s \in Sources, Operator(s) PROVE Working(u) /\ req'[u] = req[u]
    BY <1>3 DEF Operator, SetEnabled, UpsertByHand, threads, Working
  <1>4. CASE TimePasses \/ Die \/ UNCHANGED vars
    BY <1>4 DEF TimePasses, Die, End, vars, threads, Working
  <1> QED
    BY <1>1, <1>2, <1>3, <1>4 DEF Next

\* A miss: the key has no event, and is raced if anybody works on it.
LEMMA MissFacts ==
    ASSUME NEW t \in Threads, Miss(t)
    PROVE  /\ req' = req /\ events' = events
           /\ Key(t) \in Keys => EventsOf(Key(t)) = {}
           /\ \A u \in Threads : Working(u) /\ Key(u) = Key(t) => Key(t) \in raced'
           /\ ~Working(t)
  BY BootstrapAssumption DEF Miss, tables, Found, Working

\* Whoever works on a key that is not raced does so alone.
LEMMA SoleWorkerKept == BootInv /\ [Next]_vars => SoleWorker'
  <1> SUFFICES ASSUME BootInv, [Next]_vars,
                      NEW t \in Threads, NEW u \in Threads, Working(t)', Working(u)',
                      Key(t)' = Key(u)', Key(t)' \notin raced'
               PROVE  t = u
    BY DEF SoleWorker
  <1>1. TypeOK /\ SoleWorker /\ raced \subseteq raced'
    BY HistoryGrows DEF BootInv
  <1>2. CASE Working(t) /\ Working(u) /\ req'[t] = req[t] /\ req'[u] = req[u]
    BY <1>1, <1>2 DEF SoleWorker, Key
  <1>3. ASSUME Miss(t), Working(u), req'[u] = req[u] PROVE FALSE
    BY <1>3, MissFacts DEF Key
  <1>4. ASSUME Miss(u), Working(t), req'[t] = req[t] PROVE FALSE
    BY <1>4, MissFacts DEF Key
  <1>5. ASSUME Miss(t), Miss(u) PROVE t = u
    BY <1>1, <1>5 DEF Miss, Goto, TypeOK
  <1> QED
    BY <1>1, <1>2, <1>3, <1>4, <1>5, WorkBegins

\* Events are written by CreateEvent alone.
LEMMA EventsChange ==
    ASSUME [Next]_vars
    PROVE  events' = events \/ \E t \in Threads : CreateEvent(t)
  <1>1. ASSUME NEW t \in Threads, Serve(t), ~CreateEvent(t) PROVE events' = events
    BY <1>1
    DEF Serve, Arrive, Admitted, Refused, Conflict, Replay, Miss, SkipInvalid, SkipDuplicate,
        SelectSource, UpsertSource, CreateRun, NoRunWanted, Fail, tables
  <1>2. ASSUME NEW s \in Sources, Operator(s) PROVE events' = events
    BY <1>2 DEF Operator, SetEnabled, UpsertByHand
  <1> QED
    BY <1>1, <1>2 DEF Next, vars, tables, TimePasses, Die

\* An event is written by a request that worked on its key and no longer does.
LEMMA EventWritten ==
    ASSUME TypeOK, NEW t \in Threads, CreateEvent(t)
    PROVE  /\ Working(t) /\ ~Working(t)'
           /\ \A k \in Keys : k # Key(t) => EventsOf(k)' = EventsOf(k)
  <1>1. Working(t) /\ ~Working(t)'
    BY DEF CreateEvent, End, Working
  <1>2. ASSUME NEW k \in Keys, k # Key(t) PROVE EventsOf(k)' = EventsOf(k)
    <2>1. /\ DOMAIN events = 1 .. Len(events) /\ Len(events) \in Nat
          /\ DOMAIN events' = 1 .. (Len(events) + 1)
          /\ \A e \in 1 .. Len(events) : events'[e] = events[e]
          /\ events'[Len(events) + 1] = [req |-> req[t], results |-> results[t], run |-> run[t]]
      BY EventInserted, TableTypes
    <2>2. events'[Len(events) + 1].req.key # k
      BY <1>2, <2>1 DEF Key
    <2>3. \A e : e \in EventsOf(k)' <=> e \in EventsOf(k)
      BY <2>1, <2>2 DEF EventsOf
    <2> QED
      BY <2>3
  <1> QED
    BY <1>1, <1>2

\* Nobody has settled a key that is worked on and not raced.
LEMMA UnsettledKept == BootInv /\ [Next]_vars => Unsettled'
  <1> SUFFICES ASSUME BootInv, [Next]_vars,
                      NEW u \in Threads, Working(u)', Key(u)' \in Keys \ raced'
               PROVE  EventsOf(Key(u))' = {}
    BY DEF Unsettled, EventsOf, Key
  <1>1. TypeOK /\ SoleWorker /\ Unsettled /\ raced \subseteq raced'
    BY HistoryGrows DEF BootInv
  <1>2. CASE Miss(u)
    BY <1>2, MissFacts DEF EventsOf, Key
  <1>3. CASE Working(u) /\ req'[u] = req[u]
    <2>1. EventsOf(Key(u)) = {} /\ Key(u)' = Key(u) /\ Key(u) \in Keys \ raced
      BY <1>1, <1>3 DEF Unsettled, Key
    <2>2. CASE events' = events
      BY <2>1, <2>2 DEF EventsOf
    <2>3. ASSUME NEW t \in Threads, CreateEvent(t) PROVE EventsOf(Key(u))' = {}
      <3>1. t # u
        BY <1>1, <2>3, EventWritten
      <3>2. Key(t) # Key(u)
        BY <1>1, <1>3, <2>1, <2>3, <3>1, EventWritten DEF SoleWorker
      <3> QED
        BY <1>1, <2>1, <2>3, <3>2, EventWritten DEF EventsOf
    <2> QED
      BY <2>1, <2>2, <2>3, EventsChange DEF EventsOf, Key
  <1> QED
    BY <1>1, <1>2, <1>3, WorkBegins

\* A key that is not raced is settled once.
LEMMA OneEventKept == BootInv /\ [Next]_vars => OneEvent'
  <1> SUFFICES ASSUME BootInv, [Next]_vars PROVE OneEvent'
    OBVIOUS
  <1>1. TypeOK /\ Unsettled /\ OneEvent /\ raced \subseteq raced'
    BY HistoryGrows DEF BootInv
  <1>2. CASE events' = events
    BY <1>1, <1>2 DEF OneEvent
  <1>3. ASSUME NEW t \in Threads, CreateEvent(t) PROVE OneEvent'
    <2>1. /\ DOMAIN events = 1 .. Len(events) /\ Len(events) \in Nat
          /\ DOMAIN events' = 1 .. (Len(events) + 1)
          /\ \A e \in 1 .. Len(events) : events'[e] = events[e]
          /\ events'[Len(events) + 1] = [req |-> req[t], results |-> results[t], run |-> run[t]]
      BY <1>1, <1>3, EventInserted, TableTypes
    <2>2. Key(t) \in Keys \ raced => \A e \in 1 .. Len(events) : events[e].req.key # Key(t)
      BY <1>1, <1>3, <2>1, EventWritten DEF Unsettled, EventsOf
    <2>3. events'[Len(events) + 1].req.key = Key(t)
      BY <2>1 DEF Key
    <2> QED
      BY <1>1, <2>1, <2>2, <2>3 DEF OneEvent
  <1> QED
    BY <1>2, <1>3, EventsChange

\* What was answered is what an event says.
LEMMA AnswersLoggedKept == BootInv /\ [Next]_vars => AnswersLogged'
  <1> SUFFICES ASSUME BootInv, [Next]_vars PROVE AnswersLogged'
    OBVIOUS
  <1>1. TypeOK /\ AnswersLogged
    BY DEF BootInv
  <1>2. ASSUME NEW t \in Threads, CreateEvent(t) PROVE AnswersLogged'
    <2>1. /\ DOMAIN events = 1 .. Len(events) /\ Len(events) \in Nat
          /\ DOMAIN events' = 1 .. (Len(events) + 1)
          /\ \A e \in 1 .. Len(events) : events'[e] = events[e]
          /\ events'[Len(events) + 1] = [req |-> req[t], results |-> results[t], run |-> run[t]]
      BY <1>1, <1>2, EventInserted, TableTypes
    <2>2. \A a \in answers' : a \in answers \/ a = Answer(events'[Len(events) + 1])
      BY <1>2, <2>1 DEF CreateEvent
    <2>3. Len(events) + 1 \in DOMAIN events' /\ \A e \in DOMAIN events : e \in DOMAIN events' /\ events'[e] = events[e]
      BY <2>1
    <2> QED
      BY <1>1, <2>2, <2>3 DEF AnswersLogged
  <1>3. ASSUME NEW t \in Threads, Replay(t) PROVE AnswersLogged'
    BY <1>1, <1>3 DEF Replay, Newest, EventsOf, AnswersLogged, tables
  <1>4. ASSUME NEW t \in Threads, Serve(t), ~CreateEvent(t), ~Replay(t)
        PROVE  answers' = answers /\ events' = events
    BY <1>4
    DEF Serve, Arrive, Admitted, Refused, Conflict, Miss, SkipInvalid, SkipDuplicate,
        SelectSource, UpsertSource, CreateRun, NoRunWanted, Fail, tables, history
  <1>5. ASSUME NEW s \in Sources, Operator(s) PROVE answers' = answers /\ events' = events
    BY <1>5 DEF Operator, SetEnabled, UpsertByHand, history
  <1>6. CASE TimePasses \/ Die \/ UNCHANGED vars
    BY <1>1, <1>6 DEF TimePasses, Die, vars, tables, history, AnswersLogged
  <1> QED
    BY <1>1, <1>2, <1>3, <1>4, <1>5, <1>6 DEF Next, AnswersLogged

-----------------------------------------------------------------------------
(* Runs *)

\* Runs are written by CreateRun alone.
LEMMA RunsChange ==
    ASSUME [Next]_vars
    PROVE  runs' = runs \/ \E t \in Threads : CreateRun(t)
  <1>1. ASSUME NEW t \in Threads, Serve(t), ~CreateRun(t) PROVE runs' = runs
    BY <1>1
    DEF Serve, Arrive, Admitted, Refused, Conflict, Replay, Miss, SkipInvalid, SkipDuplicate,
        SelectSource, UpsertSource, CreateEvent, NoRunWanted, Fail, tables
  <1>2. ASSUME NEW s \in Sources, Operator(s) PROVE runs' = runs
    BY <1>2 DEF Operator, SetEnabled, UpsertByHand
  <1> QED
    BY <1>1, <1>2 DEF Next, vars, tables, TimePasses, Die

\* A request that is about to write its event stays so until it does, or fails
\* and leaves its key behind.
LEMMA AboutToLog ==
    ASSUME TypeOK, [Next]_vars, NEW t \in Threads, pc[t] = "event"
    PROVE  \/ pc'[t] = "event" /\ run'[t] = run[t] /\ req'[t] = req[t]
           \/ CreateEvent(t)
           \/ run[t] # NoRun => Key(t) \in dropped'
  <1>1. ASSUME NEW u \in Threads, Serve(u), u # t
        PROVE  pc'[t] = "event" /\ run'[t] = run[t] /\ req'[t] = req[t]
    <2>1. CASE Refused(u) \/ Conflict(u) \/ Replay(u) \/ CreateEvent(u) \/ Fail(u)
      BY <1>1, <2>1 DEF Refused, Conflict, Replay, CreateEvent, Fail, End
    <2> QED
      BY <1>1, <2>1
      DEF Serve, Arrive, Admitted, Miss, SkipInvalid, SkipDuplicate, SelectSource,
          UpsertSource, CreateRun, NoRunWanted, Goto, TypeOK
  <1>2. CASE Serve(t)
    <2>1. CreateEvent(t) \/ Fail(t)
      BY <1>2
      DEF Serve, Arrive, Admitted, Refused, Conflict, Replay, Miss, SkipInvalid, SkipDuplicate,
          SelectSource, UpsertSource, CreateRun, NoRunWanted
    <2> QED
      BY <2>1 DEF Fail, LeftBehind
  <1>3. CASE Die
    BY <1>3 DEF Die, LeftBehind
  <1>4. ASSUME NEW s \in Sources, Operator(s)
        PROVE  pc'[t] = "event" /\ run'[t] = run[t] /\ req'[t] = req[t]
    BY <1>4 DEF Operator, SetEnabled, UpsertByHand, threads
  <1>5. CASE TimePasses \/ UNCHANGED vars
    BY <1>5 DEF TimePasses, vars, threads
  <1> QED
    BY <1>1, <1>2, <1>3, <1>4, <1>5 DEF Next

\* An event that is there stays.
LEMMA EventsStay ==
    ASSUME TypeOK, [Next]_vars, NEW e \in DOMAIN events
    PROVE  e \in DOMAIN events' /\ events'[e] = events[e]
  <1>1. CASE events' = events
    BY <1>1
  <1>2. ASSUME NEW t \in Threads, CreateEvent(t)
        PROVE  e \in DOMAIN events' /\ events'[e] = events[e]
    <2>1. /\ DOMAIN events = 1 .. Len(events) /\ Len(events) \in Nat
          /\ DOMAIN events' = 1 .. (Len(events) + 1)
          /\ \A f \in 1 .. Len(events) : events'[f] = events[f]
      BY <1>2, EventInserted, TableTypes
    <2> QED
      BY <2>1
  <1> QED
    BY <1>1, <1>2, EventsChange

\* A run that is there stays as it is.
LEMMA RunsStay ==
    ASSUME TypeOK, [Next]_vars, NEW r \in 1 .. Len(runs)
    PROVE  r \in 1 .. Len(runs') /\ runs'[r] = runs[r]
  <1>1. CASE runs' = runs
    BY <1>1
  <1>2. ASSUME NEW t \in Threads, CreateRun(t)
        PROVE  r \in 1 .. Len(runs') /\ runs'[r] = runs[r]
    <2>1. /\ Len(runs) \in Nat /\ Len(runs') = Len(runs) + 1
          /\ \A q \in 1 .. Len(runs) : runs'[q] = runs[q]
      BY <1>2, RunInserted, TableTypes
    <2> QED
      BY <2>1
  <1> QED
    BY <1>1, <1>2, RunsChange

\* A run belongs to an event, or to the request that is about to write it.
LEMMA RunsOwnedKept == BootInv /\ [Next]_vars => RunsOwned'
  <1> SUFFICES ASSUME BootInv, [Next]_vars,
                      NEW r \in 1 .. Len(runs'), runs'[r].key \in Keys \ (raced' \cup dropped')
               PROVE  HasEvent(r)' \/ \E t \in Threads : InHandOf(t, r)'
    BY DEF RunsOwned
  <1>1. TypeOK /\ RunsOwned /\ raced \subseteq raced' /\ dropped \subseteq dropped'
    BY HistoryGrows DEF BootInv
  <1>2. CASE r \in 1 .. Len(runs)
    <2>1. runs'[r] = runs[r]
      BY <1>1, <1>2, RunsStay
    <2>2. HasEvent(r) \/ \E t \in Threads : InHandOf(t, r)
      BY <1>1, <1>2, <2>1 DEF RunsOwned
    <2>3. CASE HasEvent(r)
      <3>1. PICK e \in DOMAIN events : events[e].req.key = runs[r].key /\ events[e].run = r
        BY <2>3 DEF HasEvent
      <3> QED
        BY <1>1, <2>1, <3>1, EventsStay DEF HasEvent
    <2>4. ASSUME NEW t \in Threads, InHandOf(t, r)
          PROVE  HasEvent(r)' \/ InHandOf(t, r)'
      <3>1. CASE CreateEvent(t)
        <4>1. /\ Len(events) + 1 \in DOMAIN events'
              /\ events'[Len(events) + 1] = [req |-> req[t], results |-> results[t], run |-> run[t]]
          BY <1>1, <3>1, EventInserted, TableTypes
        <4>2. /\ events'[Len(events) + 1].req.key = Key(t)
              /\ events'[Len(events) + 1].run = run[t]
          BY <4>1 DEF Key
        <4> QED
          BY <2>1, <2>4, <4>1, <4>2 DEF HasEvent, InHandOf
      <3>2. CASE pc'[t] = "event" /\ run'[t] = run[t] /\ req'[t] = req[t]
        BY <2>1, <2>4, <3>2 DEF InHandOf, Key
      <3>3. r # NoRun /\ Key(t) \notin dropped'
        BY <1>2, <2>1, <2>4 DEF InHandOf
      <3> QED
        BY <1>1, <2>4, <3>1, <3>2, <3>3, AboutToLog DEF InHandOf
    <2> QED
      BY <2>2, <2>3, <2>4
  <1>3. CASE r \notin 1 .. Len(runs)
    <2>1. PICK t \in Threads : CreateRun(t)
      BY <1>3, RunsChange
    <2>2. r = Len(runs) + 1 /\ runs'[r] = [key |-> Key(t), sources |-> Valid(req[t])]
      BY <1>1, <1>3, <2>1, RunInserted, TableTypes
    <2>3. pc'[t] = "event" /\ run'[t] = r /\ req' = req
      BY <1>1, <2>1, <2>2 DEF CreateRun, Goto, TypeOK
    <2> QED
      BY <2>2, <2>3 DEF InHandOf, Key
  <1> QED
    BY <1>2, <1>3

\* A request names a run from the moment it queued it.
LEMMA RunTaken ==
    ASSUME TypeOK, RunsNamed, [Next]_vars, NEW t \in Threads, run'[t] # NoRun
    PROVE  \/ CreateRun(t)
           \/ pc'[t] = "event" /\ run'[t] = run[t] /\ req'[t] = req[t]
  <1>1. ASSUME NEW u \in Threads, Serve(u), ~CreateRun(t)
        PROVE  pc'[t] = "event" /\ run'[t] = run[t] /\ req'[t] = req[t]
    <2>1. CASE Refused(u) \/ Conflict(u) \/ Replay(u) \/ CreateEvent(u) \/ Fail(u)
      BY <2>1 DEF Refused, Conflict, Replay, CreateEvent, Fail, End, RunsNamed
    <2>2. CASE CreateRun(u)
      BY <1>1, <2>2 DEF CreateRun, Goto, TypeOK, RunsNamed
    <2> QED
      BY <1>1, <2>1, <2>2
      DEF Serve, Arrive, Admitted, Miss, SkipInvalid, SkipDuplicate, SelectSource,
          UpsertSource, NoRunWanted, Goto, TypeOK, RunsNamed
  <1>2. ASSUME NEW s \in Sources, Operator(s)
        PROVE  pc'[t] = "event" /\ run'[t] = run[t] /\ req'[t] = req[t]
    BY <1>2 DEF Operator, SetEnabled, UpsertByHand, threads, RunsNamed
  <1>3. CASE TimePasses \/ UNCHANGED vars
    BY <1>3 DEF TimePasses, vars, threads, RunsNamed
  <1>4. ~Die
    BY DEF Die, End
  <1> QED
    BY <1>1, <1>2, <1>3, <1>4 DEF Next

\* The run a request or an event names was queued for its key.
LEMMA RunsNamedKept == BootInv /\ [Next]_vars => RunsNamed'
  <1> SUFFICES ASSUME BootInv, [Next]_vars PROVE RunsNamed'
    OBVIOUS
  <1>1. TypeOK /\ RunsNamed
    BY DEF BootInv
  <1>2. ASSUME NEW t \in Threads, run'[t] # NoRun
        PROVE  pc'[t] = "event" /\ run'[t] \in 1 .. Len(runs') /\ runs'[run'[t]].key = Key(t)'
    <2>1. CASE CreateRun(t)
      <3>1. pc'[t] = "event" /\ run'[t] = Len(runs) + 1 /\ req' = req
        BY <1>1, <2>1 DEF CreateRun, Goto, TypeOK
      <3>2. /\ Len(runs') = Len(runs) + 1 /\ Len(runs) \in Nat
            /\ runs'[Len(runs) + 1] = [key |-> Key(t), sources |-> Valid(req[t])]
        BY <1>1, <2>1, RunInserted, TableTypes
      <3> QED
        BY <3>1, <3>2 DEF Key
    <2>2. CASE pc'[t] = "event" /\ run'[t] = run[t] /\ req'[t] = req[t]
      BY <1>1, <1>2, <2>2, RunsStay DEF RunsNamed, Key
    <2> QED
      BY <1>1, <1>2, <2>1, <2>2, RunTaken
  <1>3. ASSUME NEW e \in DOMAIN events', events'[e].run # NoRun
        PROVE  /\ events'[e].run \in 1 .. Len(runs')
               /\ runs'[events'[e].run].key = events'[e].req.key
    <2>1. CASE e \in DOMAIN events
      BY <1>1, <1>3, <2>1, EventsStay, RunsStay DEF RunsNamed
    <2>2. CASE e \notin DOMAIN events
      <3>1. PICK t \in Threads : CreateEvent(t)
        BY <2>2, EventsChange
      <3>a. /\ DOMAIN events = 1 .. Len(events) /\ Len(events) \in Nat
            /\ DOMAIN events' = 1 .. (Len(events) + 1)
            /\ events'[Len(events) + 1] = [req |-> req[t], results |-> results[t], run |-> run[t]]
        BY <1>1, <3>1, EventInserted, TableTypes
      <3>b. e = Len(events) + 1
        BY <2>2, <3>a
      <3>2. events'[e] = [req |-> req[t], results |-> results[t], run |-> run[t]]
        BY <3>a, <3>b
      <3>3. events'[e].run = run[t] /\ events'[e].req.key = Key(t)
        BY <3>2 DEF Key
      <3> QED
        BY <1>1, <1>3, <3>3, RunsStay DEF RunsNamed
    <2> QED
      BY <2>1, <2>2
  <1> QED
    BY <1>2, <1>3 DEF RunsNamed

-----------------------------------------------------------------------------
(* The catalog *)

\* A source in the catalog stays there.
LEMMA CatalogStays ==
    ASSUME TypeOK, [Next]_vars, NEW s \in Sources, catalog[s] # "absent"
    PROVE  catalog'[s] # "absent"
  <1>1. ASSUME NEW t \in Threads, Serve(t) PROVE catalog'[s] # "absent"
    <2>1. CASE UpsertSource(t)
      BY <2>1 DEF UpsertSource, TypeOK
    <2> QED
      BY <1>1, <2>1
      DEF Serve, Arrive, Admitted, Refused, Conflict, Replay, Miss, SkipInvalid, SkipDuplicate,
          SelectSource, CreateRun, NoRunWanted, CreateEvent, Fail, tables
  <1>2. ASSUME NEW u \in Sources, Operator(u) PROVE catalog'[s] # "absent"
    BY <1>2 DEF Operator, SetEnabled, UpsertByHand, TypeOK
  <1> QED
    BY <1>1, <1>2 DEF Next, vars, tables, TimePasses, Die

\* What a request that ended, or has not begun, has upserted: nothing.
LEMMA AtRest ==
    ASSUME NEW t \in Threads, ~Working(t)', results'[t] = <<>>
    PROVE  UpsertedSoFar(t)'
  <1>1. Len(<<>>) = 0
    OBVIOUS
  <1> QED
    BY <1>1 DEF UpsertedSoFar, Working

\* A request that stands still is overtaken by nobody.
LEMMA StandsStill ==
    ASSUME TypeOK, [Next]_vars, NEW t \in Threads, UpsertedSoFar(t),
           pc'[t] = pc[t], req'[t] = req[t], results'[t] = results[t]
    PROVE  UpsertedSoFar(t)'
  <1>1. ASSUME NEW i \in 1 .. Len(results[t]), req[t].suggestions[i] # BadUrl
        PROVE  catalog'[req[t].suggestions[i]] # "absent"
    <2>1. Working(t)
      <3>1. Len(<<>>) = 0
        OBVIOUS
      <3> QED
        BY <1>1, <3>1 DEF UpsertedSoFar
    <2>2. /\ req[t].suggestions \in Seq(Sources \cup {BadUrl})
          /\ Len(results[t]) \in Nat
          /\ Len(results[t]) <= Len(req[t].suggestions)
      BY <2>1, ServedTypes DEF Working, UpsertedSoFar
    <2>3. Len(req[t].suggestions) \in Nat
      BY <2>2, LenProperties
    <2>4. i \in 1 .. Len(req[t].suggestions)
      BY <1>1, <2>2, <2>3
    <2>5. req[t].suggestions[i] \in Sources
      BY <1>1, <2>2, <2>4, ElementOfSeq
    <2> QED
      BY <1>1, <2>5, CatalogStays DEF UpsertedSoFar
  <1>2. Working(t)' <=> Working(t)
    BY DEF Working
  <1>3. MoreToDo(t)' <=> MoreToDo(t)
    BY DEF MoreToDo, Position
  <1>4. Suggestion(t)' = Suggestion(t)
    BY DEF Suggestion, Position
  <1> QED
    BY <1>1, <1>2, <1>3, <1>4 DEF UpsertedSoFar

\* One more suggestion has been dealt with.
LEMMA OneMoreDone ==
    ASSUME TypeOK, [Next]_vars, NEW t \in Threads, UpsertedSoFar(t),
           NEW result \in Reports, Report(t, result),
           Working(t), MoreToDo(t), req'[t] = req[t], pc'[t] = "next",
           Suggestion(t) # BadUrl => catalog'[Suggestion(t)] # "absent"
    PROVE  UpsertedSoFar(t)'
  <1>1. /\ req[t].suggestions \in Seq(Sources \cup {BadUrl})
        /\ Len(results[t]) \in Nat
        /\ Len(results'[t]) = Len(results[t]) + 1
    BY ServedTypes, Reported DEF Working
  <1>2. /\ Len(req[t].suggestions) \in Nat
        /\ DOMAIN req[t].suggestions = 1 .. Len(req[t].suggestions)
    BY <1>1, LenProperties
  <1>3. Len(results[t]) + 1 <= Len(req[t].suggestions)
    BY <1>1, <1>2 DEF MoreToDo, Position
  <1>4. ASSUME NEW i \in 1 .. Len(results'[t]), req[t].suggestions[i] # BadUrl
        PROVE  catalog'[req[t].suggestions[i]] # "absent"
    <2>1. CASE i = Len(results[t]) + 1
      BY <1>4, <2>1 DEF Suggestion, Position
    <2>2. CASE i \in 1 .. Len(results[t])
      <3>1. i \in 1 .. Len(req[t].suggestions)
        BY <1>1, <1>2, <1>3, <2>2
      <3>2. req[t].suggestions[i] \in Sources
        BY <1>1, <1>4, <3>1, ElementOfSeq
      <3> QED
        BY <1>4, <2>2, <3>2, CatalogStays DEF UpsertedSoFar
    <2> QED
      BY <1>1, <2>1, <2>2
  <1> QED
    BY <1>1, <1>3, <1>4 DEF UpsertedSoFar, Working

\* A request has upserted what it has reported on.
LEMMA CataloguedKept == BootInv /\ [Next]_vars => Catalogued'
  <1> SUFFICES ASSUME BootInv, [Next]_vars, NEW t \in Threads PROVE UpsertedSoFar(t)'
    BY DEF Catalogued
  <1>0. TypeOK /\ UpsertedSoFar(t)
    BY DEF BootInv, Catalogued
  <1>1. ASSUME NEW u \in Threads, Serve(u), u # t
        PROVE  pc'[t] = pc[t] /\ req'[t] = req[t] /\ results'[t] = results[t]
    <2>1. CASE Refused(u) \/ Conflict(u) \/ Replay(u) \/ CreateEvent(u) \/ Fail(u)
      BY <1>0, <1>1, <2>1 DEF Refused, Conflict, Replay, CreateEvent, Fail, End, TypeOK
    <2> QED
      BY <1>0, <1>1, <2>1
      DEF Serve, Arrive, Admitted, Miss, SkipInvalid, SkipDuplicate, SelectSource,
          UpsertSource, CreateRun, NoRunWanted, Goto, Report, TypeOK
  <1>2. CASE Refused(t) \/ Conflict(t) \/ Replay(t) \/ CreateEvent(t) \/ Fail(t) \/ Die
    <2>1. ~Working(t)' /\ results'[t] = <<>>
      BY <1>2 DEF Refused, Conflict, Replay, CreateEvent, Fail, Die, End, Working
    <2> QED
      BY <2>1, AtRest
  <1>3. ASSUME \/ \E r \in Requests : Arrive(t, r)
               \/ Admitted(t)
        PROVE  UpsertedSoFar(t)'
    <2>1. ~Working(t) /\ ~Working(t)' /\ results' = results
      BY <1>0, <1>3 DEF Arrive, Admitted, Goto, Working, TypeOK
    <2> QED
      BY <1>0, <2>1, AtRest DEF UpsertedSoFar
  <1>4. CASE Miss(t)
    <2>1. results'[t] = <<>> /\ req' = req /\ pc'[t] = "next" /\ req[t] \in Requests
      BY <1>0, <1>4 DEF Miss, Goto, Working, UpsertedSoFar, TypeOK
    <2>2. Len(<<>>) = 0 /\ Len(req[t].suggestions) \in Nat
      BY <2>1, RequestFields, LenProperties
    <2> QED
      BY <2>1, <2>2 DEF UpsertedSoFar, Working
  <1>5. CASE SkipInvalid(t)
    <2>1. /\ Report(t, "invalid") /\ Working(t) /\ MoreToDo(t) /\ req'[t] = req[t]
          /\ pc'[t] = "next" /\ Suggestion(t) = BadUrl
      BY <1>5 DEF SkipInvalid, Working
    <2> QED
      BY <1>0, <2>1, OneMoreDone
  <1>6. CASE SkipDuplicate(t)
    <2>1. /\ Report(t, "skipped_duplicate") /\ Working(t) /\ MoreToDo(t) /\ req'[t] = req[t]
          /\ pc'[t] = "next" /\ Suggestion(t) # BadUrl /\ Seen(t, Suggestion(t))
          /\ catalog' = catalog
      BY <1>6 DEF SkipDuplicate, Working, tables
    <2>2. catalog'[Suggestion(t)] # "absent"
      BY <1>0, <2>1 DEF Seen, UpsertedSoFar
    <2> QED
      BY <1>0, <2>1, <2>2, OneMoreDone
  <1>7. CASE UpsertSource(t)
    <2>1. /\ Report(t, "updated") \/ Report(t, "created")
          /\ Working(t) /\ MoreToDo(t) /\ req'[t] = req[t]
          /\ pc'[t] = "next" /\ catalog'[Suggestion(t)] # "absent"
      BY <1>0, <1>7 DEF UpsertSource, Goto, Working, UpsertedSoFar, TypeOK
    <2> QED
      BY <1>0, <2>1, OneMoreDone
  <1>8. CASE SelectSource(t)
    <2>1. /\ pc[t] = "next" /\ pc'[t] = "upsert"
          /\ req' = req /\ results' = results /\ catalog' = catalog
          /\ MoreToDo(t) /\ Suggestion(t) # BadUrl
      BY <1>0, <1>8 DEF SelectSource, Goto, TypeOK, tables
    <2>2. Suggestion(t) \in Sources
      <3>1. /\ req[t].suggestions \in Seq(Sources \cup {BadUrl})
            /\ Position(t) \in DOMAIN req[t].suggestions
        BY <1>0, <2>1, ServedTypes DEF MoreToDo
      <3>2. req[t].suggestions[Position(t)] \in Sources \cup {BadUrl}
        BY <3>1, ElementOfSeq, LenProperties
      <3> QED
        BY <2>1, <3>2 DEF Suggestion
    <2>3. MoreToDo(t)' /\ Suggestion(t)' \in Sources
      BY <2>1, <2>2 DEF MoreToDo, Suggestion, Position
    <2> QED
      BY <1>0, <2>1, <2>3 DEF UpsertedSoFar, Working
  <1>9. CASE CreateRun(t) \/ NoRunWanted(t)
    <2>1. /\ pc[t] = "next" /\ pc'[t] = "event"
          /\ req' = req /\ results' = results /\ catalog' = catalog
      BY <1>0, <1>9 DEF CreateRun, NoRunWanted, Goto, TypeOK, tables
    <2> QED
      BY <1>0, <2>1 DEF UpsertedSoFar, Working
  <1>10. ASSUME NEW s \in Sources, Operator(s)
         PROVE  pc' = pc /\ req' = req /\ results' = results
    BY <1>10 DEF Operator, SetEnabled, UpsertByHand, threads
  <1>11. CASE TimePasses \/ UNCHANGED vars
    <2>1. pc' = pc /\ req' = req /\ results' = results
      BY <1>11 DEF TimePasses, vars, threads
    <2> QED
      BY <1>0, <2>1, StandsStill
  <1>12. ASSUME NEW u \in Threads, Serve(u) PROVE UpsertedSoFar(t)'
    BY <1>0, <1>1, <1>2, <1>3, <1>4, <1>5, <1>6, <1>7, <1>8, <1>9, <1>12, StandsStill DEF Serve
  <1> QED
    BY <1>0, <1>2, <1>10, <1>11, <1>12, StandsStill DEF Next

\* A run names catalogued sources, and an answer the run of its key.
LEMMA RunsCoveredKept ==
    BootInv /\ [Next]_vars /\ AnswersLogged' /\ RunsNamed' => RunsCovered'
  <1> SUFFICES ASSUME BootInv, [Next]_vars, AnswersLogged', RunsNamed' PROVE RunsCovered'
    OBVIOUS
  <1>1. TypeOK /\ Catalogued /\ RunsCovered
    BY DEF BootInv
  <1>2. ASSUME NEW r \in 1 .. Len(runs'), NEW s \in runs'[r].sources
        PROVE  catalog'[s] # "absent"
    <2>1. CASE r \in 1 .. Len(runs)
      <3>1. s \in Sources /\ catalog[s] # "absent"
        BY <1>1, <1>2, <2>1, RunsStay, TableTypes DEF RunsCovered
      <3> QED
        BY <1>1, <3>1, CatalogStays
    <2>2. CASE r \notin 1 .. Len(runs)
      <3>1. PICK t \in Threads : CreateRun(t)
        BY <2>2, RunsChange
      <3>a. /\ Len(runs) \in Nat /\ Len(runs') = Len(runs) + 1
            /\ runs'[Len(runs) + 1] = [key |-> Key(t), sources |-> Valid(req[t])]
        BY <1>1, <3>1, RunInserted, TableTypes
      <3>b. r = Len(runs) + 1
        BY <2>2, <3>a
      <3>2. s \in Valid(req[t])
        BY <1>2, <3>a, <3>b
      <3>3. PICK i \in DOMAIN req[t].suggestions : s \in Sources /\ req[t].suggestions[i] = s
        BY <3>2 DEF Valid
      <3>4. /\ Working(t) /\ pc[t] # "idle" /\ ~MoreToDo(t) /\ catalog' = catalog
        BY <3>1 DEF CreateRun, Working
      <3>5. /\ Len(results[t]) \in Nat
            /\ req[t].suggestions \in Seq(Sources \cup {BadUrl})
        BY <1>1, <3>4, ServedTypes
      <3>6. /\ Len(req[t].suggestions) \in Nat
            /\ DOMAIN req[t].suggestions = 1 .. Len(req[t].suggestions)
        BY <3>5, LenProperties
      <3>7. Len(results[t]) <= Len(req[t].suggestions)
        BY <1>1, <3>4 DEF Catalogued, UpsertedSoFar
      <3>8. i \in 1 .. Len(results[t])
        BY <3>4, <3>5, <3>6, <3>7 DEF MoreToDo, Position
      <3> QED
        BY <1>1, <3>3, <3>4, <3>8, BootstrapAssumption DEF Catalogued, UpsertedSoFar
    <2> QED
      BY <2>1, <2>2
  <1>3. ASSUME NEW a \in answers', a.run # NoRun
        PROVE  a.run \in 1 .. Len(runs') /\ runs'[a.run].key = a.key
    <2>1. PICK e \in DOMAIN events' : a = Answer(events'[e])
      BY <1>3 DEF AnswersLogged
    <2>2. a.run = events'[e].run /\ a.key = events'[e].req.key
      BY <2>1 DEF Answer
    <2> QED
      BY <1>3, <2>2 DEF RunsNamed
  <1> QED
    BY <1>2, <1>3 DEF RunsCovered

-----------------------------------------------------------------------------
(* Theorems *)

\* Every step keeps the invariant.
LEMMA BootInvNext == BootInv /\ [Next]_vars => BootInv'
  <1> SUFFICES ASSUME BootInv, [Next]_vars PROVE BootInv'
    OBVIOUS
  <1>1. LimiterInv'
    BY LimiterInvNext, LimiterOrStutter DEF BootInv
  <1>2. TypeOK' /\ SoleWorker' /\ Unsettled' /\ OneEvent' /\ AnswersLogged'
    BY TypesKept, SoleWorkerKept, UnsettledKept, OneEventKept, AnswersLoggedKept
  <1>3. RunsOwned' /\ RunsNamed' /\ Catalogued'
    BY RunsOwnedKept, RunsNamedKept, CataloguedKept
  <1>4. RunsCovered'
    BY <1>2, <1>3, RunsCoveredKept
  <1> QED
    BY <1>1, <1>2, <1>3, <1>4 DEF BootInv

\* Types, the limiter and who works on which key
\* (main.py, bootstrap_research_sources_endpoint).
THEOREM BootstrapInvariance == Spec => []BootInv
  BY BootInvInit, BootInvNext, PTL DEF Spec

\* The endpoint keeps to the window of its rate limiter.
THEOREM BootstrapKeepsRate == Spec => []RateKept
  <1>1. BootInv => RateKept
    BY DEF BootInv, LimiterInv
  <1> QED
    BY <1>1, BootstrapInvariance, PTL

\* One key makes one run, unless it was raced or left halfway.
THEOREM OneRunForAKey == Spec => []KeyMakesOneRun
  <1>1. BootInv => KeyMakesOneRun
    <2> SUFFICES ASSUME BootInv, NEW q \in 1 .. Len(runs), NEW r \in 1 .. Len(runs),
                        runs[q].key = runs[r].key, runs[q].key \in Keys \ (raced \cup dropped)
                 PROVE  q = r
      BY DEF KeyMakesOneRun
    <2>1. RunsOwned /\ OneEvent /\ SoleWorker /\ Unsettled
      BY DEF BootInv
    <2>2. ASSUME NEW i \in 1 .. Len(runs), NEW t \in Threads, InHandOf(t, i)
          PROVE  Working(t) /\ Key(t) = runs[i].key /\ run[t] = i
      BY <2>2 DEF InHandOf, Working
    <2>3. CASE HasEvent(q) /\ HasEvent(r)
      BY <2>1, <2>3 DEF HasEvent, OneEvent
    <2>4. ASSUME NEW t \in Threads, InHandOf(t, q), HasEvent(r) PROVE FALSE
      BY <2>1, <2>2, <2>4 DEF HasEvent, Unsettled, EventsOf
    <2>5. ASSUME NEW t \in Threads, InHandOf(t, r), HasEvent(q) PROVE FALSE
      BY <2>1, <2>2, <2>5 DEF HasEvent, Unsettled, EventsOf
    <2>6. ASSUME NEW t \in Threads, NEW u \in Threads, InHandOf(t, q), InHandOf(u, r)
          PROVE  q = r
      <3>1. Working(t) /\ Working(u) /\ Key(t) = Key(u) /\ run[t] = q /\ run[u] = r
        BY <2>2, <2>6
      <3>2. Key(t) \notin raced
        BY <2>2, <2>6
      <3> QED
        BY <2>1, <3>1, <3>2 DEF SoleWorker
    <2>7. /\ HasEvent(q) \/ \E t \in Threads : InHandOf(t, q)
          /\ HasEvent(r) \/ \E t \in Threads : InHandOf(t, r)
      BY <2>1 DEF RunsOwned
    <2> QED
      BY <2>3, <2>4, <2>5, <2>6, <2>7
  <1> QED
    BY <1>1, BootstrapInvariance, PTL

\* Whoever sends a key is answered alike, unless it was raced.
THEOREM AnswersAreAlike == Spec => []RepliesAlike
  <1>1. BootInv => RepliesAlike
    <2> SUFFICES ASSUME BootInv, NEW a \in answers, NEW b \in answers,
                        a.key = b.key, a.key \notin raced
                 PROVE  a = b
      BY DEF RepliesAlike
    <2>1. PICK e \in DOMAIN events : a = Answer(events[e])
      BY DEF BootInv, AnswersLogged
    <2>2. PICK f \in DOMAIN events : b = Answer(events[f])
      BY DEF BootInv, AnswersLogged
    <2>3. a.key \in Keys
      BY DEF BootInv, TypeOK
    <2>4. a.key = events[e].req.key /\ b.key = events[f].req.key
      BY <2>1, <2>2 DEF Answer
    <2> QED
      BY <2>1, <2>2, <2>3, <2>4 DEF BootInv, OneEvent
  <1> QED
    BY <1>1, BootstrapInvariance, PTL

\* A run that a worker can see names sources it will find.
THEOREM RunsAreCovered == Spec => []RunsCovered
  <1>1. BootInv => RunsCovered
    BY DEF BootInv
  <1> QED
    BY <1>1, BootstrapInvariance, PTL

\* A settled key that is not raced changes nothing when it is sent again.
THEOREM SettledKeysAreFinal == Spec => SettledIsFinal
  <1>1. BootInv /\ [Next]_vars =>
          [\A t \in Threads :
              pc[t] # "idle" /\ pc'[t] # pc[t] /\ Key(t) \in Settled \ raced
                  => UNCHANGED tables]_vars
    <2> SUFFICES ASSUME BootInv, [Next]_vars, NEW t \in Threads,
                        pc[t] # "idle", pc'[t] # pc[t], Key(t) \in Settled \ raced
                 PROVE  UNCHANGED tables
      OBVIOUS
    <2>1. TypeOK /\ ~Working(t)
      BY DEF BootInv, Unsettled, Settled
    <2>2. CASE Serve(t)
      BY <2>1, <2>2
      DEF Serve, Arrive, Admitted, Refused, Conflict, Replay, Miss, SkipInvalid, SkipDuplicate,
          SelectSource, UpsertSource, CreateRun, NoRunWanted, CreateEvent, Fail, Working
    <2>3. ASSUME NEW u \in Threads, Serve(u), u # t PROVE FALSE
      <3>1. CASE Refused(u) \/ Conflict(u) \/ Replay(u) \/ CreateEvent(u) \/ Fail(u)
        BY <2>1, <2>3, <3>1 DEF Refused, Conflict, Replay, CreateEvent, Fail, End, TypeOK
      <3> QED
        BY <2>1, <2>3, <3>1
        DEF Serve, Arrive, Admitted, Miss, SkipInvalid, SkipDuplicate, SelectSource,
            UpsertSource, CreateRun, NoRunWanted, Goto, TypeOK
    <2>4. CASE Die
      BY <2>4 DEF Die
    <2>5. ~(\E s \in Sources : Operator(s)) /\ ~TimePasses /\ ~(UNCHANGED vars)
      BY DEF Operator, SetEnabled, UpsertByHand, TimePasses, vars, threads
    <2> QED
      BY <2>2, <2>3, <2>4, <2>5 DEF Next
  <1> QED
    BY <1>1, BootstrapInvariance, PTL DEF Spec, SettledIsFinal

=============================================================================
