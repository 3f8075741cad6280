-------------------------- MODULE SourceBootstrap --------------------------
(***************************************************************************)
(* POST /v2/research/sources/bootstrap (app/main.py): past the rate        *)
(* limiter a request looks its idempotency key up, upserts its suggestions *)
(* one by one, queues a run and writes the event that answers whoever      *)
(* sends the key again.  Each is a transaction of its own, and a request   *)
(* may fail, or the process die, between any two.  Dry runs write nothing  *)
(* and pass by the limiter and the key; they are left out.                 *)
(***************************************************************************)
EXTENDS BootstrapLimiter, FiniteSets

CONSTANTS
    Sources,      \* source ids: topic, kind and canonical URL
    BadUrl,       \* a base_url that has no canonical form
    Keys, NoKey,  \* idempotency keys
    Requests,     \* payloads: key, suggestions, trigger_ingest
    NoRequest,
    MaxRequests   \* bound: requests admitted

ASSUME BootstrapAssumption ==
    /\ BadUrl \notin Sources
    /\ NoKey \notin Keys
    /\ NoRequest \notin Requests
    /\ Requests \subseteq [key : Keys \cup {NoKey},
                           suggestions : Seq(Sources \cup {BadUrl}),
                           ingest : BOOLEAN]
    /\ MaxRequests \in Nat

VARIABLES
    catalog,    \* source -> "absent", or its enabled column: "on", "off"
    runs,       \* the runs queued by the endpoint: key and sources
    events,     \* research_bootstrap_events, in the order of created_at
    pc,         \* thread -> its next transaction
    req,        \* thread -> its payload, NoRequest when idle
    found,      \* threads whose select in the upsert saw the source
    results,    \* thread -> what became of its suggestions so far
    run,        \* thread -> the run it queued, NoRun if none
    answers,    \* history: what requests with a key were answered
    raced,      \* history: keys two requests worked on at once
    dropped     \* history: keys of a request that failed after it queued a run

tables  == <<catalog, runs, events>>
threads == <<pc, req, found, results, run>>
history == <<answers, raced, dropped>>
vars    == <<limiterVars, tables, threads, history>>

NoRun == 0
PCs == {"idle", "limit", "lookup", "next", "upsert", "event"}

\* Past the lookup and before the event.
Working(t) == pc[t] \in {"next", "upsert", "event"}

Key(t) == req[t].key
EventsOf(k) == {e \in DOMAIN events : events[e].req.key = k}
Answer(e) == [key |-> e.req.key, results |-> e.results, run |-> e.run]

Init ==
    /\ LimiterInit
    /\ catalog \in [Sources -> {"absent", "on"}]
    /\ runs = <<>>
    /\ events = <<>>
    /\ pc = [t \in Threads |-> "idle"]
    /\ req = [t \in Threads |-> NoRequest]
    /\ found = {}
    /\ results = [t \in Threads |-> <<>>]
    /\ run = [t \in Threads |-> NoRun]
    /\ answers = {}
    /\ raced = {}
    /\ dropped = {}

Goto(t, label) == pc' = [pc EXCEPT ![t] = label]

\* The requests end, and their local variables with them.
End(T) ==
    /\ pc' = [t \in Threads |-> IF t \in T THEN "idle" ELSE pc[t]]
    /\ req' = [t \in Threads |-> IF t \in T THEN NoRequest ELSE req[t]]
    /\ found' = found \ T
    /\ results' = [t \in Threads |-> IF t \in T THEN <<>> ELSE results[t]]
    /\ run' = [t \in Threads |-> IF t \in T THEN NoRun ELSE run[t]]

-----------------------------------------------------------------------------
(* The limiter *)

Arrive(t, r) ==
    /\ pc[t] = "idle"
    /\ Len(calls) + Cardinality(Waiting) < MaxRequests
    /\ ReadClock(t)
    /\ Goto(t, "limit")
    /\ req' = [req EXCEPT ![t] = r]
    /\ UNCHANGED <<tables, found, results, run, history>>

Admitted(t) ==
    /\ pc[t] = "limit"
    /\ Admit(t)
    /\ Goto(t, "lookup")
    /\ UNCHANGED <<tables, req, found, results, run, history>>

Refused(t) ==
    /\ pc[t] = "limit"
    /\ Refuse(t)
    /\ End({t})
    /\ UNCHANGED <<tables, history>>

-----------------------------------------------------------------------------
(* The idempotency key *)

\* Mutant: the key is looked up with the prefix of the run's key.
NeverFound(k) == FALSE

\* Mutant: an event counts only when it queued a run.
FoundWithRun(k) == \E e \in EventsOf(k) : k # NoKey /\ events[e].run # NoRun

\* get_research_bootstrap_event_by_idempotency: is there one, and the newest.
Found(k) == k # NoKey /\ EventsOf(k) # {}
Newest(k) == {e \in EventsOf(k) : \A f \in EventsOf(k) : f <= e}

\* The key came with another payload: 409.
Conflict(t) ==
    /\ pc[t] = "lookup"
    /\ Found(Key(t))
    /\ \E e \in Newest(Key(t)) : events[e].req # req[t]
    /\ End({t})
    /\ UNCHANGED <<limiterVars, tables, history>>

Replay(t) ==
    /\ pc[t] = "lookup"
    /\ Found(Key(t))
    /\ \E e \in Newest(Key(t)) :
          /\ events[e].req = req[t]
          /\ answers' = answers \cup {Answer(events[e])}
    /\ End({t})
    /\ UNCHANGED <<limiterVars, tables, raced, dropped>>

Miss(t) ==
    /\ pc[t] = "lookup"
    /\ ~Found(Key(t))
    /\ Goto(t, "next")
    /\ raced' = raced \cup {Key(u) : u \in {u \in Threads : Working(u) /\ Key(u) = Key(t)}}
    /\ UNCHANGED <<limiterVars, tables, req, found, results, run, answers, dropped>>

-----------------------------------------------------------------------------
(* The suggestions *)

Position(t) == Len(results[t]) + 1
Suggestion(t) == req[t].suggestions[Position(t)]
MoreToDo(t) == Position(t) \in DOMAIN req[t].suggestions

Seen(t, s) == \E i \in 1 .. Len(results[t]) : req[t].suggestions[i] = s

Report(t, result) == results' = [results EXCEPT ![t] = Append(@, result)]

SkipInvalid(t) ==
    /\ pc[t] = "next"
    /\ MoreToDo(t)
    /\ Suggestion(t) = BadUrl
    /\ Report(t, "invalid")
    /\ UNCHANGED <<limiterVars, tables, pc, req, found, run, history>>

SkipDuplicate(t) ==
    /\ pc[t] = "next"
    /\ MoreToDo(t)
    /\ Suggestion(t) # BadUrl
    /\ Seen(t, Suggestion(t))
    /\ Report(t, "skipped_duplicate")
    /\ UNCHANGED <<limiterVars, tables, pc, req, found, run, history>>

\* upsert_research_source: the select, then insert or update and the commit.
SelectSource(t) ==
    /\ pc[t] = "next"
    /\ MoreToDo(t)
    /\ Suggestion(t) # BadUrl
    /\ ~Seen(t, Suggestion(t))
    /\ Goto(t, "upsert")
    /\ found' = IF catalog[Suggestion(t)] = "absent" THEN found \ {t} ELSE found \cup {t}
    /\ UNCHANGED <<limiterVars, tables, req, results, run, history>>

UpsertSource(t) ==
    /\ pc[t] = "upsert"
    /\ catalog' = [catalog EXCEPT ![Suggestion(t)] = "on"]
    /\ Report(t, IF t \in found THEN "updated" ELSE "created")
    /\ Goto(t, "next")
    /\ UNCHANGED <<limiterVars, runs, events, req, found, run, history>>

-----------------------------------------------------------------------------
(* The run and the event *)

Valid(r) == {s \in Sources : \E i \in DOMAIN r.suggestions : r.suggestions[i] = s}

QueuesRun(t) == req[t].ingest /\ Valid(req[t]) # {}

CreateRun(t) ==
    /\ pc[t] = "next"
    /\ ~MoreToDo(t)
    /\ QueuesRun(t)
    /\ runs' = Append(runs, [key |-> Key(t), sources |-> Valid(req[t])])
    /\ run' = [run EXCEPT ![t] = Len(runs) + 1]
    /\ Goto(t, "event")
    /\ UNCHANGED <<limiterVars, catalog, events, req, found, results, history>>

NoRunWanted(t) ==
    /\ pc[t] = "next"
    /\ ~MoreToDo(t)
    /\ ~QueuesRun(t)
    /\ Goto(t, "event")
    /\ UNCHANGED <<limiterVars, tables, req, found, results, run, history>>

CreateEvent(t) ==
    /\ pc[t] = "event"
    /\ LET event == [req |-> req[t], results |-> results[t], run |-> run[t]] IN
          /\ events' = Append(events, event)
          /\ answers' = IF Key(t) = NoKey THEN answers ELSE answers \cup {Answer(event)}
    /\ End({t})
    /\ UNCHANGED <<limiterVars, catalog, runs, raced, dropped>>

-----------------------------------------------------------------------------
(* What goes wrong, and the operator *)

\* The keys of requests that leave a run without its event.
LeftBehind(T) == {Key(t) : t \in {t \in T : pc[t] = "event" /\ run[t] # NoRun}}

\* A transaction raises: 500.
Fail(t) ==
    /\ pc[t] \in PCs \ {"idle", "limit"}
    /\ End({t})
    /\ dropped' = dropped \cup LeftBehind({t})
    /\ UNCHANGED <<limiterVars, tables, answers, raced>>

Die ==
    /\ Restart
    /\ End(Threads)
    /\ dropped' = dropped \cup LeftBehind(Threads)
    /\ UNCHANGED <<tables, answers, raced>>

\* /v2/research/sources/{source_id}/enable and /disable
SetEnabled(s, enabled) ==
    /\ catalog[s] # "absent"
    /\ catalog' = [catalog EXCEPT ![s] = enabled]
    /\ UNCHANGED <<limiterVars, runs, events, threads, history>>

\* /v2/research/sources/upsert
UpsertByHand(s, enabled) ==
    /\ catalog' = [catalog EXCEPT ![s] = enabled]
    /\ UNCHANGED <<limiterVars, runs, events, threads, history>>

TimePasses == Tick /\ UNCHANGED <<tables, threads, history>>

Serve(t) ==
    \/ \E r \in Requests : Arrive(t, r)
    \/ Admitted(t)
    \/ Refused(t)
    \/ Conflict(t)
    \/ Replay(t)
    \/ Miss(t)
    \/ SkipInvalid(t)
    \/ SkipDuplicate(t)
    \/ SelectSource(t)
    \/ UpsertSource(t)
    \/ CreateRun(t)
    \/ NoRunWanted(t)
    \/ CreateEvent(t)
    \/ Fail(t)

Operator(s) == \E enabled \in {"on", "off"} : SetEnabled(s, enabled) \/ UpsertByHand(s, enabled)

Next ==
    \/ \E t \in Threads : Serve(t)
    \/ \E s \in Sources : Operator(s)
    \/ TimePasses
    \/ Die

Spec == Init /\ [][Next]_vars

-----------------------------------------------------------------------------
(* Properties *)

Reports == {"created", "updated", "invalid", "skipped_duplicate"}
RunIds  == 1 .. Len(runs)

TypeOK ==
    /\ catalog \in [Sources -> {"absent", "on", "off"}]
    /\ runs \in Seq([key : Keys \cup {NoKey}, sources : SUBSET Sources])
    /\ events \in Seq([req : Requests, results : Seq(Reports), run : Nat])
    /\ pc \in [Threads -> PCs]
    /\ req \in [Threads -> Requests \cup {NoRequest}]
    /\ \A t \in Threads : pc[t] # "idle" => req[t] \in Requests
    /\ found \subseteq Threads
    /\ results \in [Threads -> Seq(Reports)]
    /\ run \in [Threads -> Nat]
    /\ answers \subseteq [key : Keys, results : Seq(Reports), run : Nat]
    /\ raced \subseteq Keys \cup {NoKey}
    /\ dropped \subseteq Keys \cup {NoKey}

\* "one ingest run is created" (docs/contracts/v2_research_bootstrap.md:52), for
\* every key and however often it is sent, unless two requests with the key were
\* at work at once, or one failed between the run and the event.
KeyMakesOneRun ==
    \A q, r \in RunIds :
        runs[q].key = runs[r].key /\ runs[q].key \in Keys \ (raced \cup dropped) => q = r

\* "idempotency_key replays previous response for same payload"
\* (docs/contracts/v2_research_bootstrap.md:53): whoever sends a key is told the
\* same results and the same run, whatever failed meanwhile, unless two requests
\* with the key were at work at once.
RepliesAlike ==
    \A a, b \in answers : a.key = b.key /\ a.key \notin raced => a = b

\* A run is queued for sources that are all in the catalog by then, and an answer
\* that names a run names the one queued under its key: the upserts of a request
\* are done, each in its transaction, before its run is seen by a worker.
RunsCovered ==
    /\ \A r \in RunIds : \A s \in runs[r].sources : catalog[s] # "absent"
    /\ \A a \in answers : a.run # NoRun => a.run \in RunIds /\ runs[a.run].key = a.key

\* The events that report a source as created.
\* A key that has been settled is settled for good: sending it again does not
\* upsert (a source the operator switched off stays off), queue or log anything.
Settled == {k \in Keys : EventsOf(k) # {}}

SettledIsFinal ==
    [][\A t \in Threads :
          pc[t] # "idle" /\ pc'[t] # pc[t] /\ Key(t) \in Settled \ raced
              => UNCHANGED tables]_vars

-----------------------------------------------------------------------------
(* The statements that make them inductive. *)

\* Whoever works on a key that is not raced does so alone,
SoleWorker ==
    \A t, u \in Threads :
        Working(t) /\ Working(u) /\ Key(t) = Key(u) /\ Key(t) \notin raced => t = u

\* and nobody has settled it,
Unsettled ==
    \A t \in Threads : Working(t) /\ Key(t) \in Keys \ raced => EventsOf(Key(t)) = {}

\* and nobody settles it twice.
OneEvent ==
    \A e, f \in DOMAIN events :
        events[e].req.key = events[f].req.key /\ events[e].req.key \in Keys \ raced => e = f

\* What was answered is what an event says.
AnswersLogged == \A a \in answers : \E e \in DOMAIN events : a = Answer(events[e])

\* A run belongs to an event or to the request that is about to write it.
HasEvent(r) == \E e \in DOMAIN events : events[e].req.key = runs[r].key /\ events[e].run = r

InHandOf(t, r) == pc[t] = "event" /\ run[t] = r /\ Key(t) = runs[r].key

RunsOwned ==
    \A r \in RunIds :
        runs[r].key \in Keys \ (raced \cup dropped)
            => HasEvent(r) \/ \E t \in Threads : InHandOf(t, r)

\* The run a request or an event names was queued for its key.
RunsNamed ==
    /\ \A t \in Threads :
          run[t] # NoRun => pc[t] = "event" /\ run[t] \in RunIds /\ runs[run[t]].key = Key(t)
    /\ \A e \in DOMAIN events :
          events[e].run # NoRun
              => events[e].run \in RunIds /\ runs[events[e].run].key = events[e].req.key

\* A request has upserted what it has reported on.
UpsertedSoFar(t) ==
    /\ ~Working(t) => results[t] = <<>>
    /\ Working(t) => Len(results[t]) <= Len(req[t].suggestions)
    /\ pc[t] = "upsert" => MoreToDo(t) /\ Suggestion(t) \in Sources
    /\ \A i \in 1 .. Len(results[t]) :
          req[t].suggestions[i] # BadUrl => catalog[req[t].suggestions[i]] # "absent"

Catalogued == \A t \in Threads : UpsertedSoFar(t)

BootInv ==
    /\ TypeOK
    /\ LimiterInv
    /\ SoleWorker
    /\ Unsettled
    /\ OneEvent
    /\ AnswersLogged
    /\ RunsOwned
    /\ RunsNamed
    /\ Catalogued
    /\ RunsCovered

=============================================================================
