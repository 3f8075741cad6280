---------------------------- MODULE ResearchRuns ----------------------------
(***************************************************************************)
(* The queue of research ingestion runs (table research_ingestion_runs),   *)
(* the research workers that drain it (app/research/worker.py), the        *)
(* failure and cooldown policy of the sources, and the HTTP clients and    *)
(* operators that write the same rows (app/main.py).                       *)
(*                                                                         *)
(* Every action is one database transaction of the code, with the local    *)
(* computation that leads to the next one.  A handler that reads in one    *)
(* transaction and writes in another is two actions.                       *)
(***************************************************************************)
EXTENDS Naturals, FiniteSets

CONSTANTS
    Workers,      \* processes running app.research.worker
    Daemons,      \* the workers started without --once: only they enqueue
    Clients,      \* concurrent callers of POST /v2/research/ingest/run
    Sources,      \* source ids
    Topics,       \* topic keys
    TopicOf,      \* the topic each source belongs to
    CreatedAt,    \* the rank of each source by its created_at column
    Broken,       \* sources whose listing holds a link that urljoin or urlparse
                  \* rejects: whenever the page answers, reading it raises
    Keys,         \* idempotency keys
    ApiTriggers,  \* the triggers the clients ask for
    NoKey, NoRun, NoSource, NoTopic,
    Threshold,    \* RESEARCH_SOURCE_FAILURE_THRESHOLD
    Budget,       \* RESEARCH_RUN_MAX_NEW_ITEMS, 0 for unbounded
    MaxRuns,      \* bound: rows of the run table
    MaxItems,     \* bound: new items one source yields in one pass
    MaxEvents     \* bound: crashes, exceptions, switches and elapsed intervals

Triggers == {"manual", "event", "schedule"}

ASSUME RunsAssumption ==
    /\ Daemons \subseteq Workers
    /\ TopicOf \in [Sources -> Topics]
    /\ CreatedAt \in [Sources -> Nat]
    /\ Broken \subseteq Sources
    /\ ApiTriggers \subseteq Triggers
    /\ NoKey \notin Keys
    /\ NoSource \notin Sources
    /\ NoTopic \notin Topics
    /\ Threshold \in Nat
    /\ Budget \in Nat
    /\ MaxRuns \in Nat
    /\ MaxItems \in Nat
    /\ MaxEvents \in Nat
    /\ NoRun \notin 1 .. MaxRuns

\* Run ids in the order of created_at.
RunIds == 1 .. MaxRuns

VARIABLES
    status,    \* run -> status column, "absent" while the row does not exist
    request,   \* run -> the columns that never change after the insert
    idle,      \* run -> updated_at is older than the stale threshold
    newItems,  \* run -> items_new
    errors,    \* run -> kinds of message in the errors column
    enabled,   \* source -> enabled column
    failures,  \* source -> consecutive_failures
    cooling,   \* source -> cooldown_until is in the future
    due,       \* source -> the poll interval has elapsed
    pc,        \* worker -> the next database call it makes
    job,       \* worker -> the run it claimed
    todo,      \* worker -> sources still to visit (of the run, or due)
    src,       \* worker -> the source in hand
    topic,     \* worker -> the topic it is about to create a run for
    new,       \* worker -> new items of the source in hand
    failed,    \* worker -> something failed for the source in hand
    runNew,    \* worker -> new items of the run so far
    fails,     \* worker -> consecutive_failures as read
    errs,      \* worker -> errors column as read
    msg,       \* worker -> the message it is reporting
    ret,       \* worker -> where it goes on after the report
    cpc,       \* client -> progress of its request
    creq,      \* client -> its request
    events,    \* environment events so far (bounded by MaxEvents)
    claims,    \* history: run -> times it was claimed
    streak     \* history: source -> failed passes recorded since its last success

runVars    == <<status, request, idle, newItems, errors>>
sourceVars == <<enabled, failures, cooling, due>>
passVars   == <<todo, src, new, failed, runNew>>
readVars   == <<topic, fails, errs>>
reportVars == <<msg, ret>>
localVars  == <<passVars, readVars, reportVars>>
workerVars == <<pc, job, localVars>>
clientVars == <<cpc, creq>>
vars == <<runVars, sourceVars, workerVars, clientVars, events, claims, streak>>

Open     == {"queued", "running"}
Finished == {"completed", "failed"}
Statuses == {"absent"} \cup Open \cup Finished
ErrorKinds == {"stale", "source", "budget", "run_failed"}

Request == [trigger : Triggers, key : Keys \cup {NoKey},
            topic : Topics, selected : SUBSET Sources]

PCs == {"top", "claim", "list", "next", "fetch", "items", "polled", "count",
        "reset", "polread", "polwrite", "errread", "errwrite", "finish",
        "fail", "due", "enqueue", "create", "exit", "dead"}

\* Control points at which a worker holds a claimed run.
Busy == {"list", "next", "fetch", "items", "polled", "count", "reset",
         "polread", "polwrite", "errread", "errwrite", "finish", "fail"}

NoRequest(t) == [trigger |-> "manual", key |-> NoKey, topic |-> t, selected |-> {}]

TypeOK ==
    /\ status \in [RunIds -> Statuses]
    /\ request \in [RunIds -> Request]
    /\ idle \in [RunIds -> BOOLEAN]
    /\ newItems \in [RunIds -> Nat]
    /\ errors \in [RunIds -> SUBSET ErrorKinds]
    /\ enabled \in [Sources -> BOOLEAN]
    /\ failures \in [Sources -> Nat]
    /\ cooling \in [Sources -> BOOLEAN]
    /\ due \in [Sources -> BOOLEAN]
    /\ pc \in [Workers -> PCs]
    /\ job \in [Workers -> RunIds \cup {NoRun}]
    /\ todo \in [Workers -> SUBSET Sources]
    /\ src \in [Workers -> Sources \cup {NoSource}]
    /\ topic \in [Workers -> Topics \cup {NoTopic}]
    /\ new \in [Workers -> Nat]
    /\ failed \in [Workers -> BOOLEAN]
    /\ runNew \in [Workers -> Nat]
    /\ fails \in [Workers -> Nat]
    /\ errs \in [Workers -> SUBSET ErrorKinds]
    /\ msg \in [Workers -> ErrorKinds]
    /\ ret \in [Workers -> {"next", "items", "polled", "finish", "fail"}]
    /\ cpc \in [Clients -> {"idle", "select", "create"}]
    /\ creq \in [Clients -> Request]
    /\ events \in Nat
    /\ claims \in [RunIds -> Nat]
    /\ streak \in [Sources -> Nat]

\* Enabled sources that have never been polled, no runs, workers not started.
Init ==
    /\ status = [r \in RunIds |-> "absent"]
    /\ \E t \in Topics :
        /\ request = [r \in RunIds |-> NoRequest(t)]
        /\ creq = [c \in Clients |-> NoRequest(t)]
    /\ idle = [r \in RunIds |-> FALSE]
    /\ newItems = [r \in RunIds |-> 0]
    /\ errors = [r \in RunIds |-> {}]
    /\ enabled = [s \in Sources |-> TRUE]
    /\ failures = [s \in Sources |-> 0]
    /\ cooling = [s \in Sources |-> FALSE]
    /\ due = [s \in Sources |-> TRUE]
    /\ pc = [w \in Workers |-> "exit"]
    /\ job = [w \in Workers |-> NoRun]
    /\ todo = [w \in Workers |-> {}]
    /\ src = [w \in Workers |-> NoSource]
    /\ topic = [w \in Workers |-> NoTopic]
    /\ new = [w \in Workers |-> 0]
    /\ failed = [w \in Workers |-> FALSE]
    /\ runNew = [w \in Workers |-> 0]
    /\ fails = [w \in Workers |-> 0]
    /\ errs = [w \in Workers |-> {}]
    /\ msg = [w \in Workers |-> "source"]
    /\ ret = [w \in Workers |-> "next"]
    /\ cpc = [c \in Clients |-> "idle"]
    /\ events = 0
    /\ claims = [r \in RunIds |-> 0]
    /\ streak = [s \in Sources |-> 0]

-----------------------------------------------------------------------------
(* Rows of the run table *)

\* r is the row the next insert creates.
NextRow(r) ==
    /\ status[r] = "absent"
    /\ \A q \in RunIds : q < r => status[q] # "absent"

\* The bound MaxRuns stops new requests and new enqueue rounds while they could
\* run out of rows; an insert under way is never blocked by it.
Room ==
    LET enqueuing == {w \in Workers : pc[w] \in {"enqueue", "create"}}
        asking    == {c \in Clients : cpc[c] # "idle"}
    IN  Cardinality({r \in RunIds : status[r] = "absent"})
            >= Cardinality(asking) + Cardinality(Topics) * (1 + Cardinality(enqueuing))

\* INSERT of a queued run with the columns in req.
InsertRun(r, req) ==
    /\ NextRow(r)
    /\ status' = [status EXCEPT ![r] = "queued"]
    /\ request' = [request EXCEPT ![r] = req]
    /\ UNCHANGED <<idle, newItems, errors>>

\* Some statement that sets updated_at = now() reaches row r.
Touched(r) == idle' = [idle EXCEPT ![r] = FALSE]

ScheduleRunIn(t, statuses) ==
    \E r \in RunIds : /\ status[r] \in statuses
                      /\ request[r].topic = t
                      /\ request[r].trigger = "schedule"

\* Mutants: a run a worker took no longer counts; a finished run still counts.
OpenIgnoresRunning(t) == ScheduleRunIn(t, {"queued"})

\* has_open_research_run_for_topic with trigger 'schedule'.
OpenScheduleRun(t) == ScheduleRunIn(t, Open)

\* Rows a lookup by topic and idempotency key finds.
RunsWithKey(t, k) ==
    {r \in RunIds : /\ status[r] # "absent"
                    /\ request[r].topic = t
                    /\ request[r].key = k}

\* list_research_sources(topic, ids or None, enabled_only=True).
EnabledSources(t, ids) ==
    {s \in Sources : /\ enabled[s]
                     /\ TopicOf[s] = t
                     /\ ids = {} \/ s \in ids}

\* Mutant: the cooldown is not looked at.
DueWhileCooling == {s \in Sources : enabled[s] /\ due[s]}

\* list_due_research_sources.
DueSources == {s \in Sources : enabled[s] /\ ~cooling[s] /\ due[s]}

-----------------------------------------------------------------------------
(* The worker loop: sweep, claim, list *)

\* Control moves from one point to another; nothing else of the worker changes.
Goto(w, from, to) ==
    /\ pc[w] = from
    /\ pc' = [pc EXCEPT ![w] = to]

\* The local variables of a pass go out of scope.
Forget(w) ==
    /\ todo' = [todo EXCEPT ![w] = {}]
    /\ src' = [src EXCEPT ![w] = NoSource]
    /\ topic' = [topic EXCEPT ![w] = NoTopic]
    /\ new' = [new EXCEPT ![w] = 0]
    /\ failed' = [failed EXCEPT ![w] = FALSE]
    /\ runNew' = [runNew EXCEPT ![w] = 0]
    /\ fails' = [fails EXCEPT ![w] = 0]
    /\ errs' = [errs EXCEPT ![w] = {}]

\* Mutant: the age is compared the wrong way round.
FreshRuns == {r \in RunIds : status[r] = "running" /\ ~idle[r]}

StaleRuns == {r \in RunIds : status[r] = "running" /\ idle[r]}

\* fail_stale_research_ingestion_runs: one UPDATE over every idle running row.
SweepTo(w, verdict) ==
    /\ Goto(w, "top", "claim")
    /\ status' = [r \in RunIds |-> IF r \in StaleRuns THEN verdict ELSE status[r]]
    /\ errors' = [r \in RunIds |-> IF r \in StaleRuns THEN errors[r] \cup {"stale"}
                                                      ELSE errors[r]]
    /\ idle' = [r \in RunIds |-> idle[r] /\ r \notin StaleRuns]
    /\ UNCHANGED <<request, newItems, sourceVars, job, localVars, clientVars, events,
                   claims, streak>>

\* Mutant: abandoned runs go back on the queue.
SweepRequeues(w) == SweepTo(w, "queued")

SweepStale(w) == SweepTo(w, "failed")

Queued == {r \in RunIds : status[r] = "queued"}

\* Workers whose claiming transaction may hold the lock of a row meanwhile.
OthersClaiming(w) == Cardinality({v \in Workers \ {w} : pc[v] = "claim"})

\* Mutant: rows in progress are not filtered out.
ClaimableOpen(w) == {r \in RunIds : status[r] \in Open}

\* ORDER BY created_at FOR UPDATE SKIP LOCKED LIMIT 1: an older row is passed
\* over only while another worker is claiming it.
Claimable(w) ==
    {r \in Queued : Cardinality({q \in Queued : q < r}) <= OthersClaiming(w)}

\* claim_next_research_ingestion_run: the row is locked and updated in one
\* transaction.
ClaimRun(w) ==
    \E r \in Claimable(w) :
        /\ Goto(w, "claim", "list")
        /\ status' = [status EXCEPT ![r] = "running"]
        /\ Touched(r)
        /\ job' = [job EXCEPT ![w] = r]
        /\ claims' = [claims EXCEPT ![r] = @ + 1]
        /\ UNCHANGED <<request, newItems, errors, sourceVars, localVars, clientVars,
                       events, streak>>

\* No queued row, or none that is not locked: a one-shot worker exits, a daemon
\* looks for due sources.
ClaimNothing(w) ==
    /\ Goto(w, "claim", IF w \in Daemons THEN "due" ELSE "exit")
    /\ Cardinality(Queued) <= OthersClaiming(w)
    /\ UNCHANGED <<runVars, sourceVars, job, localVars, clientVars, events,
                   claims, streak>>

\* process_run reads the sources of the run once, before its loop.
ListSources(w) ==
    LET req == request[job[w]] IN
    /\ Goto(w, "list", "next")
    /\ todo' = [todo EXCEPT ![w] = EnabledSources(req.topic, req.selected)]
    /\ runNew' = [runNew EXCEPT ![w] = 0]
    /\ UNCHANGED <<runVars, sourceVars, job, src, new, failed, readVars, reportVars,
                   clientVars, events, claims, streak>>

-----------------------------------------------------------------------------
(* One pass over a source *)

\* The next source of the loop: list_research_sources orders them by created_at.
\* The check at the head of the loop for an
\* exhausted budget cannot fire: the one at its foot (AfterSource) has already
\* left the loop.
NextSource(w) ==
    \E s \in todo[w] :
        /\ Goto(w, "next", "fetch")
        /\ \A q \in todo[w] : CreatedAt[s] <= CreatedAt[q]
        /\ todo' = [todo EXCEPT ![w] = @ \ {s}]
        /\ src' = [src EXCEPT ![w] = s]
        /\ UNCHANGED <<runVars, sourceVars, job, new, failed, runNew, readVars,
                       reportVars, clientVars, events, claims, streak>>

NoMoreSources(w) ==
    /\ Goto(w, "next", "finish")
    /\ todo[w] = {}
    /\ UNCHANGED <<runVars, sourceVars, job, localVars, clientVars, events, claims,
                   streak>>

\* The listing page or feed answers and is read: its items follow.
FetchSource(w) ==
    /\ Goto(w, "fetch", "items")
    /\ src[w] \notin Broken
    /\ UNCHANGED <<runVars, sourceVars, job, localVars, clientVars, events, claims,
                   streak>>

\* A failed fetch or item is counted, then reported with
\* append_research_run_error, after which the worker goes on at point back.
Report(w, kind, back) ==
    /\ pc' = [pc EXCEPT ![w] = "errread"]
    /\ msg' = [msg EXCEPT ![w] = kind]
    /\ ret' = [ret EXCEPT ![w] = back]

Fail(w, back) ==
    /\ Report(w, "source", back)
    /\ failed' = [failed EXCEPT ![w] = TRUE]
    /\ UNCHANGED <<todo, src, new, runNew, readVars>>

\* The listing page or feed does not answer (status >= 400).
FetchSourceFails(w) ==
    /\ pc[w] = "fetch"
    /\ Fail(w, "polled")
    /\ UNCHANGED <<runVars, sourceVars, job, clientVars, events, claims, streak>>

\* max_new_items of _process_source; 0 stands for no limit.
ItemLimit(w) == IF Budget > 0 THEN Budget - runNew[w] ELSE 0

\* Another item is discovered and its seed row inserted (seed_state "new").
NewItem(w) ==
    /\ pc[w] = "items"
    /\ ~(ItemLimit(w) > 0 /\ new[w] >= ItemLimit(w))
    /\ new[w] < MaxItems
    /\ new' = [new EXCEPT ![w] = @ + 1]
    /\ UNCHANGED <<runVars, sourceVars, pc, job, todo, src, failed, runNew, readVars,
                   reportVars, clientVars, events, claims, streak>>

\* An item fails (robots, fetch, extraction, embedding).  Only whether the
\* counter is positive is used, so the first failure stands for all of them: a
\* later report repeats a kind of message the column holds.
ItemFails(w) ==
    /\ pc[w] = "items"
    /\ ~failed[w]
    /\ Fail(w, "items")
    /\ UNCHANGED <<runVars, sourceVars, job, clientVars, events, claims, streak>>

\* An item is suppressed as junk: it is reported, and counts as no failure.
\* Reports that repeat what the column already holds are left out here too.
ItemSuppressed(w) ==
    /\ pc[w] = "items"
    /\ "source" \notin errors[job[w]]
    /\ Report(w, "source", "items")
    /\ UNCHANGED <<runVars, sourceVars, job, passVars, readVars, clientVars, events,
                   claims, streak>>

ItemsDone(w) ==
    /\ Goto(w, "items", "polled")
    /\ UNCHANGED <<runVars, sourceVars, job, localVars, clientVars, events, claims,
                   streak>>

\* _normalize_url raises on a link of the listing, in this pass and in every
\* other one until the page changes.
ListingRaises(w) == pc[w] = "fetch" /\ src[w] \in Broken

\* A parser or a database call raises inside the try block of process_run: the
\* handler reports it and fails the run.  The source in hand keeps its policy
\* row, so it stays due and out of cooldown.
Trying == {"fetch", "items", "polled", "count", "reset", "polread", "polwrite",
           "finish"}

RunRaises(w) ==
    /\ pc[w] \in Trying
    /\ \/ ListingRaises(w) /\ UNCHANGED events
       \/ events < MaxEvents /\ events' = events + 1
    /\ Report(w, "run_failed", "fail")
    /\ Forget(w)
    /\ UNCHANGED <<runVars, sourceVars, job, clientVars, claims, streak>>

\* append_research_run_error: the row is read in one transaction ...
ReadErrors(w) ==
    /\ Goto(w, "errread", "errwrite")
    /\ errs' = [errs EXCEPT ![w] = errors[job[w]]]
    /\ UNCHANGED <<runVars, sourceVars, job, passVars, topic, fails, reportVars,
                   clientVars, events, claims, streak>>

\* ... and the whole list written back in another.  Only the kinds of the
\* messages are kept, so the cut to the last 20 is left out.
WriteErrors(w) ==
    /\ Goto(w, "errwrite", ret[w])
    /\ errors' = [errors EXCEPT ![job[w]] = errs[w] \cup {msg[w]}]
    /\ Touched(job[w])
    /\ errs' = [errs EXCEPT ![w] = {}]
    /\ msg' = [msg EXCEPT ![w] = "source"]
    /\ ret' = [ret EXCEPT ![w] = "next"]
    /\ UNCHANGED <<status, request, newItems, sourceVars, job, passVars, topic, fails,
                   clientVars, events, claims, streak>>

\* set_research_source_polled.
SetPolled(w) ==
    /\ Goto(w, "polled", "count")
    /\ due' = [due EXCEPT ![src[w]] = FALSE]
    /\ UNCHANGED <<runVars, enabled, failures, cooling, job, localVars, clientVars,
                   events, claims, streak>>

\* update_research_run_counters; the failure counter chooses the policy call.
UpdateCounters(w) ==
    /\ Goto(w, "count", IF failed[w] THEN "polread" ELSE "reset")
    /\ newItems' = [newItems EXCEPT ![job[w]] = @ + new[w]]
    /\ Touched(job[w])
    /\ runNew' = [runNew EXCEPT ![w] = @ + new[w]]
    /\ UNCHANGED <<status, request, errors, sourceVars, job, todo, src, new, failed,
                   readVars, reportVars, clientVars, events, claims, streak>>

\* Mutant: the check is missing.
BudgetSilent(w) == FALSE

BudgetSpent(w) == Budget > 0 /\ runNew[w] >= Budget

\* The foot of the loop: report an exhausted budget and leave, or go on.
AfterSource(w) ==
    /\ IF BudgetSpent(w)
       THEN Report(w, "budget", "finish")
       ELSE pc' = [pc EXCEPT ![w] = "next"] /\ UNCHANGED reportVars
    /\ src' = [src EXCEPT ![w] = NoSource]
    /\ new' = [new EXCEPT ![w] = 0]
    /\ failed' = [failed EXCEPT ![w] = FALSE]
    /\ fails' = [fails EXCEPT ![w] = 0]
    /\ UNCHANGED <<todo, runNew, topic, errs>>

\* Mutant: a success clears the cooldown and leaves the counter.
CounterKept(w, ok) == IF ok THEN failures[src[w]] ELSE fails[w] + 1

\* consecutive_failures after a pass.
Counter(w, ok) == IF ok THEN 0 ELSE fails[w] + 1

\* mark_research_source_success.
ResetPolicy(w) ==
    /\ pc[w] = "reset"
    /\ AfterSource(w)
    /\ failures' = [failures EXCEPT ![src[w]] = Counter(w, TRUE)]
    /\ cooling' = [cooling EXCEPT ![src[w]] = FALSE]
    /\ due' = [due EXCEPT ![src[w]] = FALSE]
    /\ streak' = [streak EXCEPT ![src[w]] = 0]
    /\ UNCHANGED <<runVars, enabled, job, clientVars, events, claims>>

\* mark_research_source_failure reads the counter in one transaction ...
ReadPolicy(w) ==
    /\ Goto(w, "polread", "polwrite")
    /\ fails' = [fails EXCEPT ![w] = failures[src[w]]]
    /\ UNCHANGED <<runVars, sourceVars, job, passVars, topic, errs, reportVars,
                   clientVars, events, claims, streak>>

\* ... and writes counter and cooldown in another.
WritePolicy(w) ==
    LET s == src[w]
        next == Counter(w, FALSE)
    IN  /\ pc[w] = "polwrite"
        /\ AfterSource(w)
        /\ failures' = [failures EXCEPT ![s] = next]
        /\ cooling' = [cooling EXCEPT ![s] =
                            next >= (IF Threshold > 1 THEN Threshold ELSE 1)]
        /\ due' = [due EXCEPT ![s] = FALSE]
        /\ streak' = [streak EXCEPT ![s] = @ + 1]
        /\ UNCHANGED <<runVars, enabled, job, clientVars, events, claims>>

\* mark_research_ingestion_run_finished: the status is not looked at first.
EndRun(w, from, final) ==
    /\ Goto(w, from, IF w \in Daemons THEN "top" ELSE "exit")
    /\ status' = [status EXCEPT ![job[w]] = final]
    /\ Touched(job[w])
    /\ job' = [job EXCEPT ![w] = NoRun]
    /\ Forget(w)
    /\ UNCHANGED <<reportVars, request, newItems, errors, sourceVars, clientVars, events,
                   claims, streak>>

FinishRun(w) == EndRun(w, "finish", "completed")
FailRun(w)   == EndRun(w, "fail", "failed")

-----------------------------------------------------------------------------
(* enqueue_due_schedule_runs *)

\* The due sources are read once, for all topics.
ListDue(w) ==
    /\ Goto(w, "due", "enqueue")
    /\ Room
    /\ DueSources # {}
    /\ todo' = [todo EXCEPT ![w] = DueSources]
    /\ UNCHANGED <<runVars, sourceVars, job, src, new, failed, runNew, readVars,
                   reportVars, clientVars, events, claims, streak>>

\* Nothing is due: the worker sleeps and starts over.
NothingDue(w) ==
    /\ Goto(w, "due", "top")
    /\ DueSources = {} \/ ~Room
    /\ UNCHANGED <<runVars, sourceVars, job, localVars, clientVars, events, claims,
                   streak>>

\* The due sources of topic t, as grouped by the worker.
Group(w, t) == {s \in todo[w] : TopicOf[s] = t}

\* A topic with an open schedule run is skipped.
SkipTopic(w) ==
    \E t \in Topics :
        /\ pc[w] = "enqueue"
        /\ Group(w, t) # {}
        /\ OpenScheduleRun(t)
        /\ todo' = [todo EXCEPT ![w] = @ \ Group(w, t)]
        /\ UNCHANGED <<runVars, sourceVars, pc, job, src, new, failed, runNew, readVars,
                       reportVars, clientVars, events, claims, streak>>

\* A topic without one gets a run; the insert is another transaction.
CheckTopic(w) ==
    \E t \in Topics :
        /\ Goto(w, "enqueue", "create")
        /\ Group(w, t) # {}
        /\ ~OpenScheduleRun(t)
        /\ topic' = [topic EXCEPT ![w] = t]
        /\ UNCHANGED <<runVars, sourceVars, job, passVars, fails, errs, reportVars,
                       clientVars, events, claims, streak>>

CreateScheduleRun(w) ==
    LET t == topic[w] IN
    \E r \in RunIds :
        /\ Goto(w, "create", "enqueue")
        /\ InsertRun(r, [trigger |-> "schedule", key |-> NoKey, topic |-> t,
                         selected |-> Group(w, t)])
        /\ todo' = [todo EXCEPT ![w] = @ \ Group(w, t)]
        /\ topic' = [topic EXCEPT ![w] = NoTopic]
        /\ UNCHANGED <<sourceVars, job, src, new, failed, runNew, fails, errs, reportVars,
                       clientVars, events, claims, streak>>

EnqueueDone(w) ==
    /\ Goto(w, "enqueue", "top")
    /\ todo[w] = {}
    /\ UNCHANGED <<runVars, sourceVars, job, localVars, clientVars, events, claims,
                   streak>>

-----------------------------------------------------------------------------
(* Processes stop and start *)

\* A worker dies, or an exception leaves run_once: its locals are gone and the
\* claimed row stays as it is.
Crash(w) ==
    /\ pc[w] \notin {"exit", "dead"}
    /\ events < MaxEvents
    /\ pc' = [pc EXCEPT ![w] = "dead"]
    /\ job' = [job EXCEPT ![w] = NoRun]
    /\ Forget(w)
    /\ msg' = [msg EXCEPT ![w] = "source"]
    /\ ret' = [ret EXCEPT ![w] = "next"]
    /\ events' = events + 1
    /\ UNCHANGED <<runVars, sourceVars, clientVars, claims, streak>>

\* Somebody starts the worker process (again).
Start(w) ==
    /\ pc[w] \in {"exit", "dead"}
    /\ pc' = [pc EXCEPT ![w] = "top"]
    /\ UNCHANGED <<runVars, sourceVars, job, localVars, clientVars, events, claims,
                   streak>>

-----------------------------------------------------------------------------
(* POST /v2/research/ingest/run: lookup, select, create *)

\* Mutant: the key is not looked up.
AlwaysFresh(t, k) == TRUE

\* No key is given, or no row has it.  (Such a row is the answer otherwise.)
Fresh(t, k) == k = NoKey \/ RunsWithKey(t, k) = {}

Lookup(c) ==
    \E tr \in ApiTriggers, k \in Keys \cup {NoKey}, t \in Topics :
        /\ cpc[c] = "idle"
        /\ Fresh(t, k)
        /\ Room
        /\ cpc' = [cpc EXCEPT ![c] = "select"]
        /\ creq' = [creq EXCEPT ![c] =
                        [trigger |-> tr, key |-> k, topic |-> t, selected |-> {}]]
        /\ UNCHANGED <<runVars, sourceVars, workerVars, events, claims, streak>>

\* The sources asked for that are enabled; none is a 400.
SelectSources(c) ==
    \E ids \in SUBSET Sources :
        LET selected == EnabledSources(creq[c].topic, ids) IN
        /\ cpc[c] = "select"
        /\ cpc' = [cpc EXCEPT ![c] = IF selected = {} THEN "idle" ELSE "create"]
        /\ creq' = [creq EXCEPT ![c] = IF selected = {} THEN NoRequest(@.topic)
                                       ELSE [@ EXCEPT !.selected = selected]]
        /\ UNCHANGED <<runVars, sourceVars, workerVars, events, claims, streak>>

CreateRun(c) ==
    \E r \in RunIds :
        /\ cpc[c] = "create"
        /\ InsertRun(r, creq[c])
        /\ cpc' = [cpc EXCEPT ![c] = "idle"]
        /\ creq' = [creq EXCEPT ![c] = NoRequest(@.topic)]
        /\ UNCHANGED <<sourceVars, workerVars, events, claims, streak>>

-----------------------------------------------------------------------------
(* Operators and time *)

\* POST /v2/research/sources/{source_id}/enable and /disable.
SetEnabled(s, on) ==
    /\ enabled[s] # on
    /\ events < MaxEvents
    /\ enabled' = [enabled EXCEPT ![s] = on]
    /\ events' = events + 1
    /\ UNCHANGED <<runVars, failures, cooling, due, workerVars, clientVars, claims,
                   streak>>

\* No statement has touched row r for the stale threshold.  Nothing bounds the
\* time between two writes of a live worker: it sleeps for the rate limit of
\* the source between two items.
RunGoesIdle(r) ==
    /\ status[r] = "running"
    /\ ~idle[r]
    /\ idle' = [idle EXCEPT ![r] = TRUE]
    /\ UNCHANGED <<status, request, newItems, errors, sourceVars, workerVars,
                   clientVars, events, claims, streak>>

CooldownExpires(s) ==
    /\ cooling[s]
    /\ cooling' = [cooling EXCEPT ![s] = FALSE]
    /\ UNCHANGED <<runVars, enabled, failures, due, workerVars, clientVars, events,
                   claims, streak>>

PollIntervalElapses(s) ==
    /\ ~due[s]
    /\ events < MaxEvents
    /\ due' = [due EXCEPT ![s] = TRUE]
    /\ events' = events + 1
    /\ UNCHANGED <<runVars, enabled, failures, cooling, workerVars, clientVars,
                   claims, streak>>

-----------------------------------------------------------------------------

\* What a worker does by itself once it runs.
WorkerStep(w) ==
    \/ SweepStale(w) \/ ClaimRun(w) \/ ClaimNothing(w) \/ ListSources(w)
    \/ NextSource(w) \/ NoMoreSources(w) \/ FetchSource(w) \/ FetchSourceFails(w)
    \/ NewItem(w) \/ ItemFails(w) \/ ItemSuppressed(w) \/ ItemsDone(w)
    \/ RunRaises(w)
    \/ ReadErrors(w) \/ WriteErrors(w) \/ SetPolled(w) \/ UpdateCounters(w)
    \/ ResetPolicy(w) \/ ReadPolicy(w) \/ WritePolicy(w)
    \/ FinishRun(w) \/ FailRun(w)
    \/ ListDue(w) \/ NothingDue(w) \/ SkipTopic(w) \/ CheckTopic(w)
    \/ CreateScheduleRun(w) \/ EnqueueDone(w)

ClientStep(c) == Lookup(c) \/ SelectSources(c) \/ CreateRun(c)

Next ==
    \/ \E w \in Workers : WorkerStep(w) \/ Crash(w) \/ Start(w)
    \/ \E c \in Clients : ClientStep(c)
    \/ \E s \in Sources : \/ SetEnabled(s, TRUE) \/ SetEnabled(s, FALSE)
                          \/ CooldownExpires(s) \/ PollIntervalElapses(s)
    \/ \E r \in RunIds : RunGoesIdle(r)

Spec == Init /\ [][Next]_vars

\* Workers keep running and are started again after they stop, cooldowns end,
\* and the clock reaches the stale threshold of a row nobody writes.  Clients,
\* operators and faults are under no obligation.
Fairness ==
    /\ \A w \in Workers : WF_vars(WorkerStep(w)) /\ WF_vars(Start(w))
    /\ \A s \in Sources : WF_vars(CooldownExpires(s))
    /\ \A r \in RunIds : WF_vars(RunGoesIdle(r))

FairSpec == Spec /\ Fairness

-----------------------------------------------------------------------------
(* Properties *)

\* A run is handed to a worker at most once, whatever the sweep, crashes and
\* restarts do: the sweep fails an abandoned row and never puts it back on the
\* queue (claim_next_research_ingestion_run, fail_stale_...).
ClaimedOnce == \A r \in RunIds : claims[r] <= 1

\* A run never ingests more new documents than RESEARCH_RUN_MAX_NEW_ITEMS,
\* counting the sources already done and the one in progress (process_run).
BudgetRespected ==
    Budget > 0 =>
        /\ \A r \in RunIds : newItems[r] <= Budget
        /\ \A w \in Workers : pc[w] = "items" => runNew[w] + new[w] <= Budget

\* A completed run that used its whole budget says so in its errors, although
\* the message is written by a read and a later overwrite of the whole column
\* (append_research_run_error) that the sweep can interleave with.
BudgetReported ==
    \A r \in RunIds :
        (Budget > 0 /\ status[r] = "completed" /\ newItems[r] >= Budget)
            => "budget" \in errors[r]

\* The worker's enqueue leaves at most one open schedule run per topic
\* (has_open_research_run_for_topic is consulted before the insert).
OneOpenScheduleRun ==
    \A t \in Topics :
        Cardinality({r \in RunIds : /\ status[r] \in Open
                                    /\ request[r].topic = t
                                    /\ request[r].trigger = "schedule"}) <= 1

\* The failure counter is the number of failed passes since the last success.
FailuresExact ==
    \A s \in Sources : failures[s] = streak[s]

\* No source a schedule run is created for is in cooldown at that moment
\* (enqueue_due_schedule_runs).
ScheduleHonorsCooldown ==
    [][\A w \in Workers : CreateScheduleRun(w) =>
            \A s \in Group(w, topic[w]) : ~cooling[s]]_vars

\* Requests that a caller sends again under one idempotency key give one run,
\* whatever became of the run meanwhile (queue_research_ingest_run_endpoint).
\* Two callers at once are not covered: lookup and insert are two transactions.
OneRunPerKey ==
    \A t \in Topics, k \in Keys : Cardinality(RunsWithKey(t, k)) <= 1

\* The run table implements RunLifecycle: whatever sweeps, crashes and slow
\* workers do, no run is requeued or taken twice, only the worker that took a run
\* revises a verdict of the sweep, and a completed run stays completed.
Live == {r \in RunIds : \E w \in Workers : job[w] = r}

Lifecycle == INSTANCE RunLifecycle
                WITH Runs <- RunIds, phase <- status, live <- Live

ImplementsLifecycle == Lifecycle!Spec

\* Every run that is put on the queue reaches a terminal status: through its
\* worker, or through the sweep once its worker is gone.
RunsEnd ==
    \A r \in RunIds : status[r] = "queued" ~> status[r] \in Finished

\* s and the sources of its topic that a run visits before it have listings that
\* can be read.
Reachable(s) ==
    \A q \in Sources :
        TopicOf[q] = TopicOf[s] /\ CreatedAt[q] <= CreatedAt[s] => q \notin Broken


-----------------------------------------------------------------------------
(* The inductive invariant behind ClaimedOnce, BudgetRespected,              *)
(* BudgetReported and ImplementsLifecycle.                                   *)

\* Where worker w stands, an error report counting as the point it returns to.
At(w) == IF pc[w] \in {"errread", "errwrite"} THEN ret[w] ELSE pc[w]

JobsHeld ==
    \A w \in Workers :
        /\ pc[w] \in Busy <=> job[w] # NoRun
        /\ job[w] # NoRun => status[job[w]] \in {"running", "failed"}
        /\ pc[w] \in {"errread", "errwrite"} =>
                ret[w] \in {"items", "polled", "finish", "fail"}

\* A worker has a source in hand throughout a pass, and a topic before an insert.
InHand ==
    \A w \in Workers :
        /\ At(w) \in {"fetch", "items", "polled", "count", "reset", "polread",
                     "polwrite"} => src[w] \in Sources
        /\ pc[w] = "create" => topic[w] \in Topics

JobsDistinct ==
    \A v, w \in Workers : job[v] = job[w] /\ job[v] # NoRun => v = w

ClaimsMatch ==
    \A r \in RunIds : claims[r] = IF status[r] \in {"absent", "queued"} THEN 0 ELSE 1

CountersAgree ==
    /\ \A r \in RunIds : status[r] \in {"absent", "queued"} => newItems[r] = 0
    /\ \A w \in Workers :
        /\ At(w) = "list" => newItems[job[w]] = 0
        /\ At(w) \in {"next", "fetch", "items", "polled", "count", "reset",
                      "polread", "polwrite"} => runNew[w] = newItems[job[w]]

BudgetKept ==
    Budget > 0 =>
        /\ \A r \in RunIds : newItems[r] <= Budget
        /\ \A w \in Workers :
            /\ At(w) \in {"next", "fetch", "items"} => runNew[w] < Budget
            /\ At(w) \notin {"items", "polled", "count", "reset", "polread",
                             "polwrite"} => new[w] = 0
            /\ At(w) \in {"items", "polled", "count"} =>
                    runNew[w] + new[w] <= Budget

\* A run used its whole budget.
Exhausted(r) == Budget > 0 /\ newItems[r] >= Budget

\* From the report of an exhausted budget on, no overwrite loses the message.
BudgetTold ==
    /\ \A w \in Workers :
        /\ pc[w] \in {"errread", "errwrite"} /\ ret[w] = "finish" => msg[w] = "budget"
        /\ pc[w] = "finish" /\ Exhausted(job[w]) => "budget" \in errors[job[w]]
    /\ BudgetReported

IInv ==
    /\ TypeOK
    /\ JobsHeld
    /\ InHand
    /\ JobsDistinct
    /\ ClaimsMatch
    /\ CountersAgree
    /\ BudgetKept
    /\ BudgetTold

=============================================================================
