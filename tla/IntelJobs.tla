----------------------------- MODULE IntelJobs -----------------------------
(***************************************************************************)
(* URL ingestion: POST /v2/intel/ingest_urls seeds an article and queues a *)
(* job for it (app/main.py), workers claim jobs and fetch, extract and     *)
(* enrich the article (app/intel/worker.py).  Seeding and queueing are two *)
(* transactions, a job is up to five, nothing keeps two jobs from working  *)
(* on one article, and a worker has no handler for what a job raises: it   *)
(* dies, and the job stays "running".                                      *)
(***************************************************************************)
EXTENDS Naturals, FiniteSets

CONSTANTS
    Workers,    \* processes of app.intel.worker
    Clients,    \* callers of ingest_urls
    Articles,   \* article ids: canonical URLs
    Texts,      \* what fetching and extracting an article may yield
    NoText, NoArticle,
    MaxJobs,    \* bound: jobs queued
    MaxEvents   \* bound: workers that die, requests that fail, stores that raise

JobIds == 1 .. MaxJobs
NoJob  == 0

ASSUME IntelAssumption ==
    /\ NoText \notin Texts
    /\ NoArticle \notin Articles
    /\ MaxJobs \in Nat
    /\ MaxEvents \in Nat

VARIABLES
    status,     \* article -> status column, "absent" while there is no row
    text,       \* article -> extracted_text
    sections,   \* article -> the text its section rows were cut from
    summary,    \* article -> the text its summary and signals were made from
    jstatus,    \* job -> status column, "absent" while there is no row
    article,    \* job -> article_id
    claims,     \* job -> attempts
    wpc,        \* worker -> its next transaction
    job,        \* worker -> the job in hand
    held,       \* worker -> the text it extracted
    cpc,        \* client -> its next transaction
    want,       \* client -> the article it asks for
    forced,     \* clients whose request has force_refetch
    plain,      \* clients whose request has enrich = false, workers whose job has
    events,     \* deaths and failures so far (bounded by MaxEvents)
    dropped,    \* history: articles a client or a worker left halfway
    abandoned,  \* history: jobs whose worker died
    raced,      \* history: articles two actors wrote at once
    skipped     \* history: articles whose latest text nobody has made signals from

articleVars == <<status, text, sections, summary>>
jobVars     == <<jstatus, article, claims>>
workerVars  == <<wpc, job, held>>
clientVars  == <<cpc, want, forced>>
history     == <<dropped, abandoned, raced, skipped>>
vars == <<articleVars, jobVars, workerVars, clientVars, plain, events, history>>

Statuses == {"absent", "queued", "extracted", "enriched", "partial", "failed"}

\* Mutant: the jobs that skip enrichment are never claimed.
OnlyQueued == {"queued", "retry"}

\* The statuses claim_next_job takes a job from.
Claimable == {"queued", "retry", "queued_no_enrich"}

JobStatuses == {"absent", "queued", "retry", "queued_no_enrich", "running", "done", "failed"}

WPCs == {"off", "idle", "fetch", "failjob", "failart", "extracted", "enrich", "done",
         "partial"}

CPCs == {"idle", "check", "seed", "create"}

TypeOK ==
    /\ status \in [Articles -> Statuses]
    /\ text \in [Articles -> Texts \cup {NoText}]
    /\ sections \in [Articles -> Texts \cup {NoText}]
    /\ summary \in [Articles -> Texts \cup {NoText}]
    /\ jstatus \in [JobIds -> JobStatuses]
    /\ article \in [JobIds -> Articles \cup {NoArticle}]
    /\ claims \in [JobIds -> Nat]
    /\ wpc \in [Workers -> WPCs]
    /\ job \in [Workers -> JobIds \cup {NoJob}]
    /\ held \in [Workers -> Texts \cup {NoText}]
    /\ cpc \in [Clients -> CPCs]
    /\ want \in [Clients -> Articles \cup {NoArticle}]
    /\ forced \in SUBSET Clients
    /\ plain \in SUBSET (Clients \cup Workers)
    /\ events \in Nat
    /\ dropped \in SUBSET Articles
    /\ abandoned \in SUBSET JobIds
    /\ raced \in SUBSET Articles
    /\ skipped \in SUBSET Articles

\* No articles and no jobs; the workers are started.
Init ==
    /\ status = [a \in Articles |-> "absent"]
    /\ text = [a \in Articles |-> NoText]
    /\ sections = [a \in Articles |-> NoText]
    /\ summary = [a \in Articles |-> NoText]
    /\ jstatus = [j \in JobIds |-> "absent"]
    /\ article = [j \in JobIds |-> NoArticle]
    /\ claims = [j \in JobIds |-> 0]
    /\ wpc = [w \in Workers |-> "idle"]
    /\ job = [w \in Workers |-> NoJob]
    /\ held = [w \in Workers |-> NoText]
    /\ cpc = [c \in Clients |-> "idle"]
    /\ want = [c \in Clients |-> NoArticle]
    /\ forced = {} /\ plain = {}
    /\ events = 0
    /\ dropped = {} /\ abandoned = {} /\ raced = {} /\ skipped = {}

-----------------------------------------------------------------------------
(* Helpers *)

Turn(w, from, to) ==
    /\ wpc[w] = from
    /\ wpc' = [wpc EXCEPT ![w] = to]

Event == events < MaxEvents /\ events' = events + 1

\* The article a worker's job is about.
Mine(w) == article[job[w]]

\* The job in hand is over: update_job_status(done or failed) and what the
\* worker forgets with it.
EndJob(w, s, to) ==
    /\ jstatus' = [jstatus EXCEPT ![job[w]] = s]
    /\ wpc' = [wpc EXCEPT ![w] = to]

Forget(w) ==
    /\ job' = [job EXCEPT ![w] = NoJob]
    /\ held' = [held EXCEPT ![w] = NoText]
    /\ plain' = plain \ {w}

\* Articles some worker is at.
BeingProcessed == {Mine(w) : w \in {v \in Workers : job[v] # NoJob}}

\* A request is over.
Answer(c) ==
    /\ cpc' = [cpc EXCEPT ![c] = "idle"]
    /\ want' = [want EXCEPT ![c] = NoArticle]
    /\ forced' = forced \ {c}
    /\ plain' = plain \ {c}

-----------------------------------------------------------------------------
(* ingest_intel_urls_endpoint, one URL *)

Ask(c, a, force, noEnrich) ==
    /\ cpc[c] = "idle"
    /\ cpc' = [cpc EXCEPT ![c] = "check"]
    /\ want' = [want EXCEPT ![c] = a]
    /\ forced' = IF force THEN forced \cup {c} ELSE forced
    /\ plain' = IF noEnrich THEN plain \cup {c} ELSE plain
    /\ UNCHANGED <<articleVars, jobVars, workerVars, events, history>>

\* An enriched article is "deduped" unless force_refetch.
Dedupes(c) == status[want[c]] = "enriched" /\ c \notin forced

Check(c) ==
    /\ cpc[c] = "check"
    /\ IF Dedupes(c)
       THEN Answer(c)
       ELSE cpc' = [cpc EXCEPT ![c] = "seed"] /\ UNCHANGED <<want, forced, plain>>
    /\ UNCHANGED <<articleVars, jobVars, workerVars, events, history>>

\* upsert_intel_article_seed: one statement, which overwrites the status a
\* worker may just have set.  Sections stay.
Seed(c) ==
    /\ cpc[c] = "seed"
    /\ cpc' = [cpc EXCEPT ![c] = "create"]
    /\ status' = [status EXCEPT ![want[c]] = "queued"]
    /\ IF c \in forced
       THEN /\ text' = [text EXCEPT ![want[c]] = NoText]
            /\ summary' = [summary EXCEPT ![want[c]] = NoText]
       ELSE UNCHANGED <<text, summary>>
    /\ raced' = raced \cup (BeingProcessed \cap {want[c]})
    /\ UNCHANGED <<sections, jobVars, workerVars, want, forced, plain, events, dropped,
                   abandoned, skipped>>

NewJobs == {j \in JobIds : jstatus[j] = "absent" /\ \A i \in 1 .. (j - 1) : jstatus[i] # "absent"}

CreateJob(c) ==
    /\ cpc[c] = "create"
    /\ \E j \in NewJobs :
        /\ jstatus' = [jstatus EXCEPT ![j] = IF c \in plain THEN "queued_no_enrich" ELSE "queued"]
        /\ article' = [article EXCEPT ![j] = want[c]]
    /\ Answer(c)
    /\ UNCHANGED <<articleVars, claims, workerVars, events, history>>

\* The insertion fails, or the server dies, after the article was seeded.  (At
\* the bound on jobs every request ends like this.)
RequestFails(c) ==
    /\ \/ cpc[c] = "seed" /\ Event /\ UNCHANGED dropped
       \/ /\ cpc[c] = "create"
          /\ Event \/ (NewJobs = {} /\ UNCHANGED events)
          /\ dropped' = dropped \cup {want[c]}
    /\ Answer(c)
    /\ UNCHANGED <<articleVars, jobVars, workerVars, abandoned, raced, skipped>>

-----------------------------------------------------------------------------
(* app.intel.worker *)

\* Mutant: a running job is claimed as well.
TakenAgain(w) == {j \in JobIds : jstatus[j] \in Claimable \cup {"running"}}

\* SELECT ... ORDER BY created_at FOR UPDATE SKIP LOCKED: a worker passes over
\* at most the rows that other workers, claiming at the same time, have locked.
Takeable(w) ==
    {j \in JobIds :
        /\ jstatus[j] \in Claimable
        /\ Cardinality({i \in 1 .. (j - 1) : jstatus[i] \in Claimable})
              <= Cardinality({v \in Workers \ {w} : wpc[v] = "idle"})}

Claim(w) ==
    /\ Turn(w, "idle", "fetch")
    /\ \E j \in Takeable(w) :
        /\ jstatus' = [jstatus EXCEPT ![j] = "running"]
        /\ claims' = [claims EXCEPT ![j] = @ + 1]
        /\ job' = [job EXCEPT ![w] = j]
        /\ plain' = IF jstatus[j] = "queued_no_enrich" THEN plain \cup {w} ELSE plain \ {w}
        /\ raced' = raced \cup (BeingProcessed \cap {article[j]})
    /\ UNCHANGED <<articleVars, article, held, clientVars, events, dropped, abandoned,
                   skipped>>

\* The fetch raises, answers an error or nothing, or there is no text in it:
\* the job is failed first, then the article.
FetchFails(w) ==
    /\ wpc[w] = "fetch"
    /\ EndJob(w, "failed", "failart")
    /\ UNCHANGED <<articleVars, article, claims, job, held, clientVars, plain, events, history>>

\* Mutant: the article of a failed job is forgotten.
ArticleUntouched(w) ==
    /\ Turn(w, "failart", "idle")
    /\ Forget(w)
    /\ UNCHANGED <<articleVars, jobVars, clientVars, events, history>>

MarkArticleFailed(w) ==
    /\ Turn(w, "failart", "idle")
    /\ status' = [status EXCEPT ![Mine(w)] = "failed"]
    /\ Forget(w)
    /\ UNCHANGED <<text, sections, summary, jobVars, clientVars, events, history>>

\* The text is extracted and its sections replace the article's.
ReplaceSections(w, v) ==
    /\ Turn(w, "fetch", "extracted")
    /\ sections' = [sections EXCEPT ![Mine(w)] = v]
    /\ held' = [held EXCEPT ![w] = v]
    /\ UNCHANGED <<status, text, summary, jobVars, job, clientVars, plain, events, history>>

\* update_job_status ends a job without enrichment here: summary and signals stay
\* those of an earlier text.
MarkExtracted(w) ==
    /\ Turn(w, "extracted", IF w \in plain THEN "done" ELSE "enrich")
    /\ text' = [text EXCEPT ![Mine(w)] = held[w]]
    /\ status' = [status EXCEPT ![Mine(w)] = "extracted"]
    /\ skipped' = IF w \in plain THEN skipped \cup {Mine(w)} ELSE skipped
    /\ UNCHANGED <<sections, summary, jobVars, job, held, clientVars, plain, events, dropped,
                   abandoned, raced>>

MarkEnriched(w) ==
    /\ Turn(w, "enrich", "done")
    /\ summary' = [summary EXCEPT ![Mine(w)] = held[w]]
    /\ status' = [status EXCEPT ![Mine(w)] = "enriched"]
    /\ skipped' = skipped \ {Mine(w)}
    /\ UNCHANGED <<text, sections, jobVars, job, held, clientVars, plain, events, dropped,
                   abandoned, raced>>

FinishJob(w) ==
    /\ wpc[w] = "done"
    /\ EndJob(w, "done", "idle")
    /\ Forget(w)
    /\ UNCHANGED <<articleVars, article, claims, clientVars, events, history>>

\* Mutant: the summary of an earlier pass is left when enrichment fails.
PartialKeepsSummary(w) ==
    /\ status' = [status EXCEPT ![Mine(w)] = "partial"]
    /\ skipped' = skipped \ {Mine(w)}
    /\ UNCHANGED summary

\* What the handler stores of an article that could not be enriched.
Partial(w) ==
    /\ status' = [status EXCEPT ![Mine(w)] = "partial"]
    /\ summary' = [summary EXCEPT ![Mine(w)] = NoText]
    /\ skipped' = skipped \ {Mine(w)}

\* The model's answer is unusable.
EnrichFails(w) ==
    /\ Turn(w, "enrich", "partial")
    /\ Partial(w)
    /\ UNCHANGED <<text, sections, jobVars, job, held, clientVars, plain, events, dropped,
                   abandoned, raced>>

\* The article is stored enriched but the job's update raises, in the same try:
\* the handler overwrites the article.
StoreRaises(w) ==
    /\ Event
    /\ w \notin plain
    /\ Turn(w, "done", "partial")
    /\ Partial(w)
    /\ UNCHANGED <<text, sections, jobVars, job, held, clientVars, plain, dropped, abandoned,
                   raced>>

FailJob(w) ==
    /\ wpc[w] = "partial"
    /\ EndJob(w, "failed", "idle")
    /\ Forget(w)
    /\ UNCHANGED <<articleVars, article, claims, clientVars, events, history>>

\* A worker dies, by a signal or an exception of a job, and is started again.
Crash(w) ==
    /\ Event
    /\ wpc[w] # "off"
    /\ wpc' = [wpc EXCEPT ![w] = "off"]
    /\ IF job[w] # NoJob
       THEN dropped' = dropped \cup {Mine(w)} /\ abandoned' = abandoned \cup {job[w]}
       ELSE UNCHANGED <<dropped, abandoned>>
    /\ Forget(w)
    /\ UNCHANGED <<articleVars, jobVars, clientVars, raced, skipped>>

Restart(w) ==
    /\ Turn(w, "off", "idle")
    /\ UNCHANGED <<articleVars, jobVars, job, held, clientVars, plain, events, history>>

-----------------------------------------------------------------------------
(* Specification *)

ClientStep(c) ==
    \/ \E a \in Articles, force, noEnrich \in BOOLEAN : Ask(c, a, force, noEnrich)
    \/ Check(c) \/ Seed(c) \/ CreateJob(c) \/ RequestFails(c)

WorkerStep(w) ==
    \/ Claim(w) \/ FetchFails(w) \/ MarkArticleFailed(w)
    \/ \E v \in Texts : ReplaceSections(w, v)
    \/ MarkExtracted(w) \/ MarkEnriched(w) \/ FinishJob(w) \/ EnrichFails(w) \/ FailJob(w)
    \/ Restart(w)

Next ==
    \/ \E c \in Clients : ClientStep(c)
    \/ \E w \in Workers : WorkerStep(w) \/ StoreRaises(w) \/ Crash(w)

Spec == Init /\ [][Next]_vars

\* The workers poll and are kept running; a request that has begun is served.
FairSpec ==
    /\ Spec
    /\ \A w \in Workers : WF_vars(WorkerStep(w))
    /\ \A c \in Clients : WF_vars(Check(c) \/ Seed(c) \/ CreateJob(c) \/ RequestFails(c))

-----------------------------------------------------------------------------
(* Properties *)

\* The workers that have yet to mark the article of their job.
Unmarked == {w \in Workers : wpc[w] \in {"fetch", "extracted", "failart"}}

\* A request that has begun has its article, the worker's place in a job and the
\* job's row agree, and no two workers have the same job.
JobInHand ==
    /\ \A c \in Clients : cpc[c] # "idle" => want[c] \in Articles
    /\ \A w \in Workers :
          /\ job[w] = NoJob <=> wpc[w] \in {"off", "idle"}
          /\ job[w] # NoJob => /\ article[job[w]] \in Articles
                               /\ jstatus[job[w]] = IF wpc[w] = "failart" THEN "failed" ELSE "running"
    /\ \A v, w \in Workers : job[v] = job[w] /\ job[v] # NoJob => v = w

\* A job is claimed once at most: nothing puts it back on the queue.
ClaimedOnce ==
    \A j \in JobIds :
        /\ claims[j] = IF jstatus[j] \in Claimable \cup {"absent"} THEN 0 ELSE 1
        /\ jstatus[j] # "absent" => article[j] \in Articles

\* Claiming is exclusive (claim_next_job): a job is handed out once, to one
\* worker, which holds it until it has written the job's end.
JobInv == TypeOK /\ JobInHand /\ ClaimedOnce

Cites(a) ==
    /\ text[a] \in {NoText, sections[a]}
    /\ summary[a] \in {NoText, sections[a]} \/ a \in skipped
    /\ status[a] \in {"enriched", "partial"} => text[a] = sections[a] /\ a \notin skipped

\* Whatever its status says, for packs are built of articles of any status
\* (search_intel_articles), an article no worker is at has an outline and signals
\* that cite the sections that are stored, although sections, text and signals are
\* replaced in three transactions and several jobs may be queued for one article.
\* An article cut anew without enrichment serves the signals of its earlier text
\* until it is enriched, but does not say "enriched"; articles two actors wrote at
\* once or one left halfway are exempt.
SignalsCiteSections == \A a \in Articles \ (raced \cup dropped \cup BeingProcessed) : Cites(a)

\* An article that says "queued" is on its way: a job for it waits to be claimed,
\* the request is about to queue one, or a worker is about to mark it; unless a
\* client or a worker died between two transactions, for then nothing will.
QueuedHasJob ==
    \A a \in Articles \ dropped : status[a] = "queued" =>
        \/ \E j \in JobIds : article[j] = a /\ jstatus[j] \in Claimable
        \/ \E c \in Clients : cpc[c] = "create" /\ want[c] = a
        \/ \E w \in Unmarked : Mine(w) = a

\* The job table implements RunLifecycle, as the run table does: no job is queued
\* again or taken twice, only the worker that took it says how it ended, once, and
\* nobody does for a worker that died (claim_next_job, update_job_status).  A job
\* whose article is yet to be marked failed has ended.
JobPhase ==
    [j \in JobIds |-> IF jstatus[j] \in Claimable THEN "queued"
                      ELSE IF jstatus[j] = "done" THEN "completed"
                      ELSE jstatus[j]]

OnIt == {j \in JobIds : \E w \in Workers : job[w] = j /\ wpc[w] # "failart"}

Lifecycle == INSTANCE RunLifecycle WITH Runs <- JobIds, phase <- JobPhase, live <- OnIt

ImplementsLifecycle == Lifecycle!Spec

\* Every job ends unless its worker dies: nothing sweeps the jobs of a worker
\* that died.
JobsEnd ==
    \A j \in JobIds :
        jstatus[j] # "absent" ~> jstatus[j] \in {"done", "failed"} \/ j \in abandoned

=============================================================================
