-------------------------- MODULE IntelJobsProofs --------------------------
(***************************************************************************)
(* Proofs about IntelJobs, for any number of workers, clients, articles and *)
(* jobs: claiming is exclusive (JobInv), a queued article is on its way    *)
(* (QueuedHasJob), and signals cite the stored sections                     *)
(* (SignalsCiteSections).                                                   *)
(***************************************************************************)
EXTENDS IntelJobs, TLAPS

(***************************************************************************)
(* Type correctness.  That the job a worker writes about has an article    *)
(* needs JobInHand: a worker between claim and end holds a real job.       *)
(***************************************************************************)
LEMMA TypeStep ==
    ASSUME TypeOK, JobInHand, ClaimedOnce, [Next]_vars
    PROVE  TypeOK'
<1>. USE DEF TypeOK, Statuses, JobStatuses, Claimable, WPCs, CPCs, articleVars, jobVars,
       workerVars, clientVars, history
<1>1. ASSUME NEW c \in Clients, NEW a \in Articles, NEW force \in BOOLEAN, NEW noEnrich \in BOOLEAN, Ask(c, a, force, noEnrich) PROVE TypeOK'
  BY <1>1 DEF Ask
<1>2. ASSUME NEW c \in Clients, Check(c) PROVE TypeOK'
  BY <1>2 DEF Check, Dedupes, Answer
<1>3. ASSUME NEW c \in Clients, Seed(c) PROVE TypeOK'
  BY <1>3 DEF Seed, JobInHand
<1>4. ASSUME NEW c \in Clients, CreateJob(c) PROVE TypeOK'
  BY <1>4 DEF CreateJob, NewJobs, Answer
<1>5. ASSUME NEW c \in Clients, RequestFails(c) PROVE TypeOK'
  BY <1>5 DEF RequestFails, Answer, Event, JobInHand
<1>6. ASSUME NEW w \in Workers, Claim(w) PROVE TypeOK'
  BY <1>6 DEF Claim, Turn, Takeable, JobInHand, BeingProcessed, ClaimedOnce, Mine
<1>7. ASSUME NEW w \in Workers, FetchFails(w) PROVE TypeOK'
  BY <1>7 DEF FetchFails, EndJob
<1>8. ASSUME NEW w \in Workers, MarkArticleFailed(w) PROVE TypeOK'
  BY <1>8 DEF MarkArticleFailed, Turn, Forget, Mine, JobInHand
<1>9. ASSUME NEW w \in Workers, NEW v \in Texts, ReplaceSections(w, v) PROVE TypeOK'
  BY <1>9 DEF ReplaceSections, Turn, Mine, JobInHand
<1>10. ASSUME NEW w \in Workers, MarkExtracted(w) PROVE TypeOK'
  BY <1>10 DEF MarkExtracted, Turn, Mine, JobInHand
<1>11. ASSUME NEW w \in Workers, MarkEnriched(w) PROVE TypeOK'
  BY <1>11 DEF MarkEnriched, Turn, Mine, JobInHand
<1>12. ASSUME NEW w \in Workers, FinishJob(w) PROVE TypeOK'
  BY <1>12 DEF FinishJob, EndJob, Forget
<1>13. ASSUME NEW w \in Workers, EnrichFails(w) PROVE TypeOK'
  BY <1>13 DEF EnrichFails, Turn, Partial, Mine, JobInHand
<1>14. ASSUME NEW w \in Workers, FailJob(w) PROVE TypeOK'
  BY <1>14 DEF FailJob, EndJob, Forget
<1>15. ASSUME NEW w \in Workers, Restart(w) PROVE TypeOK'
  BY <1>15 DEF Restart, Turn
<1>16. ASSUME NEW w \in Workers, StoreRaises(w) PROVE TypeOK'
  BY <1>16 DEF StoreRaises, Turn, Partial, Mine, Event, JobInHand
<1>17. ASSUME NEW w \in Workers, Crash(w) PROVE TypeOK'
  BY <1>17 DEF Crash, Event, Forget, Mine, JobInHand
<1>18. CASE UNCHANGED vars
  BY <1>18 DEF vars
<1>. QED
  BY <1>1, <1>2, <1>3, <1>4, <1>5, <1>6, <1>7, <1>8, <1>9, <1>10, <1>11, <1>12, <1>13, <1>14, <1>15, <1>16, <1>17, <1>18 DEF Next, ClientStep, WorkerStep

(***************************************************************************)
(* Exclusive claiming.  Only Claim gives a worker a job, and only one that *)
(* is still claimable; no worker holds such a job, since the job of a      *)
(* worker is "running", or "failed" while its article is yet to be marked. *)
(***************************************************************************)
LEMMA JobStep ==
    ASSUME TypeOK, JobInHand, ClaimedOnce, [Next]_vars
    PROVE  JobInHand' /\ ClaimedOnce'
<1>. USE DEF TypeOK, JobInHand, ClaimedOnce, Claimable, JobIds, NoJob,
       articleVars, jobVars, workerVars, clientVars, history
<1>. USE IntelAssumption DEF IntelAssumption
<1>1. ASSUME NEW c \in Clients, NEW a \in Articles, NEW force \in BOOLEAN, NEW noEnrich \in BOOLEAN, Ask(c, a, force, noEnrich) PROVE JobInHand' /\ ClaimedOnce'
  <2>1. JobInHand'
    BY <1>1 DEF Ask, WPCs, JobStatuses
  <2>2. ClaimedOnce'
    BY <1>1 DEF Ask, WPCs, JobStatuses
  <2>. QED
    BY <2>1, <2>2
<1>2. ASSUME NEW c \in Clients, Check(c) PROVE JobInHand' /\ ClaimedOnce'
  <2>1. JobInHand'
    BY <1>2 DEF Check, Dedupes, Answer, WPCs, JobStatuses
  <2>2. ClaimedOnce'
    BY <1>2 DEF Check, Dedupes, Answer, WPCs, JobStatuses
  <2>. QED
    BY <2>1, <2>2
<1>3. ASSUME NEW c \in Clients, Seed(c) PROVE JobInHand' /\ ClaimedOnce'
  <2>1. JobInHand'
    BY <1>3 DEF Seed, WPCs, JobStatuses
  <2>2. ClaimedOnce'
    BY <1>3 DEF Seed, WPCs, JobStatuses
  <2>. QED
    BY <2>1, <2>2
<1>4. ASSUME NEW c \in Clients, CreateJob(c) PROVE JobInHand' /\ ClaimedOnce'
  <2>1. JobInHand'
    BY <1>4 DEF CreateJob, NewJobs, Answer, WPCs, JobStatuses
  <2>2. ClaimedOnce'
    BY <1>4 DEF CreateJob, NewJobs, Answer, WPCs, JobStatuses
  <2>. QED
    BY <2>1, <2>2
<1>5. ASSUME NEW c \in Clients, RequestFails(c) PROVE JobInHand' /\ ClaimedOnce'
  <2>1. JobInHand'
    BY <1>5 DEF RequestFails, Answer, Event, WPCs, JobStatuses
  <2>2. ClaimedOnce'
    BY <1>5 DEF RequestFails, Answer, Event, WPCs, JobStatuses
  <2>. QED
    BY <2>1, <2>2
<1>6. ASSUME NEW w \in Workers, Claim(w) PROVE JobInHand' /\ ClaimedOnce'
  <2>0. PICK j \in JobIds : /\ jstatus[j] \in {"queued", "retry", "queued_no_enrich"}
                            /\ jstatus' = [jstatus EXCEPT ![j] = "running"]
                            /\ job' = [job EXCEPT ![w] = j]
    BY <1>6 DEF Claim, Takeable
  <2>1. JobInHand'
    <3>1. \A u \in Workers : job[u] # j
      <4>1. j # NoJob
        BY <2>0
      <4>2. \A u \in Workers : job[u] # NoJob => jstatus[job[u]] \in {"failed", "running"}
        BY DEF JobInHand
      <4>. QED
        BY <2>0, <4>1, <4>2
    <3>2. wpc' = [wpc EXCEPT ![w] = "fetch"] /\ UNCHANGED <<article, cpc, want>>
      BY <1>6 DEF Claim, Turn
    <3>3. j # 0 /\ article[j] \in Articles
      BY <2>0
    <3>. QED
      BY <2>0, <3>1, <3>2, <3>3
  <2>2. ClaimedOnce'
    BY <1>6 DEF Claim, Turn, Takeable, WPCs, JobStatuses
  <2>. QED
    BY <2>1, <2>2
<1>7. ASSUME NEW w \in Workers, FetchFails(w) PROVE JobInHand' /\ ClaimedOnce'
  <2>1. JobInHand'
    BY <1>7 DEF FetchFails, EndJob, WPCs, JobStatuses
  <2>2. ClaimedOnce'
    BY <1>7 DEF FetchFails, EndJob, WPCs, JobStatuses
  <2>. QED
    BY <2>1, <2>2
<1>8. ASSUME NEW w \in Workers, MarkArticleFailed(w) PROVE JobInHand' /\ ClaimedOnce'
  <2>1. JobInHand'
    BY <1>8 DEF MarkArticleFailed, Turn, Forget, Mine, WPCs, JobStatuses
  <2>2. ClaimedOnce'
    BY <1>8 DEF MarkArticleFailed, Turn, Forget, Mine, WPCs, JobStatuses
  <2>. QED
    BY <2>1, <2>2
<1>9. ASSUME NEW w \in Workers, NEW v \in Texts, ReplaceSections(w, v) PROVE JobInHand' /\ ClaimedOnce'
  <2>1. JobInHand'
    BY <1>9 DEF ReplaceSections, Turn, Mine, WPCs, JobStatuses
  <2>2. ClaimedOnce'
    BY <1>9 DEF ReplaceSections, Turn, Mine, WPCs, JobStatuses
  <2>. QED
    BY <2>1, <2>2
<1>10. ASSUME NEW w \in Workers, MarkExtracted(w) PROVE JobInHand' /\ ClaimedOnce'
  <2>1. JobInHand'
    BY <1>10 DEF MarkExtracted, Turn, Mine, WPCs, JobStatuses
  <2>2. ClaimedOnce'
    BY <1>10 DEF MarkExtracted, Turn, Mine, WPCs, JobStatuses
  <2>. QED
    BY <2>1, <2>2
<1>11. ASSUME NEW w \in Workers, MarkEnriched(w) PROVE JobInHand' /\ ClaimedOnce'
  <2>1. JobInHand'
    BY <1>11 DEF MarkEnriched, Turn, Mine, WPCs, JobStatuses
  <2>2. ClaimedOnce'
    BY <1>11 DEF MarkEnriched, Turn, Mine, WPCs, JobStatuses
  <2>. QED
    BY <2>1, <2>2
<1>12. ASSUME NEW w \in Workers, FinishJob(w) PROVE JobInHand' /\ ClaimedOnce'
  <2>1. JobInHand'
    BY <1>12 DEF FinishJob, EndJob, Forget, WPCs, JobStatuses
  <2>2. ClaimedOnce'
    BY <1>12 DEF FinishJob, EndJob, Forget, WPCs, JobStatuses
  <2>. QED
    BY <2>1, <2>2
<1>13. ASSUME NEW w \in Workers, EnrichFails(w) PROVE JobInHand' /\ ClaimedOnce'
  <2>1. JobInHand'
    BY <1>13 DEF EnrichFails, Turn, Partial, Mine, WPCs, JobStatuses
  <2>2. ClaimedOnce'
    BY <1>13 DEF EnrichFails, Turn, Partial, Mine, WPCs, JobStatuses
  <2>. QED
    BY <2>1, <2>2
<1>14. ASSUME NEW w \in Workers, FailJob(w) PROVE JobInHand' /\ ClaimedOnce'
  <2>1. JobInHand'
    BY <1>14 DEF FailJob, EndJob, Forget, WPCs, JobStatuses
  <2>2. ClaimedOnce'
    BY <1>14 DEF FailJob, EndJob, Forget, WPCs, JobStatuses
  <2>. QED
    BY <2>1, <2>2
<1>15. ASSUME NEW w \in Workers, Restart(w) PROVE JobInHand' /\ ClaimedOnce'
  <2>1. JobInHand'
    BY <1>15 DEF Restart, Turn, WPCs, JobStatuses
  <2>2. ClaimedOnce'
    BY <1>15 DEF Restart, Turn, WPCs, JobStatuses
  <2>. QED
    BY <2>1, <2>2
<1>16. ASSUME NEW w \in Workers, StoreRaises(w) PROVE JobInHand' /\ ClaimedOnce'
  <2>1. JobInHand'
    BY <1>16 DEF StoreRaises, Turn, Partial, Mine, Event, WPCs, JobStatuses
  <2>2. ClaimedOnce'
    BY <1>16 DEF StoreRaises, Turn, Partial, Mine, Event, WPCs, JobStatuses
  <2>. QED
    BY <2>1, <2>2
<1>17. ASSUME NEW w \in Workers, Crash(w) PROVE JobInHand' /\ ClaimedOnce'
  <2>1. JobInHand'
    BY <1>17 DEF Crash, Event, Forget, Mine, WPCs, JobStatuses
  <2>2. ClaimedOnce'
    BY <1>17 DEF Crash, Event, Forget, Mine, WPCs, JobStatuses
  <2>. QED
    BY <2>1, <2>2
<1>18. CASE UNCHANGED vars
  BY <1>18 DEF vars
<1>. QED
  BY <1>1, <1>2, <1>3, <1>4, <1>5, <1>6, <1>7, <1>8, <1>9, <1>10, <1>11, <1>12, <1>13, <1>14, <1>15, <1>16, <1>17, <1>18 DEF Next, ClientStep, WorkerStep

\* Claiming is exclusive: whatever the workers and clients do, and however often
\* workers die, a job is handed to one worker, once (claim_next_job).
THEOREM ClaimsAreExclusive == Spec => []JobInv
<1>1. Init => JobInv
  BY IntelAssumption DEF Init, JobInv, TypeOK, JobInHand, ClaimedOnce, Statuses, JobStatuses,
     Claimable, WPCs, CPCs, NoJob, JobIds, IntelAssumption
<1>2. JobInv /\ [Next]_vars => JobInv'
  BY TypeStep, JobStep DEF JobInv
<1>. QED
  BY <1>1, <1>2, PTL DEF Spec

(***************************************************************************)
(* A queued article is on its way.  Its witness changes from the request,  *)
(* to the job, to the worker that claims it, and only that worker's marking *)
(* of the article, or a death (dropped), ends the chain.                   *)
(***************************************************************************)
LEMMA QueuedStep ==
    ASSUME JobInv, JobInv', QueuedHasJob, [Next]_vars
    PROVE  QueuedHasJob'
<1>. SUFFICES ASSUME NEW b \in Articles \ dropped', status'[b] = "queued"
              PROVE  \/ \E j \in JobIds : article'[j] = b /\ jstatus'[j] \in Claimable
                     \/ \E c \in Clients : cpc'[c] = "create" /\ want'[c] = b
                     \/ \E w \in Workers :
                            /\ wpc'[w] \in {"fetch", "extracted", "failart"}
                            /\ article'[job'[w]] = b
  BY DEF QueuedHasJob, Unmarked, Mine
<1>. DEFINE Goal == \/ \E j \in JobIds : article'[j] = b /\ jstatus'[j] \in Claimable
                    \/ \E c \in Clients : cpc'[c] = "create" /\ want'[c] = b
                    \/ \E w \in Workers :
                           /\ wpc'[w] \in {"fetch", "extracted", "failart"}
                           /\ article'[job'[w]] = b
<1>0. b \notin dropped
  <2>1. dropped \subseteq dropped'
    BY DEF Next, ClientStep, WorkerStep, vars, history, Ask, Check, Answer, Seed, CreateJob, RequestFails, Event, Claim, FetchFails, EndJob, MarkArticleFailed, Forget, ReplaceSections, MarkExtracted, MarkEnriched, FinishJob, EnrichFails, FailJob, Restart, StoreRaises, Crash
  <2>. QED
    BY <2>1
<1>. USE DEF JobInv, TypeOK, JobInHand, articleVars, jobVars, workerVars, clientVars, history
<1>1. ASSUME NEW c \in Clients, NEW a \in Articles, NEW force \in BOOLEAN, NEW noEnrich \in BOOLEAN, Ask(c, a, force, noEnrich) PROVE Goal
  BY <1>1, <1>0 DEF Ask, QueuedHasJob, Unmarked, Mine, Claimable
<1>2. ASSUME NEW c \in Clients, Check(c) PROVE Goal
  BY <1>2, <1>0 DEF Check, Dedupes, Answer, QueuedHasJob, Unmarked, Mine, Claimable
<1>3. ASSUME NEW c \in Clients, Seed(c) PROVE Goal
  BY <1>3, <1>0 DEF Seed, QueuedHasJob, Unmarked, Mine, Claimable
<1>4. ASSUME NEW c \in Clients, CreateJob(c) PROVE Goal
  BY <1>4, <1>0 DEF CreateJob, NewJobs, Answer, QueuedHasJob, Unmarked, Mine, Claimable
<1>5. ASSUME NEW c \in Clients, RequestFails(c) PROVE Goal
  BY <1>5, <1>0 DEF RequestFails, Answer, Event, QueuedHasJob, Unmarked, Mine, Claimable
<1>6. ASSUME NEW w \in Workers, Claim(w) PROVE Goal
  BY <1>6, <1>0 DEF Claim, Turn, Takeable, QueuedHasJob, Unmarked, Mine, Claimable
<1>7. ASSUME NEW w \in Workers, FetchFails(w) PROVE Goal
  BY <1>7, <1>0 DEF FetchFails, EndJob, QueuedHasJob, Unmarked, Mine, Claimable
<1>8. ASSUME NEW w \in Workers, MarkArticleFailed(w) PROVE Goal
  BY <1>8, <1>0 DEF MarkArticleFailed, Turn, Forget, Mine, QueuedHasJob, Unmarked, Claimable
<1>9. ASSUME NEW w \in Workers, NEW v \in Texts, ReplaceSections(w, v) PROVE Goal
  BY <1>9, <1>0 DEF ReplaceSections, Turn, Mine, QueuedHasJob, Unmarked, Claimable
<1>10. ASSUME NEW w \in Workers, MarkExtracted(w) PROVE Goal
  BY <1>10, <1>0 DEF MarkExtracted, Turn, Mine, QueuedHasJob, Unmarked, Claimable
<1>11. ASSUME NEW w \in Workers, MarkEnriched(w) PROVE Goal
  BY <1>11, <1>0 DEF MarkEnriched, Turn, Mine, QueuedHasJob, Unmarked, Claimable
<1>12. ASSUME NEW w \in Workers, FinishJob(w) PROVE Goal
  BY <1>12, <1>0 DEF FinishJob, EndJob, Forget, QueuedHasJob, Unmarked, Mine, Claimable
<1>13. ASSUME NEW w \in Workers, EnrichFails(w) PROVE Goal
  BY <1>13, <1>0 DEF EnrichFails, Turn, Partial, Mine, QueuedHasJob, Unmarked, Claimable
<1>14. ASSUME NEW w \in Workers, FailJob(w) PROVE Goal
  BY <1>14, <1>0 DEF FailJob, EndJob, Forget, QueuedHasJob, Unmarked, Mine, Claimable
<1>15. ASSUME NEW w \in Workers, Restart(w) PROVE Goal
  BY <1>15, <1>0 DEF Restart, Turn, QueuedHasJob, Unmarked, Mine, Claimable
<1>16. ASSUME NEW w \in Workers, StoreRaises(w) PROVE Goal
  BY <1>16, <1>0 DEF StoreRaises, Turn, Partial, Mine, Event, QueuedHasJob, Unmarked, Mine, Claimable
<1>17. ASSUME NEW w \in Workers, Crash(w) PROVE Goal
  BY <1>17, <1>0 DEF Crash, Event, Forget, Mine, QueuedHasJob, Unmarked, Claimable
<1>18. CASE UNCHANGED vars
  BY <1>18, <1>0 DEF vars, QueuedHasJob, Unmarked, Mine
<1>. QED
  BY <1>1, <1>2, <1>3, <1>4, <1>5, <1>6, <1>7, <1>8, <1>9, <1>10, <1>11, <1>12, <1>13, <1>14, <1>15, <1>16, <1>17, <1>18 DEF Next, ClientStep, WorkerStep

\* An article whose status is "queued" has a request, a job or a worker that will
\* change it, unless a request failed after it seeded the article or a worker died
\* (upsert_intel_article_seed, create_intel_ingest_job, process_job).
THEOREM QueuedIsOnItsWay == Spec => []QueuedHasJob
<1>1. Init => QueuedHasJob
  BY DEF Init, QueuedHasJob
<1>2. JobInv /\ JobInv' /\ QueuedHasJob /\ [Next]_vars => QueuedHasJob'
  BY QueuedStep
<1>. QED
  BY <1>1, <1>2, ClaimsAreExclusive, PTL DEF Spec

(***************************************************************************)
(* Signals cite the stored sections.  The property is about articles at     *)
(* rest; what carries it through a job is that the only worker at the      *)
(* article holds the text it has stored so far.                            *)
(***************************************************************************)
\* No two workers are at an article, unless a claim or a seed has seen one there.
SoleWorker ==
    \A v, w \in Workers :
        /\ job[v] # NoJob /\ job[w] # NoJob
        /\ article[job[v]] = article[job[w]]
        /\ article[job[v]] \notin raced
        => v = w

\* What the worker at an article has stored of the text it holds.
PassInHand ==
    \A w \in Workers :
        job[w] # NoJob /\ article[job[w]] \notin raced \cup dropped =>
            /\ wpc[w] \notin {"fetch", "failart"} => sections[article[job[w]]] = held[w]
            /\ wpc[w] \in {"enrich", "done", "partial"} => text[article[job[w]]] = held[w]
            /\ wpc[w] \notin {"extracted", "enrich"} => Cites(article[job[w]])

CiteInv == SoleWorker /\ PassInHand /\ SignalsCiteSections

\* Every step keeps the citations, with the pass that writes them.
LEMMA CiteStep ==
    ASSUME JobInv, JobInv', CiteInv, [Next]_vars
    PROVE  CiteInv'
<1>. USE DEF JobInv, TypeOK, JobInHand, ClaimedOnce, articleVars, jobVars, workerVars,
       clientVars, history
<1>1. ASSUME NEW c \in Clients, NEW a \in Articles, NEW force \in BOOLEAN, NEW noEnrich \in BOOLEAN, Ask(c, a, force, noEnrich) PROVE CiteInv'
  <2>1. SoleWorker'
    BY <1>1 DEF Ask, CiteInv, SoleWorker, Mine, BeingProcessed
  <2>2. PassInHand'
    BY <1>1 DEF Ask, CiteInv, SoleWorker, PassInHand, SignalsCiteSections, Cites, Mine, BeingProcessed
  <2>3. SignalsCiteSections'
    BY <1>1 DEF Ask, CiteInv, SoleWorker, PassInHand, SignalsCiteSections, Cites, Mine, BeingProcessed
  <2>. QED
    BY <2>1, <2>2, <2>3 DEF CiteInv
<1>2. ASSUME NEW c \in Clients, Check(c) PROVE CiteInv'
  <2>1. SoleWorker'
    BY <1>2 DEF Check, Dedupes, Answer, CiteInv, SoleWorker, Mine, BeingProcessed
  <2>2. PassInHand'
    BY <1>2 DEF Check, Dedupes, Answer, CiteInv, SoleWorker, PassInHand, SignalsCiteSections, Cites, Mine, BeingProcessed
  <2>3. SignalsCiteSections'
    BY <1>2 DEF Check, Dedupes, Answer, CiteInv, SoleWorker, PassInHand, SignalsCiteSections, Cites, Mine, BeingProcessed
  <2>. QED
    BY <2>1, <2>2, <2>3 DEF CiteInv
<1>3. ASSUME NEW c \in Clients, Seed(c) PROVE CiteInv'
  <2>1. SoleWorker'
    BY <1>3 DEF Seed, CiteInv, SoleWorker, Mine, BeingProcessed
  <2>2. PassInHand'
    BY <1>3 DEF Seed, CiteInv, SoleWorker, PassInHand, SignalsCiteSections, Cites, Mine, BeingProcessed
  <2>3. SignalsCiteSections'
    BY <1>3 DEF Seed, CiteInv, SoleWorker, PassInHand, SignalsCiteSections, Cites, Mine, BeingProcessed
  <2>. QED
    BY <2>1, <2>2, <2>3 DEF CiteInv
<1>4. ASSUME NEW c \in Clients, CreateJob(c) PROVE CiteInv'
  <2>1. SoleWorker'
    BY <1>4 DEF CreateJob, NewJobs, Answer, CiteInv, SoleWorker, Mine, BeingProcessed
  <2>2. PassInHand'
    BY <1>4 DEF CreateJob, NewJobs, Answer, CiteInv, SoleWorker, PassInHand, SignalsCiteSections, Cites, Mine, BeingProcessed
  <2>3. SignalsCiteSections'
    BY <1>4 DEF CreateJob, NewJobs, Answer, CiteInv, SoleWorker, PassInHand, SignalsCiteSections, Cites, Mine, BeingProcessed
  <2>. QED
    BY <2>1, <2>2, <2>3 DEF CiteInv
<1>5. ASSUME NEW c \in Clients, RequestFails(c) PROVE CiteInv'
  <2>1. SoleWorker'
    BY <1>5 DEF RequestFails, Answer, Event, CiteInv, SoleWorker, Mine, BeingProcessed
  <2>2. PassInHand'
    BY <1>5 DEF RequestFails, Answer, Event, CiteInv, SoleWorker, PassInHand, SignalsCiteSections, Cites, Mine, BeingProcessed
  <2>3. SignalsCiteSections'
    BY <1>5 DEF RequestFails, Answer, Event, CiteInv, SoleWorker, PassInHand, SignalsCiteSections, Cites, Mine, BeingProcessed
  <2>. QED
    BY <2>1, <2>2, <2>3 DEF CiteInv
<1>6. ASSUME NEW w \in Workers, Claim(w) PROVE CiteInv'
  <2>1. SoleWorker'
    BY <1>6 DEF Claim, Turn, Takeable, CiteInv, SoleWorker, Mine, BeingProcessed
  <2>2. PassInHand'
    BY <1>6 DEF Claim, Turn, Takeable, CiteInv, SoleWorker, PassInHand, SignalsCiteSections, Cites, Mine, BeingProcessed
  <2>3. SignalsCiteSections'
    BY <1>6 DEF Claim, Turn, Takeable, CiteInv, SoleWorker, PassInHand, SignalsCiteSections, Cites, Mine, BeingProcessed
  <2>. QED
    BY <2>1, <2>2, <2>3 DEF CiteInv
<1>7. ASSUME NEW w \in Workers, FetchFails(w) PROVE CiteInv'
  <2>1. SoleWorker'
    BY <1>7 DEF FetchFails, EndJob, CiteInv, SoleWorker, Mine, BeingProcessed
  <2>2. PassInHand'
    BY <1>7 DEF FetchFails, EndJob, CiteInv, SoleWorker, PassInHand, SignalsCiteSections, Cites, Mine, BeingProcessed
  <2>3. SignalsCiteSections'
    BY <1>7 DEF FetchFails, EndJob, CiteInv, SoleWorker, PassInHand, SignalsCiteSections, Cites, Mine, BeingProcessed
  <2>. QED
    BY <2>1, <2>2, <2>3 DEF CiteInv
<1>8. ASSUME NEW w \in Workers, MarkArticleFailed(w) PROVE CiteInv'
  <2>1. SoleWorker'
    BY <1>8 DEF MarkArticleFailed, Turn, Forget, CiteInv, SoleWorker, Mine, BeingProcessed
  <2>2. PassInHand'
    BY <1>8 DEF MarkArticleFailed, Turn, Forget, CiteInv, SoleWorker, PassInHand, SignalsCiteSections, Cites, Mine, BeingProcessed
  <2>3. SignalsCiteSections'
    BY <1>8 DEF MarkArticleFailed, Turn, Forget, CiteInv, SoleWorker, PassInHand, SignalsCiteSections, Cites, Mine, BeingProcessed
  <2>. QED
    BY <2>1, <2>2, <2>3 DEF CiteInv
<1>9. ASSUME NEW w \in Workers, NEW v \in Texts, ReplaceSections(w, v) PROVE CiteInv'
  <2>1. SoleWorker'
    BY <1>9 DEF ReplaceSections, Turn, CiteInv, SoleWorker, Mine, BeingProcessed
  <2>2. PassInHand'
    BY <1>9 DEF ReplaceSections, Turn, CiteInv, SoleWorker, PassInHand, SignalsCiteSections, Cites, Mine, BeingProcessed
  <2>3. SignalsCiteSections'
    BY <1>9 DEF ReplaceSections, Turn, CiteInv, SoleWorker, PassInHand, SignalsCiteSections, Cites, Mine, BeingProcessed
  <2>. QED
    BY <2>1, <2>2, <2>3 DEF CiteInv
<1>10. ASSUME NEW w \in Workers, MarkExtracted(w) PROVE CiteInv'
  <2>1. SoleWorker'
    BY <1>10 DEF MarkExtracted, Turn, CiteInv, SoleWorker, Mine, BeingProcessed
  <2>2. PassInHand'
    BY <1>10 DEF MarkExtracted, Turn, CiteInv, SoleWorker, PassInHand, SignalsCiteSections, Cites, Mine, BeingProcessed
  <2>3. SignalsCiteSections'
    BY <1>10 DEF MarkExtracted, Turn, CiteInv, SoleWorker, PassInHand, SignalsCiteSections, Cites, Mine, BeingProcessed
  <2>. QED
    BY <2>1, <2>2, <2>3 DEF CiteInv
<1>11. ASSUME NEW w \in Workers, MarkEnriched(w) PROVE CiteInv'
  <2>1. SoleWorker'
    BY <1>11 DEF MarkEnriched, Turn, CiteInv, SoleWorker, Mine, BeingProcessed
  <2>2. PassInHand'
    BY <1>11 DEF MarkEnriched, Turn, CiteInv, SoleWorker, PassInHand, SignalsCiteSections, Cites, Mine, BeingProcessed
  <2>3. SignalsCiteSections'
    BY <1>11 DEF MarkEnriched, Turn, CiteInv, SoleWorker, PassInHand, SignalsCiteSections, Cites, Mine, BeingProcessed
  <2>. QED
    BY <2>1, <2>2, <2>3 DEF CiteInv
<1>12. ASSUME NEW w \in Workers, FinishJob(w) PROVE CiteInv'
  <2>1. SoleWorker'
    BY <1>12 DEF FinishJob, EndJob, Forget, CiteInv, SoleWorker, Mine, BeingProcessed
  <2>2. PassInHand'
    BY <1>12 DEF FinishJob, EndJob, Forget, CiteInv, SoleWorker, PassInHand, SignalsCiteSections, Cites, Mine, BeingProcessed
  <2>3. SignalsCiteSections'
    BY <1>12 DEF FinishJob, EndJob, Forget, CiteInv, SoleWorker, PassInHand, SignalsCiteSections, Cites, Mine, BeingProcessed
  <2>. QED
    BY <2>1, <2>2, <2>3 DEF CiteInv
<1>13. ASSUME NEW w \in Workers, EnrichFails(w) PROVE CiteInv'
  <2>1. SoleWorker'
    BY <1>13 DEF EnrichFails, Turn, Partial, CiteInv, SoleWorker, Mine, BeingProcessed
  <2>2. PassInHand'
    BY <1>13 DEF EnrichFails, Turn, Partial, CiteInv, SoleWorker, PassInHand, SignalsCiteSections, Cites, Mine, BeingProcessed
  <2>3. SignalsCiteSections'
    BY <1>13 DEF EnrichFails, Turn, Partial, CiteInv, SoleWorker, PassInHand, SignalsCiteSections, Cites, Mine, BeingProcessed
  <2>. QED
    BY <2>1, <2>2, <2>3 DEF CiteInv
<1>14. ASSUME NEW w \in Workers, FailJob(w) PROVE CiteInv'
  <2>1. SoleWorker'
    BY <1>14 DEF FailJob, EndJob, Forget, CiteInv, SoleWorker, Mine, BeingProcessed
  <2>2. PassInHand'
    BY <1>14 DEF FailJob, EndJob, Forget, CiteInv, SoleWorker, PassInHand, SignalsCiteSections, Cites, Mine, BeingProcessed
  <2>3. SignalsCiteSections'
    BY <1>14 DEF FailJob, EndJob, Forget, CiteInv, SoleWorker, PassInHand, SignalsCiteSections, Cites, Mine, BeingProcessed
  <2>. QED
    BY <2>1, <2>2, <2>3 DEF CiteInv
<1>15. ASSUME NEW w \in Workers, Restart(w) PROVE CiteInv'
  <2>1. SoleWorker'
    BY <1>15 DEF Restart, Turn, CiteInv, SoleWorker, Mine, BeingProcessed
  <2>2. PassInHand'
    BY <1>15 DEF Restart, Turn, CiteInv, SoleWorker, PassInHand, SignalsCiteSections, Cites, Mine, BeingProcessed
  <2>3. SignalsCiteSections'
    BY <1>15 DEF Restart, Turn, CiteInv, SoleWorker, PassInHand, SignalsCiteSections, Cites, Mine, BeingProcessed
  <2>. QED
    BY <2>1, <2>2, <2>3 DEF CiteInv
<1>16. ASSUME NEW w \in Workers, StoreRaises(w) PROVE CiteInv'
  <2>1. SoleWorker'
    BY <1>16 DEF StoreRaises, Turn, Partial, Event, CiteInv, SoleWorker, Mine, BeingProcessed
  <2>2. PassInHand'
    BY <1>16 DEF StoreRaises, Turn, Partial, Event, CiteInv, SoleWorker, PassInHand, SignalsCiteSections, Cites, Mine, BeingProcessed
  <2>3. SignalsCiteSections'
    BY <1>16 DEF StoreRaises, Turn, Partial, Event, CiteInv, SoleWorker, PassInHand, SignalsCiteSections, Cites, Mine, BeingProcessed
  <2>. QED
    BY <2>1, <2>2, <2>3 DEF CiteInv
<1>17. ASSUME NEW w \in Workers, Crash(w) PROVE CiteInv'
  <2>1. SoleWorker'
    BY <1>17 DEF Crash, Event, Forget, CiteInv, SoleWorker, Mine, BeingProcessed
  <2>2. PassInHand'
    BY <1>17 DEF Crash, Event, Forget, CiteInv, SoleWorker, PassInHand, SignalsCiteSections, Cites, Mine, BeingProcessed
  <2>3. SignalsCiteSections'
    BY <1>17 DEF Crash, Event, Forget, CiteInv, SoleWorker, PassInHand, SignalsCiteSections, Cites, Mine, BeingProcessed
  <2>. QED
    BY <2>1, <2>2, <2>3 DEF CiteInv
<1>18. CASE UNCHANGED vars
  BY <1>18 DEF vars, CiteInv, SoleWorker, PassInHand, SignalsCiteSections, Cites, Mine, BeingProcessed
<1>. QED
  BY <1>1, <1>2, <1>3, <1>4, <1>5, <1>6, <1>7, <1>8, <1>9, <1>10, <1>11, <1>12, <1>13, <1>14, <1>15, <1>16, <1>17, <1>18 DEF Next, ClientStep, WorkerStep

\* Outline and signals of an article of any status cite its stored sections
\* whenever no worker is at it, unless it was cut anew without enrichment, two
\* actors wrote it at once or one left it halfway
\* (replace_intel_sections, mark_article_extracted, mark_article_enriched).
THEOREM SignalsAreCited == Spec => []SignalsCiteSections
<1>1. Init => CiteInv
  BY DEF Init, CiteInv, SoleWorker, PassInHand, SignalsCiteSections, Cites, BeingProcessed
<1>2. JobInv /\ JobInv' /\ CiteInv /\ [Next]_vars => CiteInv'
  BY CiteStep
<1>3. CiteInv => SignalsCiteSections
  BY DEF CiteInv
<1>. QED
  BY <1>1, <1>2, <1>3, ClaimsAreExclusive, PTL DEF Spec

(***************************************************************************)
(* The job table implements RunLifecycle.  What a worker is on changes only *)
(* as it claims, ends or loses its job; that it ends the job it claimed is  *)
(* JobInHand.                                                               *)
(***************************************************************************)

\* A step that leaves a worker on what it is on.
LEMMA StaysOnIt ==
    ASSUME TypeOK, NEW w \in Workers, UNCHANGED jstatus,
           \A v \in Workers \ {w} : job'[v] = job[v] /\ wpc'[v] = wpc[v],
           \/ job'[w] = job[w] /\ (wpc'[w] = "failart" <=> wpc[w] = "failart")
           \/ /\ job[w] = NoJob \/ wpc[w] = "failart"
              /\ job'[w] = NoJob
    PROVE  UNCHANGED <<JobPhase, OnIt>>
<1>1. UNCHANGED JobPhase
  BY DEF JobPhase
<1>2. NoJob \notin JobIds
  BY IntelAssumption DEF NoJob, JobIds
<1>3. \A j \in JobIds, v \in Workers :
         job'[v] = j /\ wpc'[v] # "failart" <=> job[v] = j /\ wpc[v] # "failart"
  BY <1>2
<1>4. OnIt' = OnIt
  BY <1>3 DEF OnIt
<1>. QED
  BY <1>1, <1>4

\* A worker that has a job to end is on it alone.
LEMMA OneIsOnIt ==
    ASSUME TypeOK, JobInHand, NEW w \in Workers, job[w] # NoJob, wpc[w] # "failart"
    PROVE  /\ job[w] \in JobIds /\ job[w] \in OnIt
           /\ jstatus[job[w]] = "running" /\ JobPhase[job[w]] = "running"
           /\ \A v \in Workers \ {w} : job[v] # job[w]
<1>1. job[w] \in JobIds
  BY DEF TypeOK
<1>2. jstatus[job[w]] = "running" /\ \A v \in Workers \ {w} : job[v] # job[w]
  BY DEF JobInHand
<1>. QED
  BY <1>1, <1>2 DEF OnIt, JobPhase, Claimable

\* Once it is off it, nobody is.
LEMMA NobodyOnIt ==
    ASSUME TypeOK, JobInHand, NEW w \in Workers, job[w] # NoJob, wpc[w] # "failart",
           \A v \in Workers \ {w} : job'[v] = job[v] /\ wpc'[v] = wpc[v],
           job'[w] = NoJob \/ wpc'[w] = "failart"
    PROVE  OnIt' = OnIt \ {job[w]}
<1>1. NoJob \notin JobIds
  BY IntelAssumption DEF NoJob, JobIds
<1>2. \A v \in Workers \ {w} : job[v] # job[w]
  BY OneIsOnIt
<1>3. ASSUME NEW j \in JobIds
      PROVE  j \in OnIt' <=> j \in OnIt /\ j # job[w]
  BY <1>1, <1>2 DEF OnIt
<1>4. OnIt' \subseteq JobIds /\ OnIt \subseteq JobIds
  BY DEF OnIt, JobIds
<1>. QED
  BY <1>3, <1>4

\* Its end is a verdict on it.
LEMMA EndIsJudge ==
    ASSUME TypeOK, JobInHand, NEW w \in Workers, job[w] # NoJob, wpc[w] # "failart",
           NEW s \in {"done", "failed"},
           jstatus' = [jstatus EXCEPT ![job[w]] = s],
           \A v \in Workers \ {w} : job'[v] = job[v] /\ wpc'[v] = wpc[v],
           job'[w] = NoJob \/ wpc'[w] = "failart"
    PROVE  \E r \in JobIds : \/ Lifecycle!Judge(r, "completed")
                             \/ Lifecycle!Judge(r, "failed")
<1>. DEFINE verdict == IF s = "done" THEN "completed" ELSE "failed"
<1>1. /\ job[w] \in JobIds /\ job[w] \in OnIt /\ JobPhase[job[w]] = "running"
  BY OneIsOnIt
<1>2. OnIt' = OnIt \ {job[w]}
  BY NobodyOnIt
<1>3. JobPhase' = [JobPhase EXCEPT ![job[w]] = verdict]
  <2>1. \A j \in JobIds : jstatus'[j] = IF j = job[w] THEN s ELSE jstatus[j]
    BY <1>1 DEF TypeOK
  <2>2. s \notin Claimable
    BY DEF Claimable
  <2>. QED
    BY <1>1, <2>1, <2>2 DEF JobPhase
<1>4. Lifecycle!Judge(job[w], verdict)
  BY <1>1, <1>2, <1>3 DEF Lifecycle!Judge
<1>. QED
  BY <1>1, <1>4

\* Every step of the jobs is one of the lifecycle, or none.
LEMMA JobLifecycleStep ==
    ASSUME TypeOK, JobInHand, [Next]_vars
    PROVE  [Lifecycle!Next]_<<JobPhase, OnIt>>
<1>. USE DEF workerVars, jobVars, articleVars, clientVars, history
<1>0. \A w \in Workers : job[w] = NoJob <=> wpc[w] \in {"off", "idle"}
  BY DEF JobInHand
<1>1. ASSUME UNCHANGED <<jstatus, job, wpc>> PROVE UNCHANGED <<JobPhase, OnIt>>
  BY <1>1 DEF JobPhase, OnIt
<1>2. ASSUME NEW c \in Clients, NEW a, NEW force, NEW noEnrich,
             \/ Ask(c, a, force, noEnrich) \/ Check(c) \/ Seed(c) \/ RequestFails(c)
      PROVE  UNCHANGED <<jstatus, job, wpc>>
  BY <1>2 DEF Ask, Check, Seed, RequestFails
<1>3. ASSUME NEW c \in Clients, CreateJob(c)
      PROVE  \E r \in JobIds : Lifecycle!Submit(r)
  <2>1. PICK j \in NewJobs :
            jstatus' = [jstatus EXCEPT ![j] = IF c \in plain THEN "queued_no_enrich" ELSE "queued"]
    BY <1>3 DEF CreateJob
  <2>2. UNCHANGED <<job, wpc>>
    BY <1>3 DEF CreateJob
  <2>3. j \in JobIds /\ jstatus[j] = "absent"
    BY DEF NewJobs
  <2>4. JobPhase[j] = "absent" /\ JobPhase' = [JobPhase EXCEPT ![j] = "queued"]
    <3>1. \A i \in JobIds : i # j => jstatus'[i] = jstatus[i]
      BY <2>1 DEF TypeOK
    <3>2. jstatus'[j] \in Claimable
      BY <2>1, <2>3 DEF TypeOK, Claimable
    <3>. QED
      BY <2>3, <3>1, <3>2 DEF JobPhase, Claimable
  <2>5. OnIt' = OnIt
    BY <2>2 DEF OnIt
  <2>. QED
    BY <2>3, <2>4, <2>5 DEF Lifecycle!Submit
<1>4. ASSUME NEW w \in Workers, Claim(w)
      PROVE  \E r \in JobIds : Lifecycle!Take(r)
  <2>1. PICK j \in Takeable(w) : /\ jstatus' = [jstatus EXCEPT ![j] = "running"]
                                 /\ job' = [job EXCEPT ![w] = j]
    BY <1>4 DEF Claim
  <2>2. /\ wpc[w] = "idle" /\ wpc' = [wpc EXCEPT ![w] = "fetch"]
        /\ j \in JobIds /\ jstatus[j] \in Claimable
    BY <1>4 DEF Claim, Turn, Takeable
  <2>3. JobPhase[j] = "queued" /\ JobPhase' = [JobPhase EXCEPT ![j] = "running"]
    <3>1. \A i \in JobIds : jstatus'[i] = IF i = j THEN "running" ELSE jstatus[i]
      BY <2>1, <2>2 DEF TypeOK
    <3>. QED
      BY <2>2, <3>1 DEF JobPhase, Claimable
  <2>4. job[w] = NoJob /\ NoJob \notin JobIds
    BY <1>0, <2>2, IntelAssumption DEF NoJob, JobIds
  <2>5. OnIt' = OnIt \cup {j}
    <3>1. \A v \in Workers : /\ job'[v] = IF v = w THEN j ELSE job[v]
                             /\ wpc'[v] = IF v = w THEN "fetch" ELSE wpc[v]
      BY <2>1, <2>2 DEF TypeOK
    <3>2. ASSUME NEW i \in JobIds PROVE i \in OnIt' <=> i \in OnIt \/ i = j
      BY <2>4, <3>1 DEF OnIt
    <3>3. OnIt' \subseteq JobIds /\ OnIt \subseteq JobIds
      BY DEF OnIt, JobIds
    <3>. QED
      BY <2>2, <3>2, <3>3
  <2>. QED
    BY <2>2, <2>3, <2>5 DEF Lifecycle!Take
<1>5. ASSUME NEW w \in Workers, FetchFails(w) \/ FinishJob(w) \/ FailJob(w)
      PROVE  \E r \in JobIds : Lifecycle!Judge(r, "completed") \/ Lifecycle!Judge(r, "failed")
  <2>1. job[w] # NoJob /\ wpc[w] # "failart"
    BY <1>0, <1>5 DEF FetchFails, FinishJob, FailJob
  <2>2. /\ \A v \in Workers \ {w} : job'[v] = job[v] /\ wpc'[v] = wpc[v]
        /\ job'[w] = NoJob \/ wpc'[w] = "failart"
    BY <1>5 DEF FetchFails, FinishJob, FailJob, EndJob, Forget, TypeOK
  <2>3. \E s \in {"done", "failed"} : jstatus' = [jstatus EXCEPT ![job[w]] = s]
    BY <1>5 DEF FetchFails, FinishJob, FailJob, EndJob
  <2>. QED
    BY <2>1, <2>2, <2>3, EndIsJudge
<1>6. ASSUME NEW w \in Workers, NEW v,
             \/ ReplaceSections(w, v) \/ MarkExtracted(w) \/ MarkEnriched(w)
             \/ EnrichFails(w) \/ StoreRaises(w) \/ Restart(w) \/ MarkArticleFailed(w)
      PROVE  UNCHANGED <<JobPhase, OnIt>>
  <2>1. /\ UNCHANGED jstatus
        /\ \A u \in Workers \ {w} : job'[u] = job[u] /\ wpc'[u] = wpc[u]
    BY <1>6 DEF ReplaceSections, MarkExtracted, MarkEnriched, EnrichFails, StoreRaises,
                Restart, MarkArticleFailed, Turn, Forget, TypeOK
  <2>2. CASE MarkArticleFailed(w)
    BY <2>1, <2>2, StaysOnIt DEF MarkArticleFailed, Turn, Forget, TypeOK
  <2>3. CASE ~MarkArticleFailed(w)
    <3>1. UNCHANGED job /\ wpc[w] # "failart" /\ wpc'[w] # "failart"
      BY <1>6, <2>3 DEF ReplaceSections, MarkExtracted, MarkEnriched, EnrichFails,
                        StoreRaises, Restart, Turn, TypeOK
    <3>. QED
      BY <2>1, <3>1, StaysOnIt
  <2>. QED
    BY <2>2, <2>3
<1>7. ASSUME NEW w \in Workers, Crash(w)
      PROVE  UNCHANGED <<JobPhase, OnIt>> \/ \E r \in JobIds : Lifecycle!Abandon(r)
  <2>1. /\ UNCHANGED jstatus
        /\ \A u \in Workers \ {w} : job'[u] = job[u] /\ wpc'[u] = wpc[u]
        /\ job'[w] = NoJob
    BY <1>7 DEF Crash, Forget, TypeOK
  <2>2. CASE job[w] = NoJob \/ wpc[w] = "failart"
    BY <2>1, <2>2, StaysOnIt
  <2>3. CASE job[w] # NoJob /\ wpc[w] # "failart"
    BY <2>1, <2>3, OneIsOnIt, NobodyOnIt DEF Lifecycle!Abandon, JobPhase
  <2>. QED
    BY <2>2, <2>3
<1>8. CASE UNCHANGED vars
  BY <1>1, <1>8 DEF vars
<1>9. ASSUME NEW c \in Clients, ClientStep(c) PROVE [Lifecycle!Next]_<<JobPhase, OnIt>>
  BY <1>1, <1>2, <1>3, <1>9 DEF ClientStep, Lifecycle!Next
<1>10. ASSUME NEW w \in Workers, WorkerStep(w) \/ StoreRaises(w) \/ Crash(w)
       PROVE  [Lifecycle!Next]_<<JobPhase, OnIt>>
  BY <1>4, <1>5, <1>6, <1>7, <1>10 DEF WorkerStep, Lifecycle!Next
<1>. QED
  BY <1>8, <1>9, <1>10 DEF Next

\* The job table and the workers behind it implement RunLifecycle: no job is
\* queued again or taken twice, and only the worker that took it ends it.
THEOREM RefinesLifecycle == Spec => ImplementsLifecycle
<1>1. Init => Lifecycle!Init
  <2>. SUFFICES ASSUME Init PROVE Lifecycle!Init
    OBVIOUS
  <2>1. JobPhase = [j \in JobIds |-> "absent"]
    BY DEF Init, JobPhase, Claimable
  <2>2. OnIt = {}
    BY IntelAssumption DEF Init, OnIt, NoJob, JobIds
  <2>. QED
    BY <2>1, <2>2 DEF Lifecycle!Init
<1>2. JobInv /\ [Next]_vars => [Lifecycle!Next]_<<JobPhase, OnIt>>
  BY JobLifecycleStep DEF JobInv
<1>. QED
  BY <1>1, <1>2, ClaimsAreExclusive, PTL DEF Spec, ImplementsLifecycle, Lifecycle!Spec

\* No verdict on a job is revised: what is done or failed stays so
\* (update_job_status).
THEOREM VerdictsAreFinal == Spec => Lifecycle!VerdictsFinal
<1>1. ASSUME [Lifecycle!Next]_<<JobPhase, OnIt>>, NEW j \in JobIds \ OnIt,
             JobPhase[j] \in {"completed", "failed"}
      PROVE  ~Lifecycle!Revised(j)
  <2>1. CASE UNCHANGED <<JobPhase, OnIt>>
    BY <1>1, <2>1 DEF Lifecycle!Revised
  <2>0. DOMAIN JobPhase = JobIds
    BY DEF JobPhase
  <2>. HIDE DEF JobPhase
  <2>2. ASSUME NEW q \in JobIds,
               \/ Lifecycle!Submit(q) \/ Lifecycle!Take(q) \/ Lifecycle!Abandon(q)
               \/ Lifecycle!Judge(q, "completed") \/ Lifecycle!Judge(q, "failed")
        PROVE  ~Lifecycle!Revised(j)
    <3>1. q # j \/ Lifecycle!Abandon(q)
      BY <1>1, <2>2 DEF Lifecycle!Submit, Lifecycle!Take, Lifecycle!Judge
    <3>. QED
      BY <1>1, <2>0, <2>2, <3>1
         DEF Lifecycle!Submit, Lifecycle!Take, Lifecycle!Abandon, Lifecycle!Judge,
             Lifecycle!Revised
  <2>3. ASSUME NEW lost \in SUBSET JobIds, Lifecycle!GiveUp(lost)
        PROVE  ~Lifecycle!Revised(j)
    BY <1>1, <2>3 DEF Lifecycle!GiveUp, Lifecycle!Revised
  <2>. QED
    BY <1>1, <2>1, <2>2, <2>3 DEF Lifecycle!Next
<1>2. JobInv /\ [Next]_vars => [Lifecycle!NoneRevised]_<<JobPhase, OnIt>>
  BY <1>1, JobLifecycleStep DEF JobInv, Lifecycle!NoneRevised
<1>. QED
  BY <1>2, ClaimsAreExclusive, PTL DEF Spec, Lifecycle!VerdictsFinal
=============================================================================
