-------------------------- MODULE ResearchDocuments --------------------------
(***************************************************************************)
(* The documents of the research corpus and everything that writes them:   *)
(* the ingest worker (_process_source in app/research/worker.py), the      *)
(* re-embedding script, and the moderation endpoints.  A document moves    *)
(* through discovered, fetched, extracted, enriched and embedded, one      *)
(* transaction per stage; its chunks, vectors and insights live in tables  *)
(* of their own and are replaced by further transactions.  Nothing ties    *)
(* the transactions of one document together, so that processes interleave *)
(* and stop anywhere between them.                                         *)
(*                                                                         *)
(* The enrichment backfill (backfill_research_reasoning_metadata.py) is no *)
(* writer: before its first write, each row it lists runs into a SELECT of *)
(* columns the chunk table does not have (list_research_chunks_for_document *)
(* in app/storage/db.py), and is reported as failed.                       *)
(***************************************************************************)
EXTENDS Naturals

CONSTANTS
    Ingesters,    \* research workers
    Reembedders,  \* runs of scripts/reembed_research_documents.py
    Docs,         \* document ids
    Texts,        \* what an extraction may yield
    MaxModel,     \* embedding models are 1 .. MaxModel
    Orderly,      \* the model is changed only for a new one, with nothing running
    NoText, NoDoc,
    MaxEvents     \* bound: crashes, exceptions, operator calls, changes of the model

Procs   == Ingesters \cup Reembedders
Models  == 1 .. MaxModel
NoModel == 0

ASSUME DocumentsAssumption ==
    /\ Ingesters \cap Reembedders = {}
    /\ NoText \notin Texts
    /\ NoDoc \notin Docs
    /\ MaxModel \in Nat \ {0}
    /\ Orderly \in BOOLEAN
    /\ MaxEvents \in Nat

VARIABLES
    status,      \* document -> status column, "absent" while there is no row
    suppressed,  \* documents whose suppressed column is true
    payload,     \* documents whose raw_payload is not empty
    text,        \* document -> extracted_text
    model,       \* document -> embedding_model_id
    chunks,      \* document -> the texts its chunk rows were cut from
    vectors,     \* document -> models that have embedding rows for its chunks
    insights,    \* documents that may have insight rows
    config,      \* RESEARCH_EMBEDDING_MODEL as deployed
    pc,          \* process -> its next transaction
    doc,         \* process -> the document in hand
    cur,         \* process -> the status its seeding read
    held,        \* process -> the text in hand
    again,       \* processes that re-embed a document that was there before
    mdl,         \* process -> RESEARCH_EMBEDDING_MODEL when it started
    snap,        \* process -> text of the rows its listing returned
    events,      \* environment events so far (bounded by MaxEvents)
    raced        \* history: documents two actors had in hand at once

rowVars   == <<status, suppressed, payload, text, model>>
partVars  == <<chunks, vectors, insights>>
handVars  == <<doc, cur, held, again>>
procVars  == <<pc, handVars, mdl, snap>>
vars == <<rowVars, partVars, config, procVars, events, raced>>

Statuses == {"absent", "discovered", "fetched", "extracted", "enriched", "embedded",
             "failed", "suppressed"}

\* The statuses retrieval, digests and topic views read.
Readable == {"extracted", "enriched", "embedded"}

PCs == {"off", "idle", "seed", "seedwrite", "existing", "fetch", "extract", "summary",
        "enrich", "insights", "chunks", "vectors", "mark", "fail",
        "list", "next"}

TypeOK ==
    /\ status \in [Docs -> Statuses]
    /\ suppressed \in SUBSET Docs
    /\ payload \in SUBSET Docs
    /\ text \in [Docs -> Texts \cup {NoText}]
    /\ model \in [Docs -> Models \cup {NoModel}]
    /\ chunks \in [Docs -> SUBSET Texts]
    /\ vectors \in [Docs -> SUBSET Models]
    /\ insights \in SUBSET Docs
    /\ config \in Models
    /\ pc \in [Procs -> PCs]
    /\ doc \in [Procs -> Docs \cup {NoDoc}]
    /\ cur \in [Procs -> Statuses]
    /\ held \in [Procs -> Texts \cup {NoText}]
    /\ again \in SUBSET Procs
    /\ mdl \in [Procs -> Models]
    /\ snap \in [Procs -> [Docs -> Texts \cup {NoText}]]
    /\ events \in Nat
    /\ raced \in SUBSET Docs

\* An empty corpus and no process running.
Init ==
    /\ status = [d \in Docs |-> "absent"]
    /\ suppressed = {}
    /\ payload = {}
    /\ text = [d \in Docs |-> NoText]
    /\ model = [d \in Docs |-> NoModel]
    /\ chunks = [d \in Docs |-> {}]
    /\ vectors = [d \in Docs |-> {}]
    /\ insights = {}
    /\ config = 1
    /\ pc = [p \in Procs |-> "off"]
    /\ doc = [p \in Procs |-> NoDoc]
    /\ cur = [p \in Procs |-> "absent"]
    /\ held = [p \in Procs |-> NoText]
    /\ again = {}
    /\ mdl = [p \in Procs |-> 1]
    /\ snap = [p \in Procs |-> [d \in Docs |-> NoText]]
    /\ events = 0
    /\ raced = {}

-----------------------------------------------------------------------------
(* Helpers *)

Goto(p, from, to) ==
    /\ pc[p] = from
    /\ pc' = [pc EXCEPT ![p] = to]

SetStatus(d, s) == status' = [status EXCEPT ![d] = s]

\* Documents a process works on, or has listed and is going to work on.
InHand(p) == {d \in Docs : doc[p] = d \/ snap[p][d] # NoText}

\* An actor takes documents ds; those one of the other processes has in hand
\* are raced from now on.
Race(ds, others) ==
    raced' = raced \cup {d \in ds : \E q \in others : d \in InHand(q)}

Event == events < MaxEvents /\ events' = events + 1

\* The document is finished or given up: a worker turns to its next item, a
\* script to its next row.
Release(p, to) ==
    /\ pc' = [pc EXCEPT ![p] = to]
    /\ doc' = [doc EXCEPT ![p] = NoDoc]
    /\ cur' = [cur EXCEPT ![p] = "absent"]
    /\ held' = [held EXCEPT ![p] = NoText]
    /\ again' = again \ {p}

Done(p) == Release(p, IF p \in Ingesters THEN "idle" ELSE "next")

\* Mutant: only documents that were never embedded.
NeverEmbedded(p, d) ==
    /\ status[d] \in {"embedded", "extracted"}
    /\ text[d] # NoText
    /\ model[d] = NoModel

\* The listing of list_research_documents_for_reembed, and the same condition
\* on the row a worker reads after "deduped" (which knows no suppressed flag:
\* a suppressed row has another status).
Reembeddable(p, d) ==
    /\ status[d] \in {"embedded", "extracted"}
    /\ text[d] # NoText
    /\ model[d] # mdl[p]

-----------------------------------------------------------------------------
(* The ingest worker: one item of a source *)

\* A process starts and reads its environment; a script goes on to its listing.
Start(p) ==
    /\ Goto(p, "off", IF p \in Ingesters THEN "idle" ELSE "list")
    /\ mdl' = [mdl EXCEPT ![p] = config]
    /\ UNCHANGED <<rowVars, partVars, config, handVars, snap, events, raced>>

\* The source lists item d and robots.txt allows it.
Discover(p, d) ==
    /\ Goto(p, "idle", "seed")
    /\ doc' = [doc EXCEPT ![p] = d]
    /\ Race({d}, Procs \ {p})
    /\ UNCHANGED <<rowVars, partVars, config, cur, held, again, mdl, snap, events>>

\* upsert_research_document_seed: SELECT the status, then INSERT, UPDATE or
\* neither by what it said.
SeedRead(p) ==
    /\ Goto(p, "seed", "seedwrite")
    /\ cur' = [cur EXCEPT ![p] = status[doc[p]]]
    /\ UNCHANGED <<rowVars, partVars, config, doc, held, again, mdl, snap, events, raced>>

\* Mutant: an embedded document is fetched again as well.
RetriesEmbedded == {"failed", "discovered", "embedded"}

\* The statuses a worker starts again from the fetch.
Retried == {"failed", "discovered"}

SeedNew(p) ==
    /\ Goto(p, "seedwrite", "fetch")
    /\ cur[p] = "absent"
    /\ status[doc[p]] = "absent"
    /\ SetStatus(doc[p], "discovered")
    /\ UNCHANGED <<suppressed, payload, text, model, partVars, config, handVars, mdl, snap,
                   events, raced>>

\* Another worker inserted the row first: IntegrityError, the run fails.
SeedConflict(p) ==
    /\ pc[p] = "seedwrite"
    /\ cur[p] = "absent"
    /\ status[doc[p]] # "absent"
    /\ Done(p)
    /\ UNCHANGED <<rowVars, partVars, config, mdl, snap, events, raced>>

\* The UPDATE overwrites whatever status the row has by now.
SeedRetry(p) ==
    /\ Goto(p, "seedwrite", "fetch")
    /\ cur[p] \in Retried
    /\ SetStatus(doc[p], "discovered")
    /\ UNCHANGED <<suppressed, payload, text, model, partVars, config, handVars, mdl, snap,
                   events, raced>>

SeedDeduped(p) ==
    /\ Goto(p, "seedwrite", "existing")
    /\ cur[p] \notin Retried \cup {"absent"}
    /\ UNCHANGED <<rowVars, partVars, config, handVars, mdl, snap, events, raced>>

\* A deduped document that lacks the active model is embedded again.
LookExisting(p) ==
    /\ Goto(p, "existing", "chunks")
    /\ Reembeddable(p, doc[p])
    /\ held' = [held EXCEPT ![p] = text[doc[p]]]
    /\ again' = again \cup {p}
    /\ UNCHANGED <<rowVars, partVars, config, doc, cur, mdl, snap, events, raced>>

\* Nothing to re-embed, or the re-embed budget of the source is used up.
SkipExisting(p) ==
    /\ pc[p] = "existing"
    /\ Done(p)
    /\ UNCHANGED <<rowVars, partVars, config, mdl, snap, events, raced>>

\* The item is fetched.  A PDF's payload is not stored; when the fetch is
\* blocked the feed's summary stands in for the document.
MarkFetched(p, stored, to) ==
    /\ stored => to = "extract"
    /\ Goto(p, "fetch", to)
    /\ SetStatus(doc[p], "fetched")
    /\ payload' = IF stored THEN payload \cup {doc[p]} ELSE payload \ {doc[p]}
    /\ UNCHANGED <<suppressed, text, model, partVars, config, handVars, mdl, snap, events,
                   raced>>

\* Extraction yields nothing: the feed's summary, and no payload, is recorded.
FallbackFetched(p) ==
    /\ Goto(p, "extract", "summary")
    /\ SetStatus(doc[p], "fetched")
    /\ payload' = payload \ {doc[p]}
    /\ UNCHANGED <<suppressed, text, model, partVars, config, handVars, mdl, snap, events,
                   raced>>

\* The fetch or the extraction yields nothing and the feed has no summary, or
\* embedding a new document raised.
MarkFailed(p) ==
    /\ pc[p] \in {"fetch", "extract", "fail"}
    /\ SetStatus(doc[p], "failed")
    /\ Done(p)
    /\ UNCHANGED <<suppressed, payload, text, model, partVars, config, mdl, snap, events,
                   raced>>

\* Mutant: the row keeps its status.
PurgeKeepsStatus(d) ==
    /\ chunks' = [chunks EXCEPT ![d] = {}]
    /\ vectors' = [vectors EXCEPT ![d] = {}]
    /\ insights' = insights \ {d}
    /\ suppressed' = suppressed \cup {d}
    /\ model' = [model EXCEPT ![d] = NoModel]
    /\ UNCHANGED status

\* Mutant: the row keeps its embedding model.
PurgeKeepsModel(d) ==
    /\ chunks' = [chunks EXCEPT ![d] = {}]
    /\ vectors' = [vectors EXCEPT ![d] = {}]
    /\ insights' = insights \ {d}
    /\ suppressed' = suppressed \cup {d}
    /\ SetStatus(d, "suppressed")
    /\ UNCHANGED model

\* set_research_document_suppressed, one transaction.
Purge(d) ==
    /\ chunks' = [chunks EXCEPT ![d] = {}]
    /\ vectors' = [vectors EXCEPT ![d] = {}]
    /\ insights' = insights \ {d}
    /\ suppressed' = suppressed \cup {d}
    /\ model' = [model EXCEPT ![d] = NoModel]
    /\ SetStatus(d, "suppressed")

\* detect_junk_document names a reason.
SuppressJunk(p) ==
    /\ pc[p] \in {"extract", "summary"}
    /\ Purge(doc[p])
    /\ Done(p)
    /\ UNCHANGED <<payload, text, config, mdl, snap, events, raced>>

MarkExtracted(p, v) ==
    /\ pc[p] \in {"extract", "summary"}
    /\ pc' = [pc EXCEPT ![p] = "enrich"]
    /\ SetStatus(doc[p], "extracted")
    /\ text' = [text EXCEPT ![doc[p]] = v]
    /\ held' = [held EXCEPT ![p] = v]
    /\ UNCHANGED <<suppressed, payload, model, partVars, config, doc, cur, again, mdl, snap,
                   events, raced>>

\* Enrichment does not ask what the status was.
MarkEnriched(p) ==
    /\ Goto(p, "enrich", "insights")
    /\ SetStatus(doc[p], "enriched")
    /\ UNCHANGED <<suppressed, payload, text, model, partVars, config, handVars, mdl, snap,
                   events, raced>>

\* Insights, and the relations derived from them.
ReplaceInsights(p) ==
    /\ Goto(p, "insights", "chunks")
    /\ insights' = insights \cup {doc[p]}
    /\ UNCHANGED <<rowVars, chunks, vectors, config, handVars, mdl, snap, events, raced>>

-----------------------------------------------------------------------------
(* _embed_existing_document: the ingest worker and the re-embedding script *)

\* The vectors are computed first, then the chunk rows deleted and inserted in
\* one transaction; deleting a chunk deletes its embeddings.
ReplaceChunks(p) ==
    /\ Goto(p, "chunks", "vectors")
    /\ chunks' = [chunks EXCEPT ![doc[p]] = {held[p]}]
    /\ vectors' = [vectors EXCEPT ![doc[p]] = {}]
    /\ UNCHANGED <<rowVars, insights, config, handVars, mdl, snap, events, raced>>

\* Two such transactions overlap: neither's DELETE sees the other's INSERT.
\* (With one text the second INSERT breaks the primary key: EmbedRaises.)
OverlapChunks(p, q) ==
    /\ p # q
    /\ pc[p] = "chunks" /\ pc[q] = "chunks"
    /\ doc[p] = doc[q]
    /\ held[p] # held[q]
    /\ pc' = [pc EXCEPT ![p] = "vectors", ![q] = "vectors"]
    /\ chunks' = [chunks EXCEPT ![doc[p]] = {held[p], held[q]}]
    /\ vectors' = [vectors EXCEPT ![doc[p]] = {}]
    /\ UNCHANGED <<rowVars, insights, config, handVars, mdl, snap, events, raced>>

\* Embeddings refer to chunk rows, which must still be there.
InsertVectors(p) ==
    /\ Goto(p, "vectors", "mark")
    /\ held[p] \in chunks[doc[p]]
    /\ vectors' = [vectors EXCEPT ![doc[p]] = @ \cup {mdl[p]}]
    /\ UNCHANGED <<rowVars, chunks, insights, config, handVars, mdl, snap, events, raced>>

\* Embedding raised: a worker marks a new document failed and leaves one that
\* was there before, a script reports the row.
Fallout(p) ==
    \/ /\ p \in Ingesters \ again
       /\ pc' = [pc EXCEPT ![p] = "fail"]
       /\ UNCHANGED handVars
    \/ /\ p \notin Ingesters \ again
       /\ Done(p)

\* The chunks are gone: the foreign key fails.
VectorsRejected(p) ==
    /\ pc[p] = "vectors"
    /\ held[p] \notin chunks[doc[p]]
    /\ Fallout(p)
    /\ UNCHANGED <<rowVars, partVars, config, mdl, snap, events, raced>>

\* No chunks, no vectors, or the database fails.
EmbedRaises(p) ==
    /\ Event
    /\ pc[p] \in {"chunks", "vectors", "mark"}
    /\ Fallout(p)
    /\ UNCHANGED <<rowVars, partVars, config, mdl, snap, raced>>

MarkEmbedded(p) ==
    /\ pc[p] = "mark"
    /\ model' = [model EXCEPT ![doc[p]] = mdl[p]]
    /\ SetStatus(doc[p], "embedded")
    /\ Done(p)
    /\ UNCHANGED <<suppressed, payload, text, partVars, config, mdl, snap, events, raced>>

-----------------------------------------------------------------------------
(* The re-embedding script *)

ListReembed(p) ==
    LET ds == {d \in Docs : Reembeddable(p, d) /\ d \notin suppressed} IN
    /\ Goto(p, "list", "next")
    /\ snap' = [snap EXCEPT ![p] = [d \in Docs |-> IF d \in ds THEN text[d] ELSE NoText]]
    /\ Race(ds, Procs \ {p})
    /\ UNCHANGED <<rowVars, partVars, config, handVars, mdl, events>>

NextRow(p, d) ==
    /\ snap[p][d] # NoText
    /\ Goto(p, "next", "chunks")
    /\ doc' = [doc EXCEPT ![p] = d]
    /\ held' = [held EXCEPT ![p] = snap[p][d]]
    /\ snap' = [snap EXCEPT ![p] = [snap[p] EXCEPT ![d] = NoText]]
    /\ UNCHANGED <<rowVars, partVars, config, cur, again, mdl, events, raced>>

ScriptEnds(p) ==
    /\ \A d \in Docs : snap[p][d] = NoText
    /\ Goto(p, "next", "off")
    /\ UNCHANGED <<rowVars, partVars, config, handVars, mdl, snap, events, raced>>

-----------------------------------------------------------------------------
(* Failures, operators and deployment *)

\* Any other step raises: the worker's run fails and the document stays as it is.
StepRaises(p) ==
    /\ Event
    /\ pc[p] \in {"seed", "seedwrite", "existing", "fetch", "extract", "summary", "enrich",
                  "insights", "fail"}
    /\ Done(p)
    /\ UNCHANGED <<rowVars, partVars, config, mdl, snap, raced>>

\* The process dies and is gone until it is started again.
Crash(p) ==
    /\ Event
    /\ pc[p] # "off"
    /\ Release(p, "off")
    /\ snap' = [snap EXCEPT ![p] = [d \in Docs |-> NoText]]
    /\ UNCHANGED <<rowVars, partVars, config, mdl, raced>>

Suppress(d) ==
    /\ Event
    /\ status[d] # "absent"
    /\ Purge(d)
    /\ Race({d}, Procs)
    /\ UNCHANGED <<payload, text, config, procVars>>

\* The status an unsuppressed document gets, from the columns it has.
Restored(d) ==
    IF text[d] # NoText THEN "extracted" ELSE IF d \in payload THEN "fetched" ELSE "discovered"

\* Whatever the document's status: it need not be suppressed.
Unsuppress(d) ==
    /\ Event
    /\ status[d] # "absent"
    /\ suppressed' = suppressed \ {d}
    /\ SetStatus(d, Restored(d))
    /\ Race({d}, Procs)
    /\ UNCHANGED <<payload, text, model, partVars, config, procVars>>

\* redact_research_raw_payloads: the documents of a topic older than some age.
Redact(ds) ==
    /\ Event
    /\ payload' = payload \ ds
    /\ UNCHANGED <<status, suppressed, text, model, partVars, config, procVars, raced>>

\* RESEARCH_EMBEDDING_MODEL changes; processes read it when they start.
ChangeModel(m) ==
    /\ Event
    /\ m # config
    /\ Orderly => m > config /\ \A p \in Procs : pc[p] = "off"
    /\ config' = m
    /\ UNCHANGED <<rowVars, partVars, procVars, raced>>

-----------------------------------------------------------------------------
(* Specification *)

IngestStep(p) ==
    \/ \E d \in Docs : Discover(p, d)
    \/ SeedRead(p)
    \/ SeedNew(p)
    \/ SeedConflict(p)
    \/ SeedRetry(p)
    \/ SeedDeduped(p)
    \/ LookExisting(p)
    \/ SkipExisting(p)
    \/ \E stored \in BOOLEAN, to \in {"extract", "summary"} : MarkFetched(p, stored, to)
    \/ FallbackFetched(p)
    \/ MarkFailed(p)
    \/ SuppressJunk(p)
    \/ \E v \in Texts : MarkExtracted(p, v)
    \/ MarkEnriched(p)
    \/ ReplaceInsights(p)

EmbedStep(p) ==
    \/ ReplaceChunks(p)
    \/ \E q \in Procs : OverlapChunks(p, q)
    \/ InsertVectors(p)
    \/ VectorsRejected(p)
    \/ MarkEmbedded(p)

ScriptStep(p) ==
    \/ ListReembed(p)
    \/ \E d \in Docs : NextRow(p, d)
    \/ ScriptEnds(p)

Step(p) ==
    \/ Start(p)
    \/ p \in Ingesters /\ IngestStep(p)
    \/ p \in Reembedders /\ ScriptStep(p)
    \/ EmbedStep(p)

Environment ==
    \/ \E p \in Procs : EmbedRaises(p) \/ StepRaises(p) \/ Crash(p)
    \/ \E d \in Docs : Suppress(d) \/ Unsuppress(d)
    \/ \E ds \in SUBSET Docs : Redact(ds)
    \/ \E m \in Models : ChangeModel(m)

Next == (\E p \in Procs : Step(p)) \/ Environment

Spec == Init /\ [][Next]_vars

\* The worker is kept running, its sources keep listing their items, and the
\* re-embed budget does not always run out before the same document.
FairSpec ==
    /\ Spec
    /\ \A p \in Ingesters :
        /\ WF_vars(Step(p))
        /\ SF_vars(LookExisting(p))
        /\ \A d \in Docs : SF_vars(Discover(p, d))

-----------------------------------------------------------------------------
(* Properties *)

\* Whatever processes, operators and crashes do, and however their
\* transactions interleave, a document the readers take (status extracted,
\* enriched or embedded; db.py:1713, digest_generator.py:870) has text.
TextBehindStatus == \A d \in Docs : status[d] \in Readable => text[d] # NoText

\* What suppression deleted stays deleted: no later pass of a worker or script
\* gives a suppressed document chunks, vectors or insights, unless the
\* suppression fell between two transactions of a process that had it in hand.
SuppressionSticks ==
    \A d \in Docs \ raced :
        d \in suppressed => chunks[d] = {} /\ vectors[d] = {} /\ d \notin insights

\* A document that claims the active model has its vectors for it, cut from
\* its current text: otherwise nothing would ever embed it again
\* (worker.py:233, db.py:1987) while vector search cannot find it.
NoOrphan ==
    \A d \in Docs \ raced :
        status[d] \in {"embedded", "extracted"} /\ model[d] = config
            /\ (\A p \in Procs : d \notin InHand(p))
        => chunks[d] = {text[d]} /\ config \in vectors[d]

\* The statements that make the three inductive.

\* A process between two transactions has a document in hand, and no row left
\* of its listing for it.
Between == PCs \ {"off", "idle", "list", "next"}

HandsFull ==
    \A p \in Procs :
        /\ pc[p] \in Between <=> doc[p] # NoDoc
        /\ \A d \in Docs :
            snap[p][d] # NoText => p \notin Ingesters /\ pc[p] # "off" /\ doc[p] # d

\* What a process goes on to write as a readable status has text.
TextInHand ==
    \A p \in Procs, d \in Docs :
        /\ snap[p][d] # NoText => text[d] # NoText
        /\ doc[p] = d /\ pc[p] \in {"enrich", "insights", "chunks", "vectors", "mark"}
           => text[d] # NoText /\ held[p] # NoText

\* Each process only takes the steps of its kind.
Kinds ==
    \A p \in Procs :
        /\ p \in Ingesters => pc[p] \notin {"list", "next"}
        /\ p \in Reembedders => pc[p] \in {"off", "list", "next", "chunks", "vectors", "mark"}
        /\ p \in again => p \in Ingesters /\ pc[p] \in {"chunks", "vectors", "mark"}

\* A document that is not raced is in at most one hand.
OneHolder ==
    \A d \in Docs \ raced : \A p, q \in Procs :
        d \in InHand(p) /\ d \in InHand(q) => p = q

\* A process that has an unraced suppressed document in hand finds out.
SuppressedInHand ==
    \A d \in Docs \ raced : d \in suppressed =>
        /\ status[d] = "suppressed"
        /\ \A p \in Procs :
            /\ snap[p][d] = NoText
            /\ doc[p] = d => pc[p] \in {"seed", "seedwrite", "existing"}

\* Nothing happens to an unraced document between SELECT and its use.
FreshRead ==
    \A p \in Procs : pc[p] = "seedwrite" /\ doc[p] \notin raced => cur[p] = status[doc[p]]

\* Which text a process holds.
FreshText ==
    \A p \in Procs, d \in Docs \ raced :
        /\ snap[p][d] # NoText => snap[p][d] = text[d]
        /\ doc[p] = d /\ pc[p] \in {"enrich", "insights", "chunks", "vectors", "mark"}
           => held[p] = text[d]

\* A document that has a model was completely ingested.
ModelMeansReadable ==
    \A d \in Docs \ raced : model[d] # NoModel => status[d] \in Readable

\* An unraced document is new in the pipeline of a worker.
NewInPipeline ==
    \A d \in Docs \ raced, p \in Ingesters :
        doc[p] = d /\ pc[p] \notin {"seed", "seedwrite", "existing"} /\ p \notin again
            => model[d] = NoModel

\* With orderly changes of the model, a running process has the active one,
\* and works on chunks of unraced documents only while they lack it.
ModelsOrdered ==
    Orderly =>
        /\ \A d \in Docs : model[d] <= config
        /\ \A p \in Procs : pc[p] # "off" => mdl[p] = config

LacksModel ==
    Orderly => \A d \in Docs \ raced, p \in Procs :
        /\ p \in Reembedders /\ snap[p][d] # NoText => model[d] # config
        /\ doc[p] = d /\ pc[p] \in {"chunks", "vectors", "mark"}
           => model[d] # config
        /\ doc[p] = d /\ pc[p] = "mark" => chunks[d] = {text[d]} /\ config \in vectors[d]
        /\ doc[p] = d /\ pc[p] = "vectors" => chunks[d] = {text[d]}

\* Whoever claims the active model has its vectors.
ModelMeansVectors ==
    Orderly => \A d \in Docs \ raced :
        model[d] = config => chunks[d] = {text[d]} /\ config \in vectors[d]

TextInv == TypeOK /\ HandsFull /\ TextInHand /\ TextBehindStatus

SuppressInv == Kinds /\ OneHolder /\ SuppressedInHand /\ FreshRead /\ SuppressionSticks

VectorInv ==
    FreshText /\ ModelMeansReadable /\ NewInPipeline /\ ModelsOrdered /\ LacksModel
        /\ ModelMeansVectors

DocInv == TextInv /\ SuppressInv /\ VectorInv

\* Once embedded, a document stays in the readable statuses whatever its
\* source lists, scripts do or fails, until an operator suppresses it.
KeepsReadable ==
    \A d \in Docs \ raced' :
        status[d] \in Readable /\ model[d] # NoModel
            => status'[d] \in Readable \/ d \in suppressed'

StaysReadable == [][KeepsReadable]_vars

\* Vector search finds d under the deployed model.
Found(d) ==
    /\ status[d] \in {"embedded", "extracted"}
    /\ model[d] = config
    /\ config \in vectors[d]

\* A worker left d with its text, before it was enriched, or it was unsuppressed.
LeftExtracted(d) ==
    status[d] = "extracted" /\ \A p \in Procs : d \notin InHand(p)

\* A document that has been embedded, and one left in status extracted, comes to
\* be found under the deployed model: after a change of it, after a death between
\* the transaction that deletes the old vectors and the one that writes the new
\* ones, after a failed attempt; unless the document is suppressed, or an
\* operator's call fell between two transactions of the worker.  A document left
\* in status fetched or enriched, which LookExisting never takes, is not promised
\* this before it has a model, nor one whose text no attempt can embed.
CatchesUp ==
    \A d \in Docs :
        (model[d] # NoModel \/ LeftExtracted(d))
            ~> (Found(d) \/ d \in suppressed \/ d \in raced)

\* A document left in status fetched is taken up again
\* (docs/phases.md:101: "reset document state to `fetched` and re-run").
FetchedResumed == \A d \in Docs : status[d] = "fetched" ~> status[d] # "fetched"

=============================================================================
