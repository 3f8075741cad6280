----------------------------- MODULE ContextPack -----------------------------
(***************************************************************************)
(* Retrieval: POST /v2/research/context/pack, which the decision pack also  *)
(* calls.  A query searches chunk rows, reads their vectors, ranks, stores  *)
(* the scores of the best ranks, writes its log row and answers, each       *)
(* access to the database in a transaction of its own, while workers and    *)
(* moderators change the corpus.  Scores are any numbers: lexical rank,     *)
(* cosine, recency and weights only decide which.                           *)
(***************************************************************************)
EXTENDS Naturals, FiniteSets, Sequences

CONSTANTS
    Queries,       \* trace ids, one for each call
    Docs, Chunks,  \* document ids, chunk ids
    DocOf,         \* chunk -> its document
    MaxItems,      \* bound on a request's max_items
    MaxScore,      \* score levels are 0 .. MaxScore
    Low, High,     \* score levels at which the confidence changes
    MaxKey,        \* levels of what else a request may sort by
    SearchFactor,  \* chunks searched for each item asked for
    StoreFactor,   \* scores stored for each item asked for
    CitesPerItem,
    NoLog, NoAnswer,
    MaxEvents      \* bound: failures, crashes, changes of the corpus

ASSUME PackAssumption ==
    /\ DocOf \in [Chunks -> Docs]
    /\ IsFiniteSet(Chunks)
    /\ MaxItems \in Nat /\ MaxScore \in Nat /\ MaxKey \in Nat
    /\ Low \in Nat /\ High \in Nat /\ Low <= High
    /\ SearchFactor \in Nat /\ StoreFactor \in Nat \ {0} /\ CitesPerItem \in Nat
    /\ MaxEvents \in Nat

VARIABLES
    rows,    \* chunk rows of documents with a readable status
    hidden,  \* documents whose suppressed column is true
    pc,      \* query -> its next transaction
    limit,   \* query -> max_items
    least,   \* query -> min_relevance_score
    found,   \* query -> chunks the search returned
    key,     \* query -> document -> what sort_mode puts before the score
    total,   \* query -> chunk -> total score
    ranked,  \* query -> chunks in ranked order
    stored,  \* query -> its rows of research_relevance_scores
    log,     \* query -> its row of research_query_logs
    answer,  \* query -> what the client received
    shown,   \* history: query -> documents not suppressed at some time since it began
    events   \* environment events so far (bounded by MaxEvents)

corpus  == <<rows, hidden>>
request == <<limit, least>>
ranking == <<found, key, total, ranked>>
audit   == <<stored, log>>
vars == <<corpus, pc, request, ranking, audit, answer, shown, events>>

Running == {"search", "vectors", "store", "log", "reply", "errlog"}

Confidences == {"low", "med", "high"}

LogRows == [status : {"ok", "error"}, count : Nat, docs : SUBSET Docs, chunks : SUBSET Chunks]

Answers == [docs : SUBSET Docs, chunks : SUBSET Chunks, confidence : Confidences]

ASSUME NullAssumption == NoLog \notin LogRows /\ NoAnswer \notin Answers

TypeOK ==
    /\ rows \in SUBSET Chunks
    /\ hidden \in SUBSET Docs
    /\ pc \in [Queries -> Running \cup {"off", "answered", "failed", "gone"}]
    /\ limit \in [Queries -> Nat]
    /\ least \in [Queries -> Nat]
    /\ found \in [Queries -> SUBSET Chunks]
    /\ key \in [Queries -> [Docs -> Nat]]
    /\ total \in [Queries -> [Chunks -> Nat]]
    /\ ranked \in [Queries -> Seq(Chunks)]
    /\ stored \in [Queries -> SUBSET Chunks]
    /\ log \in [Queries -> LogRows \cup {NoLog}]
    /\ answer \in [Queries -> Answers \cup {NoAnswer}]
    /\ shown \in [Queries -> SUBSET Docs]
    /\ events \in Nat

Init ==
    /\ rows = Chunks
    /\ hidden = {}
    /\ pc = [q \in Queries |-> "off"]
    /\ limit = [q \in Queries |-> 0]
    /\ least = [q \in Queries |-> 0]
    /\ found = [q \in Queries |-> {}]
    /\ key = [q \in Queries |-> [d \in Docs |-> 0]]
    /\ total = [q \in Queries |-> [c \in Chunks |-> 0]]
    /\ ranked = [q \in Queries |-> <<>>]
    /\ stored = [q \in Queries |-> {}]
    /\ log = [q \in Queries |-> NoLog]
    /\ answer = [q \in Queries |-> NoAnswer]
    /\ shown = [q \in Queries |-> {}]
    /\ events = 0

-----------------------------------------------------------------------------
(* Ranking and packing *)

\* Mutant: no second sort key.
SortedByMode(r, k, t) ==
    \A i, j \in DOMAIN r : i < j => k[DocOf[r[i]]] >= k[DocOf[r[j]]]

\* Date, signal or number of tags first, unless the mode is relevance; then
\* the total score, descending.
Sorted(r, k, t) ==
    \A i, j \in DOMAIN r : i < j =>
        \/ k[DocOf[r[i]]] > k[DocOf[r[j]]]
        \/ k[DocOf[r[i]]] = k[DocOf[r[j]]] /\ t[r[i]] >= t[r[j]]

\* The ways to put chunks cs in a sequence.
Orders(cs) ==
    {r \in [1 .. Cardinality(cs) -> cs] : \A i, j \in DOMAIN r : r[i] = r[j] => i = j}

DocAt(q, i) == DocOf[ranked[q][i]]

\* The first rank of each document: its row in hand when the pack is built.
Firsts(q) == {i \in DOMAIN ranked[q] : \A j \in 1 .. i - 1 : DocAt(q, j) # DocAt(q, i)}

Relevant(q) == {i \in Firsts(q) : total[q][ranked[q][i]] >= least[q]}

\* The ranks the items of the pack are made from: the loop stops at max_items.
Items(q) == {i \in Relevant(q) : Cardinality({j \in Relevant(q) : j < i}) < limit[q]}

\* The ranks an item cites: the first few of its document.
Cites(q, i) ==
    {j \in DOMAIN ranked[q] :
        /\ DocAt(q, j) = DocAt(q, i)
        /\ Cardinality({k \in 1 .. j - 1 : DocAt(q, k) = DocAt(q, i)}) < CitesPerItem}

ReturnedDocs(q) == {DocAt(q, i) : i \in Items(q)}

ReturnedChunks(q) == UNION {{ranked[q][j] : j \in Cites(q, i)} : i \in Items(q)}

\* Mutant: the signals of all items count.
AllSignals(q) == Cardinality(ReturnedChunks(q))

\* The signals of the first item.
CitedSignals(q) ==
    Cardinality(UNION {Cites(q, i) : i \in {k \in Items(q) : \A j \in Items(q) : k <= j}})

\* _determine_confidence, of the score at the first rank.
Confidence(q) ==
    LET top == IF ranked[q] = <<>> THEN 0 ELSE total[q][ranked[q][1]]
    IN  IF top < Low THEN "low"
        ELSE IF top >= High /\ CitedSignals(q) >= 2 THEN "high" ELSE "med"

\* The ranks whose scores are stored.
Window(q) == {ranked[q][i] : i \in DOMAIN ranked[q] \cap 1 .. StoreFactor * limit[q]}

-----------------------------------------------------------------------------
(* A query *)

Goto(q, from, to) ==
    /\ pc[q] = from
    /\ pc' = [pc EXCEPT ![q] = to]

Event == events < MaxEvents /\ events' = events + 1

Start(q, n, m) ==
    /\ Goto(q, "off", "search")
    /\ limit' = [limit EXCEPT ![q] = n]
    /\ least' = [least EXCEPT ![q] = m]
    /\ shown' = [shown EXCEPT ![q] = Docs \ hidden]
    /\ UNCHANGED <<corpus, ranking, audit, answer, events>>

\* Mutant: the search takes every chunk row.
AllRows == rows

\* What search_research_chunks may return.
Visible == {c \in rows : DocOf[c] \notin hidden}

\* Those that match the query and its filters, up to the limit; a blank query
\* matches nothing.
Search(q, cs) ==
    /\ Goto(q, "search", "vectors")
    /\ cs \subseteq Visible
    /\ Cardinality(cs) <= SearchFactor * limit[q]
    /\ found' = [found EXCEPT ![q] = cs]
    /\ UNCHANGED <<corpus, request, key, total, ranked, audit, answer, shown, events>>

\* The query is embedded, or has no vector when that raises, and the vectors
\* of the documents found are read.  must_have and tags leave chunks cs.
Rank(q, cs, k, t, r) ==
    /\ Goto(q, "vectors", "store")
    /\ cs \subseteq found[q]
    /\ r \in Orders(cs)
    /\ Sorted(r, k, t)
    /\ key' = [key EXCEPT ![q] = k]
    /\ total' = [total EXCEPT ![q] = t]
    /\ ranked' = [ranked EXCEPT ![q] = r]
    /\ UNCHANGED <<corpus, request, found, audit, answer, shown, events>>

\* insert_research_relevance_scores; without a row nothing is inserted.
StoreScores(q) ==
    /\ Goto(q, "store", "log")
    /\ stored' = [stored EXCEPT ![q] = Window(q)]
    /\ UNCHANGED <<corpus, request, ranking, log, answer, shown, events>>

\* Mutant: the row names every ranked document.
LogRowOfRanked(q) ==
    [status |-> "ok", count |-> Cardinality(found[q]),
     docs |-> {DocAt(q, i) : i \in DOMAIN ranked[q]}, chunks |-> ReturnedChunks(q)]

LogRow(q) ==
    [status |-> "ok", count |-> Cardinality(found[q]),
     docs |-> ReturnedDocs(q), chunks |-> ReturnedChunks(q)]

WriteLog(q) ==
    /\ Goto(q, "log", "reply")
    /\ log' = [log EXCEPT ![q] = LogRow(q)]
    /\ UNCHANGED <<corpus, request, ranking, stored, answer, shown, events>>

Reply(q) ==
    /\ Goto(q, "reply", "answered")
    /\ answer' = [answer EXCEPT ![q] = [docs |-> ReturnedDocs(q), chunks |-> ReturnedChunks(q),
                                        confidence |-> Confidence(q)]]
    /\ UNCHANGED <<corpus, request, ranking, audit, shown, events>>

-----------------------------------------------------------------------------
(* Failures *)

\* Mutant: the log row is written and the query goes on to fail.
RaiseAfterLog(q) ==
    /\ Event
    /\ pc[q] \in {"search", "vectors", "store", "log", "reply"}
    /\ pc' = [pc EXCEPT ![q] = "errlog"]
    /\ UNCHANGED <<corpus, request, ranking, audit, answer, shown>>

\* One of the transactions raises.
Raise(q) ==
    /\ Event
    /\ pc[q] \in {"search", "vectors", "store", "log"}
    /\ pc' = [pc EXCEPT ![q] = "errlog"]
    /\ UNCHANGED <<corpus, request, ranking, audit, answer, shown>>

\* The failure is logged, under an index that is unique in the trace, and the
\* client gets a 500.
LogError(q) ==
    /\ Goto(q, "errlog", "failed")
    /\ log[q] = NoLog
    /\ log' = [log EXCEPT ![q] = [status |-> "error", count |-> 0, docs |-> {}, chunks |-> {}]]
    /\ UNCHANGED <<corpus, request, ranking, stored, answer, shown, events>>

\* The index or the database refuses that row as well; still a 500.
LogErrorRaises(q) ==
    /\ Goto(q, "errlog", "failed")
    /\ \/ log[q] # NoLog /\ UNCHANGED events
       \/ Event
    /\ UNCHANGED <<corpus, request, ranking, audit, answer, shown>>

\* The server stops.
Crash(q) ==
    /\ Event
    /\ pc[q] \in Running
    /\ pc' = [pc EXCEPT ![q] = "gone"]
    /\ UNCHANGED <<corpus, request, ranking, audit, answer, shown>>

-----------------------------------------------------------------------------
(* The corpus meanwhile: what ResearchDocuments allows at most *)

RowsOf(d) == {c \in Chunks : DocOf[c] = d}

\* A document's chunk rows are replaced, or it gets a readable status; a worker
\* that had it in hand does so although it was suppressed.
Rewrite(d, cs) ==
    /\ Event
    /\ cs \subseteq RowsOf(d)
    /\ rows' = (rows \ RowsOf(d)) \cup cs
    /\ UNCHANGED <<hidden, pc, request, ranking, audit, answer, shown>>

Suppress(d) ==
    /\ Event
    /\ hidden' = hidden \cup {d}
    /\ rows' = rows \ RowsOf(d)
    /\ UNCHANGED <<pc, request, ranking, audit, answer, shown>>

Unsuppress(d) ==
    /\ Event
    /\ hidden' = hidden \ {d}
    /\ shown' = [q \in Queries |-> IF pc[q] \in Running THEN shown[q] \cup {d} ELSE shown[q]]
    /\ UNCHANGED <<rows, pc, request, ranking, audit, answer>>

-----------------------------------------------------------------------------
(* Specification *)

\* Only the chunks that are ranked have a score.
Scores(cs) == {[c \in Chunks |-> IF c \in cs THEN t[c] ELSE 0] : t \in [cs -> 0 .. MaxScore]}

QueryStep(q) ==
    \/ \E n \in 1 .. MaxItems, m \in 0 .. MaxScore : Start(q, n, m)
    \/ \E cs \in SUBSET Visible : Search(q, cs)
    \/ \E cs \in SUBSET found[q] : \E r \in Orders(cs), t \in Scores(cs) :
        \E k \in [Docs -> 0 .. MaxKey] : Rank(q, cs, k, t, r)
    \/ StoreScores(q)
    \/ WriteLog(q)
    \/ Reply(q)
    \/ Raise(q)
    \/ LogError(q)
    \/ LogErrorRaises(q)
    \/ Crash(q)

CorpusStep(d) ==
    \/ \E cs \in SUBSET RowsOf(d) : Rewrite(d, cs)
    \/ Suppress(d)
    \/ Unsuppress(d)

Next == (\E q \in Queries : QueryStep(q)) \/ (\E d \in Docs : CorpusStep(d))

Spec == Init /\ [][Next]_vars

-----------------------------------------------------------------------------
(* Properties *)

\* A query that was answered has one log row, with status ok, that names the
\* documents and chunks the client received, and the score its confidence came
\* from is stored, whatever failed or crashed (v2_research_retrieval.md, Logging
\* expectations; main.py:2206-2257).
Audited ==
    \A q \in Queries : answer[q] # NoAnswer =>
        /\ log[q] # NoLog
        /\ log[q].status = "ok"
        /\ log[q].docs = answer[q].docs
        /\ log[q].chunks = answer[q].chunks
        /\ log[q].count >= Cardinality(answer[q].chunks)
        /\ ranked[q] # <<>> => ranked[q][1] \in stored[q]

\* The error counters and the clients agree: no query whose row says ok got a
\* 500, and none whose row says error got an answer (main.py:2258-2278).
VerdictMatches ==
    \A q \in Queries : log[q] # NoLog =>
        /\ log[q].status = "ok" => pc[q] \in {"reply", "answered", "gone"}
        /\ log[q].status = "error" => pc[q] = "failed" /\ answer[q] = NoAnswer

\* A suppressed document is not cited to anyone, except to a query during which
\* it was not suppressed for some time (db.py:1714; current_state.md:41).
SuppressedExcluded ==
    \A q \in Queries : answer[q] # NoAnswer => answer[q].docs \subseteq shown[q]

Kept(q) == {ranked[q][i] : i \in DOMAIN ranked[q]}

\* The pack by its scores alone.  Whatever the request sorts by, an item has the
\* best score any kept chunk of its document has, no document below the minimum
\* is in, and one above it is left out only when the pack is full of documents
\* that do not come after it (main.py:2101-2204).
PackExact ==
    \A q \in Queries :
        LET best(d) == {total[q][c] : c \in {b \in Kept(q) : DocOf[b] = d}}
            good == {d \in Docs : \E s \in best(d) : s >= least[q]}
            in(d) == d \in ReturnedDocs(q)
            ahead(d, e) == \/ key[q][d] > key[q][e]
                           \/ /\ key[q][d] = key[q][e]
                              /\ \E s \in best(d) : \A u \in best(e) : s > u
        IN  /\ \A i \in Items(q) : \A s \in best(DocAt(q, i)) : s <= total[q][ranked[q][i]]
            /\ Cardinality(ReturnedDocs(q)) = Cardinality(Items(q))
            /\ ReturnedDocs(q) \subseteq good
            /\ \A d \in good : in(d) \/ /\ Cardinality(Items(q)) = limit[q]
                                        /\ \A e \in Docs : in(e) => ~ahead(d, e)

\* High confidence is earned by the first item returned: it has a high score and
\* two citations, although the score is read at the first rank and the citations
\* at the first item, which may be of another document (main.py:2119, 2225-2226).
ConfidenceEarned ==
    \A q \in Queries :
        answer[q] # NoAnswer /\ answer[q].confidence = "high" =>
            \E i \in Items(q) :
                /\ \A j \in Items(q) : i <= j
                /\ total[q][ranked[q][i]] >= High
                /\ Cardinality(Cites(q, i)) >= 2

\* What makes these inductive: what a query has found, ranked and written by now.
Stages ==
    \A q \in Queries :
        /\ pc[q] # "off" => limit[q] > 0
        /\ pc[q] \in Running => Docs \ hidden \subseteq shown[q]
        /\ pc[q] \in {"off", "search"} => found[q] = {}
        /\ {DocOf[c] : c \in found[q]} \subseteq shown[q]
        /\ Kept(q) \subseteq found[q]
        /\ pc[q] \in {"off", "search", "vectors"} => ranked[q] = <<>>
        /\ pc[q] \in {"log", "reply", "answered"} => stored[q] = Window(q)
        /\ pc[q] \in {"reply", "answered"} => log[q] = LogRow(q)
        /\ pc[q] \in {"off", "search", "vectors", "store", "log", "errlog"} => log[q] = NoLog
        /\ answer[q] # NoAnswer <=> pc[q] = "answered"
        /\ answer[q] # NoAnswer => /\ answer[q].docs = ReturnedDocs(q)
                                   /\ answer[q].chunks = ReturnedChunks(q)
                                   /\ answer[q].confidence = Confidence(q)

PackInv == TypeOK /\ Stages /\ VerdictMatches

=============================================================================
