--------------------------- MODULE EvidenceSearch ---------------------------
(***************************************************************************)
(* The other readers of the research corpus (app/main.py): the chunks of    *)
(* one document, and insights, the evidence, searched for, with what is     *)
(* related to it, or compared.  Each reads in two to four transactions,     *)
(* beside the queries and the changes of the corpus ContextPack describes.  *)
(*                                                                          *)
(* An insight is the chunk it cites.  A request's filters, limits and the   *)
(* presence of insights decide which ones are read, so that any may be.     *)
(***************************************************************************)
EXTENDS ContextPack

CONSTANTS Searches      \* requests to these endpoints

VARIABLES
    asks,       \* search -> its endpoint
    stage,      \* search -> its next transaction
    matched,    \* search -> documents whose chunks were asked for or matched
    evidence,   \* search -> chunks, or insights, read
    related,    \* search -> those the evidence is related to
    noted,      \* search -> its row of research_query_logs
    seen        \* history: search -> documents not suppressed at some time since it began

evidenceVars == <<asks, stage, matched, evidence, related, noted, seen>>

Endpoints == {"search", "related", "compare"}

Reading == {"chunks", "match", "insights", "relations", "lookup", "note", "reply"}

EvidenceTypeOK ==
    /\ asks \in [Searches -> Endpoints \cup {"chunks", "nothing"}]
    /\ stage \in [Searches -> Reading \cup {"off", "answered", "failed"}]
    /\ matched \in [Searches -> SUBSET Docs]
    /\ evidence \in [Searches -> SUBSET Chunks]
    /\ related \in [Searches -> SUBSET Chunks]
    /\ noted \in [Searches -> LogRows \cup {NoLog}]
    /\ seen \in [Searches -> SUBSET Docs]

EvidenceInit ==
    /\ Init
    /\ asks = [s \in Searches |-> "nothing"]
    /\ stage = [s \in Searches |-> "off"]
    /\ matched = [s \in Searches |-> {}]
    /\ evidence = [s \in Searches |-> {}]
    /\ related = [s \in Searches |-> {}]
    /\ noted = [s \in Searches |-> NoLog]
    /\ seen = [s \in Searches |-> {}]

Proceed(s, from, to) ==
    /\ stage[s] = from
    /\ stage' = [stage EXCEPT ![s] = to]

\* Mutant: insights of suppressed documents are listed.
AllInsights == Chunks

\* The insights that may be listed: a worker that had a suppressed document in
\* hand may have written some of it again.
Insights == {c \in Chunks : DocOf[c] \notin hidden}

DocsOf(cs) == {DocOf[c] : c \in cs}

-----------------------------------------------------------------------------
(* The chunks of one document *)

\* The document is there, suppressed or not.
AskChunks(s, d) ==
    /\ Proceed(s, "off", "chunks")
    /\ asks' = [asks EXCEPT ![s] = "chunks"]
    /\ matched' = [matched EXCEPT ![s] = {d}]
    /\ seen' = [seen EXCEPT ![s] = Docs \ hidden]
    /\ UNCHANGED <<evidence, related, noted>>

\* Chunks that match or, if none does, the first ones, whatever the document's
\* status; none if it is suppressed by now, or the query is blank.
ReadChunks(s, cs) ==
    /\ Proceed(s, "chunks", "reply")
    /\ DocsOf(cs) \subseteq matched[s] \ hidden
    /\ evidence' = [evidence EXCEPT ![s] = cs]
    /\ UNCHANGED <<asks, matched, related, noted, seen>>

-----------------------------------------------------------------------------
(* Evidence *)

AskEvidence(s, k) ==
    /\ Proceed(s, "off", "match")
    /\ asks' = [asks EXCEPT ![s] = k]
    /\ seen' = [seen EXCEPT ![s] = Docs \ hidden]
    /\ UNCHANGED <<matched, evidence, related, noted>>

\* The documents with chunks that match the query.
MatchChunks(s, cs) ==
    /\ Proceed(s, "match", "insights")
    /\ cs \subseteq Visible
    /\ matched' = [matched EXCEPT ![s] = DocsOf(cs)]
    /\ UNCHANGED <<asks, evidence, related, noted, seen>>

\* Their insights; if nothing matched, those of any document of the topic.
ListInsights(s, cs) ==
    /\ cs \subseteq Insights
    /\ matched[s] # {} => DocsOf(cs) \subseteq matched[s]
    /\ evidence' = [evidence EXCEPT ![s] = cs]
    /\ UNCHANGED <<asks, matched, related, noted, seen>>

SearchEvidence(s, cs) ==
    /\ asks[s] = "search"
    /\ Proceed(s, "insights", "note")
    /\ ListInsights(s, cs)

SeedEvidence(s, cs) ==
    /\ asks[s] = "related"
    /\ Proceed(s, "insights", "relations")
    /\ ListInsights(s, cs)

CompareEvidence(s, cs) ==
    /\ asks[s] = "compare"
    /\ Proceed(s, "insights", "reply")
    /\ ListInsights(s, cs)

\* The relations of the seeds, which join insights of one chunk.
ReadRelations(s, cs) ==
    /\ Proceed(s, "relations", "lookup")
    /\ cs \subseteq evidence[s]
    /\ related' = [related EXCEPT ![s] = cs]
    /\ UNCHANGED <<asks, matched, evidence, noted, seen>>

\* The insights at their other ends, those that can still be listed.
LookUpRelated(s, cs) ==
    /\ Proceed(s, "lookup", "reply")
    /\ cs \subseteq related[s] \cap Insights
    /\ related' = [related EXCEPT ![s] = cs]
    /\ UNCHANGED <<asks, matched, evidence, noted, seen>>

\* Only the search for evidence is logged.
LogEvidence(s) ==
    /\ Proceed(s, "note", "reply")
    /\ noted' = [noted EXCEPT ![s] = [status |-> "ok", count |-> Cardinality(evidence[s]),
                                      docs |-> DocsOf(evidence[s]), chunks |-> evidence[s]]]
    /\ UNCHANGED <<asks, matched, evidence, related, seen>>

SendEvidence(s) ==
    /\ Proceed(s, "reply", "answered")
    /\ UNCHANGED <<asks, matched, evidence, related, noted, seen>>

\* A transaction raises, or the server stops; no failure of these is logged.
EvidenceFails(s) ==
    /\ stage[s] \in Reading
    /\ stage' = [stage EXCEPT ![s] = "failed"]
    /\ UNCHANGED <<asks, matched, evidence, related, noted, seen>>

-----------------------------------------------------------------------------
(* Specification *)

EvidenceStep(s) ==
    \/ \E d \in Docs : AskChunks(s, d)
    \/ \E k \in Endpoints : AskEvidence(s, k)
    \/ \E cs \in SUBSET Chunks :
        \/ ReadChunks(s, cs)
        \/ MatchChunks(s, cs)
        \/ SearchEvidence(s, cs)
        \/ SeedEvidence(s, cs)
        \/ CompareEvidence(s, cs)
        \/ ReadRelations(s, cs)
        \/ LookUpRelated(s, cs)
    \/ LogEvidence(s)
    \/ SendEvidence(s)
    \/ EvidenceFails(s)

\* A search under way sees what is not suppressed, meanwhile, too.
Meanwhile ==
    /\ seen' = [s \in Searches |-> IF stage[s] \in Reading THEN seen[s] \cup (Docs \ hidden')
                                   ELSE seen[s]]
    /\ UNCHANGED <<asks, stage, matched, evidence, related, noted>>

EvidenceNext ==
    \/ (\E s \in Searches : EvidenceStep(s)) /\ UNCHANGED vars
    \/ Next /\ Meanwhile

EvidenceSpec == EvidenceInit /\ [][EvidenceNext]_<<vars, evidenceVars>>

-----------------------------------------------------------------------------
(* Properties *)

\* Nobody is given, and no log row names, anything of a document that was
\* suppressed all the time the request ran: not by a pack, nor by the reads of
\* one to four transactions that serve chunks and evidence, where each filters
\* on its own (db.py:1714, 1856, 1877, 2272; current_state.md:41).
HiddenExcluded ==
    /\ SuppressedExcluded
    /\ \A s \in Searches :
        /\ stage[s] = "answered" => DocsOf(evidence[s] \cup related[s]) \subseteq seen[s]
        /\ noted[s] # NoLog => noted[s].docs \subseteq seen[s]

\* What makes it inductive.
EvidenceInv ==
    /\ EvidenceTypeOK
    /\ \A s \in Searches :
        /\ stage[s] \in Reading => Docs \ hidden \subseteq seen[s]
        /\ DocsOf(evidence[s]) \subseteq seen[s]
        /\ related[s] \subseteq evidence[s]
        /\ noted[s] # NoLog => noted[s].docs = DocsOf(evidence[s])
        /\ stage[s] \in {"off", "chunks", "match", "insights", "relations", "lookup", "note"} =>
             noted[s] = NoLog
        /\ stage[s] \in {"off", "chunks", "match", "insights"} => evidence[s] = {}
        /\ stage[s] \in {"off", "chunks", "match", "insights", "relations", "note"} => related[s] = {}

=============================================================================
