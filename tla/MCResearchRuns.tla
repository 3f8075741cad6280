--------------------------- MODULE MCResearchRuns ---------------------------
(* Instances of ResearchRuns for TLC: one topic that owns every source, s2 the *)
(* younger of two.                                                             *)
EXTENDS ResearchRuns

CONSTANTS w1, w2, c1, c2, s1, s2, t1, k1

MCTopics == {t1}
MCTopicOf == [s \in Sources |-> t1]
MCCreatedAt == [s \in Sources |-> IF s = s2 THEN 2 ELSE 1]

-----------------------------------------------------------------------------
(* Liveness with sources that fail run after run needs more rows than any bound. *)
(* A finished row without an idempotency key that no worker holds is read by no  *)
(* transaction again, so once the table is full of such rows it starts over.     *)

Spent ==
    /\ ~Room
    /\ \A r \in RunIds : status[r] \in Finished \cup {"absent"}
    /\ \A r \in RunIds : request[r].key = NoKey
    /\ \A w \in Workers : job[w] = NoRun /\ pc[w] \notin {"enqueue", "create"}

StartOver ==
    /\ Spent
    /\ status' = [r \in RunIds |-> "absent"]
    /\ request' = [r \in RunIds |-> NoRequest(request[r].topic)]
    /\ idle' = [r \in RunIds |-> FALSE]
    /\ newItems' = [r \in RunIds |-> 0]
    /\ errors' = [r \in RunIds |-> {}]
    /\ claims' = [r \in RunIds |-> 0]
    /\ UNCHANGED <<sourceVars, workerVars, clientVars, events, streak>>

MCNext == Next \/ StartOver

EndlessSpec == Init /\ [][MCNext]_vars /\ Fairness /\ WF_vars(StartOver)
=============================================================================
