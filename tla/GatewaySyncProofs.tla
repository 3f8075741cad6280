-------------------------- MODULE GatewaySyncProofs --------------------------
(***************************************************************************)
(* Proofs about GatewaySync: SyncInv is an inductive invariant, hence the  *)
(* links hold, for any number of overlapping runs of the script, views,    *)
(* projects and tasks, and for every limit.                                *)
(***************************************************************************)
EXTENDS GatewaySync, TLAPS

USE SyncAssumption, RowAssumption

(* --------------------------- Helpers' lemmas --------------------------- *)

\* An upsert keeps every row that is there, and every value in it comes from
\* the table or the batch.
LEMMA UpsertKeeps ==
    ASSUME NEW D, NEW V, NEW table \in [D -> V \union {Absent}],
           NEW batch \in [D -> V \union {Absent}]
    PROVE  /\ Upserted(table, batch) \in [D -> V \union {Absent}]
           /\ \A k \in D : table[k] # Absent => Upserted(table, batch)[k] # Absent
           /\ \A k \in D : batch[k] # Absent => Upserted(table, batch)[k] = batch[k]
           /\ \A k \in D : batch[k] = Absent => Upserted(table, batch)[k] = table[k]
  BY DEF Upserted

\* An index maps a name to a row of that name or to nothing.
LEMMA IndexSound ==
    ASSUME NEW names \in [Projects -> Names \union {Absent}],
           NEW idx \in [Names -> Projects \union {NoProject}],
           IndexOf(names, idx), NEW n \in Names, idx[n] # NoProject
    PROVE  idx[n] \in Projects /\ names[idx[n]] = n
  BY DEF IndexOf, Candidates

\* Normalising a sample gives rows, or none, for every task.
LEMMA NormalizedTasksType ==
    ASSUME NEW S, NEW idx \in [Names -> Projects \union {NoProject}],
           gwTask \in [Tasks -> GatewayTask \union {Blank, Absent}]
    PROVE  NormalizedTasks(S, idx) \in [Tasks -> StoredTask \union {Absent}]
  BY DEF NormalizedTasks, GatewayTask, StoredTask, Link

(* --------------------------- Type correctness -------------------------- *)

\* The initial state is well typed.
LEMMA InitType == Init => TypeOK
  BY DEF Init, TypeOK, NoItems, NoIndex, NoRows

\* Every step keeps the types.
LEMMA NextType == TypeOK /\ [Next]_vars => TypeOK'
<1> SUFFICES ASSUME TypeOK, [Next]_vars PROVE TypeOK'
  OBVIOUS
<1>1. ASSUME NEW s \in Syncs, FetchProjects(s) PROVE TypeOK'
  <2>1. PICK S \in Sample(gwProject) :
          items' = [items EXCEPT ![s] = NormalizedProjects(S)]
    BY <1>1 DEF FetchProjects
  <2>2. NormalizedProjects(S) \in [Projects -> Names \union {Absent}]
    BY DEF NormalizedProjects
  <2>3. items' \in [Syncs -> [Projects -> Names \union {Absent}]]
    BY <2>1, <2>2 DEF TypeOK
  <2>4. index' \in [Syncs -> [Names -> Projects \union {NoProject}]]
    BY <1>1 DEF FetchProjects, TypeOK
  <2> QED
    BY <1>1, <2>3, <2>4 DEF FetchProjects, TypeOK, gateway, tables, views
<1>2. ASSUME NEW s \in Syncs, PostProjects(s) PROVE TypeOK'
  <2>1. project' \in [Projects -> Names \union {Absent}]
    BY <1>2, UpsertKeeps DEF PostProjects, TypeOK
  <2>2. items' \in [Syncs -> [Projects -> Names \union {Absent}]]
    BY <1>2 DEF PostProjects, TypeOK, NoItems
  <2> QED
    BY <1>2, <2>1, <2>2 DEF PostProjects, TypeOK, gateway, views
<1>3. ASSUME NEW s \in Syncs, FetchTasks(s) PROVE TypeOK'
  <2>1. PICK S \in Sample(gwTask) :
          rows' = [rows EXCEPT ![s] = NormalizedTasks(S, index[s])]
    BY <1>3 DEF FetchTasks
  <2>2. NormalizedTasks(S, index[s]) \in [Tasks -> StoredTask \union {Absent}]
    BY NormalizedTasksType DEF TypeOK
  <2>3. rows' \in [Syncs -> [Tasks -> StoredTask \union {Absent}]]
    BY <2>1, <2>2 DEF TypeOK
  <2> QED
    BY <1>3, <2>3 DEF FetchTasks, TypeOK, gateway, tables, views
<1>4. ASSUME NEW s \in Syncs, PostTasks(s) PROVE TypeOK'
  <2>1. task' \in [Tasks -> StoredTask \union {Absent}]
    BY <1>4, UpsertKeeps DEF PostTasks, TypeOK
  <2> QED
    BY <1>4, <2>1 DEF PostTasks, TypeOK, gateway, views, NoItems, NoIndex, NoRows
<1>5. ASSUME NEW s \in Syncs, Fail(s) PROVE TypeOK'
  BY <1>5 DEF Fail, TypeOK, gateway, tables, views, NoItems, NoIndex, NoRows
<1>6. ASSUME NEW v \in Views, ReadProjects(v) PROVE TypeOK'
  <2>1. PICK S \in FirstOf({p \in Projects : project[p] # Absent}, PageLimit) :
          listed' = [listed EXCEPT ![v] = S]
    BY <1>6 DEF ReadProjects
  <2>2. S \subseteq Projects
    BY DEF FirstOf
  <2>3. listed' \in [Views -> SUBSET Projects]
    BY <2>1, <2>2 DEF TypeOK
  <2> QED
    BY <1>6, <2>3 DEF ReadProjects, TypeOK, gateway, tables, locals, NoRows
<1>7. ASSUME NEW v \in Views, ReadTasks(v) PROVE TypeOK'
  <2>1. read' \in [Views -> [Tasks -> StoredTask \union {Absent}]]
    BY <1>7 DEF ReadTasks, TypeOK
  <2>2. PICK P \in TopOf(listed[v], read'[v]) : top' = [top EXCEPT ![v] = P]
    BY <1>7 DEF ReadTasks
  <2>3. P \subseteq listed[v]
    BY DEF TopOf, FirstOf
  <2>4. top' \in [Views -> SUBSET Projects]
    BY <2>2, <2>3 DEF TypeOK
  <2> QED
    BY <1>7, <2>1, <2>4 DEF ReadTasks, TypeOK, gateway, tables, locals
<1>8. ASSUME NEW p \in Projects, EditProject(p) PROVE TypeOK'
  BY <1>8 DEF EditProject, TypeOK, tables, locals, views
<1>9. ASSUME NEW t \in Tasks, EditTask(t) PROVE TypeOK'
  BY <1>9 DEF EditTask, TypeOK, tables, locals, views
<1>10. CASE UNCHANGED vars
  BY <1>10 DEF vars, TypeOK, gateway, tables, locals, views
<1> QED
  BY <1>1, <1>2, <1>3, <1>4, <1>5, <1>6, <1>7, <1>8, <1>9, <1>10 DEF Next, Sync, View

(* ------------------------ The inductive invariant ---------------------- *)

\* No step takes a stored project away or makes Notion forget a name.
LEMMA OnlyGrows ==
    ASSUME TypeOK, [Next]_vars
    PROVE  /\ \A p \in Projects : project[p] # Absent => project'[p] # Absent
           /\ \A p \in Projects : called[p] \subseteq called'[p]
<1>1. ASSUME NEW s \in Syncs, PostProjects(s)
      PROVE \A p \in Projects : project[p] # Absent => project'[p] # Absent
  BY <1>1 DEF PostProjects, TypeOK, Upserted
<1>2. ASSUME NEW p \in Projects, EditProject(p)
      PROVE \A q \in Projects : called[q] \subseteq called'[q]
  BY <1>2 DEF EditProject, TypeOK
<1> QED
  BY <1>1, <1>2 DEF Next, Sync, FetchProjects, PostProjects, FetchTasks, PostTasks, Fail,
     View, ReadProjects, ReadTasks, EditProject, EditTask, vars, gateway, tables

\* Names Notion has are remembered: only EditProject changes one.
LEMMA GatewayCalledStep ==
    ASSUME TypeOK, GatewayCalled, [Next]_vars PROVE GatewayCalled'
<1>1. ASSUME NEW p \in Projects, EditProject(p) PROVE GatewayCalled'
  BY <1>1 DEF EditProject, TypeOK, GatewayCalled
<1> QED
  BY <1>1 DEF Next, Sync, FetchProjects, PostProjects, FetchTasks, PostTasks, Fail,
     View, ReadProjects, ReadTasks, EditTask, vars, gateway, GatewayCalled

\* What a run fetched, Notion had.
LEMMA ItemsCalledStep ==
    ASSUME TypeOK, GatewayCalled, ItemsCalled, [Next]_vars PROVE ItemsCalled'
<1>1. ASSUME NEW s \in Syncs, FetchProjects(s) PROVE ItemsCalled'
  <2>1. PICK S \in Sample(gwProject) :
          items' = [items EXCEPT ![s] = NormalizedProjects(S)]
    BY <1>1 DEF FetchProjects
  <2>2. \A p \in Projects : NormalizedProjects(S)[p] # Absent =>
          NormalizedProjects(S)[p] \in called[p]
    BY DEF NormalizedProjects, GatewayCalled
  <2> QED
    BY <1>1, <2>1, <2>2 DEF FetchProjects, TypeOK, ItemsCalled, gateway
<1>2. ASSUME NEW s \in Syncs, PostProjects(s) \/ PostTasks(s) \/ Fail(s) PROVE ItemsCalled'
  <2>1. items' = [items EXCEPT ![s] = NoItems] /\ UNCHANGED called
    BY <1>2 DEF PostProjects, PostTasks, Fail, gateway
  <2> QED
    BY <2>1 DEF TypeOK, ItemsCalled, NoItems
<1>3. CASE UNCHANGED items
  BY <1>3, OnlyGrows DEF ItemsCalled
<1> QED
  BY <1>1, <1>2, <1>3 DEF Next, Sync, FetchTasks, View, ReadProjects, ReadTasks, EditProject, EditTask,
     vars, locals

\* What a run may link to is in its batch or, once that is posted, in the
\* table, from which nobody deletes.
LEMMA IndexedPostedStep ==
    ASSUME TypeOK, GatewayCalled, ItemsCalled, ItemsCalled', IndexedPosted, [Next]_vars
    PROVE  IndexedPosted'
<1>1. ASSUME NEW s \in Syncs, FetchProjects(s) PROVE IndexedPosted'
  <2>1. SUFFICES ASSUME NEW r \in Syncs, NEW n \in Names, index'[r][n] # NoProject
                 PROVE  /\ n \in called'[index'[r][n]]
                        /\ IF pc'[r] = "projects" THEN items'[r][index'[r][n]] # Absent
                           ELSE project'[index'[r][n]] # Absent
    BY DEF IndexedPosted
  <2>2. CASE r = s
    <3>1. items'[s] \in [Projects -> Names \union {Absent}]
      BY NextType DEF TypeOK
    <3>2. PICK idx \in [Names -> Projects \union {NoProject}] :
            IndexOf(items'[s], idx) /\ index' = [index EXCEPT ![s] = idx]
      BY <1>1 DEF FetchProjects
    <3>3. index'[s] = idx
      BY <3>2 DEF TypeOK
    <3>4. index'[s][n] \in Projects /\ items'[s][index'[s][n]] = n
      BY <2>1, <2>2, <3>1, <3>2, <3>3, IndexSound
    <3>5. n \in called'[index'[s][n]]
      BY <3>4 DEF ItemsCalled
    <3>6. pc'[s] = "projects"
      BY <1>1 DEF FetchProjects, TypeOK
    <3> QED
      BY <2>2, <3>4, <3>5, <3>6
  <2>3. CASE r # s
    BY <1>1, <2>1, <2>3 DEF FetchProjects, IndexedPosted, TypeOK, gateway, tables
  <2> QED
    BY <2>2, <2>3
<1>2. ASSUME NEW s \in Syncs, PostProjects(s) PROVE IndexedPosted'
  <2>1. \A p \in Projects : items[s][p] # Absent => project'[p] # Absent
    BY <1>2 DEF PostProjects, TypeOK, Upserted
  <2> QED
    BY <1>2, <2>1, OnlyGrows DEF PostProjects, IndexedPosted, TypeOK, gateway
<1>3. ASSUME NEW s \in Syncs, FetchTasks(s) PROVE IndexedPosted'
  BY <1>3 DEF FetchTasks, IndexedPosted, TypeOK, gateway, tables
<1>4. ASSUME NEW s \in Syncs, PostTasks(s) \/ Fail(s) PROVE IndexedPosted'
  <2>1. /\ index' = [index EXCEPT ![s] = NoIndex]
        /\ items' = [items EXCEPT ![s] = NoItems]
        /\ pc' = [pc EXCEPT ![s] = "idle"]
        /\ UNCHANGED <<called, project>>
    BY <1>4 DEF PostTasks, Fail, gateway, tables
  <2> QED
    BY <2>1 DEF IndexedPosted, TypeOK, NoIndex
<1>5. CASE UNCHANGED <<pc, items, index, project>>
  <2>1. \A s \in Syncs, n \in Names : index[s][n] # NoProject => index[s][n] \in Projects
    BY DEF TypeOK
  <2> QED
    BY <1>5, <2>1, OnlyGrows DEF IndexedPosted
<1> QED
  BY <1>1, <1>2, <1>3, <1>4, <1>5 DEF Next, Sync, View, ReadProjects, ReadTasks, EditProject, EditTask,
     vars, locals, tables

\* The rows a run builds lead to projects that are stored.
LEMMA RowsHoldStep ==
    ASSUME TypeOK, IndexedPosted, RowsHold, [Next]_vars PROVE RowsHold'
<1>1. ASSUME NEW s \in Syncs, FetchTasks(s) PROVE RowsHold'
  <2>1. PICK S \in Sample(gwTask) :
          rows' = [rows EXCEPT ![s] = NormalizedTasks(S, index[s])]
    BY <1>1 DEF FetchTasks
  <2>2. SUFFICES ASSUME NEW r \in Syncs, NEW t \in Tasks,
                        rows'[r][t] # Absent, rows'[r][t].link # NoProject
                 PROVE  /\ project[rows'[r][t].link] # Absent
                        /\ rows'[r][t].ref \in called[rows'[r][t].link]
    BY <1>1 DEF FetchTasks, RowsHold, gateway, tables
  <2>3. CASE r = s
    <3>1. rows'[r][t] = NormalizedTasks(S, index[s])[t]
      BY <2>1, <2>3 DEF TypeOK
    <3>2. gwTask[t] \in GatewayTask
      BY <2>2, <3>1 DEF NormalizedTasks
    <3>3. /\ rows'[r][t].ref = gwTask[t].ref
          /\ rows'[r][t].link = Link(index[s], gwTask[t].ref)
      BY <2>2, <3>1 DEF NormalizedTasks
    <3>4. gwTask[t].ref \in Names /\ rows'[r][t].link = index[s][gwTask[t].ref]
      BY <2>2, <3>2, <3>3 DEF Link, GatewayTask
    <3>5. pc[s] # "projects"
      BY <1>1 DEF FetchTasks
    <3> QED
      BY <2>2, <3>3, <3>4, <3>5 DEF IndexedPosted
  <2>4. CASE r # s
    BY <2>1, <2>2, <2>4 DEF RowsHold, TypeOK
  <2> QED
    BY <2>3, <2>4
<1>2. ASSUME NEW s \in Syncs, PostTasks(s) \/ Fail(s) PROVE RowsHold'
  <2>1. rows' = [rows EXCEPT ![s] = NoRows] /\ UNCHANGED <<called, project>>
    BY <1>2 DEF PostTasks, Fail, gateway, tables
  <2> QED
    BY <2>1 DEF RowsHold, TypeOK, NoRows
<1>3. CASE UNCHANGED rows
  <2>1. \A s \in Syncs, t \in Tasks : rows[s][t] # Absent /\ rows[s][t].link # NoProject
          => rows[s][t].link \in Projects
    BY DEF TypeOK, StoredTask
  <2> QED
    BY <1>3, <2>1, OnlyGrows DEF RowsHold
<1> QED
  BY <1>1, <1>2, <1>3 DEF Next, Sync, FetchProjects, PostProjects, View, ReadProjects, ReadTasks,
     EditProject, EditTask, vars, locals

\* Stored links are those of some run's rows.
LEMMA LinksHoldStep ==
    ASSUME TypeOK, RowsHold, LinksHold, [Next]_vars PROVE LinksHold'
<1>1. ASSUME NEW s \in Syncs, PostTasks(s) PROVE LinksHold'
  <2>1. \A t \in Tasks : task'[t] \in {task[t], rows[s][t]}
    BY <1>1 DEF PostTasks, Upserted, TypeOK
  <2> QED
    BY <1>1, <2>1 DEF PostTasks, LinksHold, RowsHold, gateway
<1>2. CASE UNCHANGED task
  <2>1. \A t \in Tasks : task[t] # Absent /\ task[t].link # NoProject => task[t].link \in Projects
    BY DEF TypeOK, StoredTask
  <2> QED
    BY <1>2, <2>1, OnlyGrows DEF LinksHold
<1> QED
  BY <1>1, <1>2 DEF Next, Sync, FetchProjects, PostProjects, FetchTasks, Fail, View, ReadProjects,
     ReadTasks, EditProject, EditTask, vars, tables

\* Before the first run every part holds of empty tables.
LEMMA InitInv == Init => SyncInv
<1> SUFFICES ASSUME Init PROVE SyncInv
  OBVIOUS
<1>1. GatewayCalled
  BY DEF Init, GatewayCalled
<1>2. ItemsCalled /\ IndexedPosted /\ RowsHold /\ LinksHold
  BY DEF Init, ItemsCalled, IndexedPosted, RowsHold, LinksHold, NoItems, NoIndex, NoRows
<1> QED
  BY <1>1, <1>2, InitType DEF SyncInv

\* The inductive invariant: what a run holds was true of Notion once, what
\* it links to is stored, and stored links inherit that.
THEOREM SyncInvariance == Spec => []SyncInv
<1>1. SyncInv /\ [Next]_vars => SyncInv'
  BY NextType, GatewayCalledStep, ItemsCalledStep, IndexedPostedStep, RowsHoldStep,
     LinksHoldStep DEF SyncInv
<1> QED
  BY InitInv, <1>1, PTL DEF Spec

\* Stored links lead to stored projects that bore the name in the task.
THEOREM LinksAlwaysHold == Spec => []LinksHold
<1>1. SyncInv => LinksHold
  BY DEF SyncInv
<1> QED
  BY <1>1, SyncInvariance, PTL

=============================================================================
