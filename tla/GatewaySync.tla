----------------------------- MODULE GatewaySync -----------------------------
(***************************************************************************)
(* The copy of the Notion databases of projects and tasks.  An operator    *)
(* runs scripts/sync_from_gateway.py, which fetches a sample of each       *)
(* database from the gateway and posts it to the API (app/main.py), whose  *)
(* upserts (app/storage/db.py) are one statement each; the dashboard       *)
(* (app/dashboard.py) reads the two tables in two transactions.  Nobody    *)
(* keeps two runs of the script apart, or the users of Notion from editing *)
(* between its two fetches.                                                *)
(*                                                                         *)
(* A task names its project; the script turns the name into an id.  Names  *)
(* here are classes of names that strip() and lower() make equal.  Of a    *)
(* task's other properties none matters here; all tasks are open.          *)
(***************************************************************************)
EXTENDS Naturals, FiniteSets

CONSTANTS
    Syncs,      \* runs of the script that may overlap
    Views,      \* requests of the dashboard
    Projects,   \* ids of project rows
    Tasks,      \* ids of task rows
    Names,
    NoProject,  \* a NULL project_id, and no project in a task
    Blank,      \* a row of the gateway without a name or title
    Absent,     \* no row
    Limit,      \* SYNC_LIMIT, rows per sample
    PageLimit,  \* limit of list_projects_page
    TaskLimit,  \* limit of list_tasks_with_projects
    Shown,      \* projects the dashboard has room for
    MaxEdits,   \* bound: edits in Notion
    MaxFails    \* bound: failures of the script

ASSUME SyncAssumption ==
    /\ IsFiniteSet(Projects)
    /\ IsFiniteSet(Tasks)
    /\ NoProject \notin Projects \union Names
    /\ Absent \notin Names
    /\ Blank \notin Names
    /\ {Limit, PageLimit, TaskLimit, Shown, MaxEdits, MaxFails} \subseteq Nat

\* A task as Notion has it, and as it is stored: raw row and link.
GatewayTask == [ref : Names \union {NoProject}]
StoredTask  == [ref : Names \union {NoProject}, link : Projects \union {NoProject}]

ASSUME RowAssumption ==
    /\ Absent \notin GatewayTask \union StoredTask
    /\ Blank \notin GatewayTask

VARIABLES
    gwProject,  \* project id -> its name in Notion
    gwTask,     \* task id -> the task in Notion
    project,    \* project id -> name in the table projects
    task,       \* task id -> row of the table tasks
    pc,         \* run -> what it does next
    items,      \* run -> the project rows it posts
    index,      \* run -> build_project_name_index: name -> project id
    rows,       \* run -> the task rows it posts
    vpc,        \* view -> what it does next
    listed,     \* view -> the projects it has read
    read,       \* view -> the tasks it has read
    top,        \* view -> the projects it shows
    called,     \* history: project id -> the names Notion has called it by
    edits, fails

gateway == <<gwProject, gwTask, called, edits>>
tables  == <<project, task>>
locals  == <<pc, items, index, rows>>
views   == <<vpc, listed, read, top>>
vars    == <<gateway, tables, locals, views, fails>>

NoItems == [p \in Projects |-> Absent]
NoIndex == [n \in Names |-> NoProject]
NoRows  == [t \in Tasks |-> Absent]

TypeOK ==
    /\ gwProject \in [Projects -> Names \union {Blank, Absent}]
    /\ gwTask \in [Tasks -> GatewayTask \union {Blank, Absent}]
    /\ called \in [Projects -> SUBSET Names]
    /\ edits \in Nat
    /\ project \in [Projects -> Names \union {Absent}]
    /\ task \in [Tasks -> StoredTask \union {Absent}]
    /\ pc \in [Syncs -> {"idle", "projects", "fetch", "tasks"}]
    /\ items \in [Syncs -> [Projects -> Names \union {Absent}]]
    /\ index \in [Syncs -> [Names -> Projects \union {NoProject}]]
    /\ rows \in [Syncs -> [Tasks -> StoredTask \union {Absent}]]
    /\ vpc \in [Views -> {"idle", "tasks", "shown"}]
    /\ listed \in [Views -> SUBSET Projects]
    /\ read \in [Views -> [Tasks -> StoredTask \union {Absent}]]
    /\ top \in [Views -> SUBSET Projects]
    /\ fails \in Nat

Init ==
    /\ gwProject \in [Projects -> Names \union {Blank, Absent}]
    /\ gwTask \in [Tasks -> GatewayTask \union {Blank, Absent}]
    /\ called = [p \in Projects |-> {gwProject[p]} \intersect Names]
    /\ edits = 0
    /\ project = NoItems
    /\ task = NoRows
    /\ pc = [s \in Syncs |-> "idle"]
    /\ items = [s \in Syncs |-> NoItems]
    /\ index = [s \in Syncs |-> NoIndex]
    /\ rows = [s \in Syncs |-> NoRows]
    /\ vpc = [v \in Views |-> "idle"]
    /\ listed = [v \in Views |-> {}]
    /\ read = [v \in Views |-> NoRows]
    /\ top = [v \in Views |-> {}]
    /\ fails = 0

(* ----------------------------- The script ------------------------------ *)

\* The first max rows of all, in an order nobody promises.
FirstOf(all, max) ==
    {S \in SUBSET all : Cardinality(S) <= max /\ (S = all \/ Cardinality(S) = max)}

\* What the gateway answers: the rows, those without a name among them.
Sample(db) == FirstOf({k \in DOMAIN db : db[k] # Absent}, Limit)

NormalizedProjects(S) ==
    [p \in Projects |-> IF p \in S /\ gwProject[p] \in Names
                        THEN gwProject[p] ELSE Absent]

\* The projects a name may stand for; of two of one name the later row wins.
Candidates(names, n) == {p \in Projects : names[p] = n}

IndexOf(names, idx) ==
    \A n \in Names : IF Candidates(names, n) = {} THEN idx[n] = NoProject
                     ELSE idx[n] \in Candidates(names, n)

FetchProjects(s) ==
    /\ pc[s] = "idle"
    /\ \E S \in Sample(gwProject) :
         items' = [items EXCEPT ![s] = NormalizedProjects(S)]
    /\ \E idx \in [Names -> Projects \union {NoProject}] :
         /\ IndexOf(items'[s], idx)
         /\ index' = [index EXCEPT ![s] = idx]
    /\ pc' = [pc EXCEPT ![s] = "projects"]
    /\ UNCHANGED <<gateway, tables, rows, views, fails>>

\* Mutant: ON CONFLICT DO NOTHING.
Inserted(table, batch) ==
    [k \in DOMAIN table |-> IF table[k] = Absent THEN batch[k] ELSE table[k]]

\* INSERT ... ON CONFLICT DO UPDATE: nothing is ever deleted.
Upserted(table, batch) ==
    [k \in DOMAIN table |-> IF batch[k] = Absent THEN table[k] ELSE batch[k]]

\* Mutant: a status other than 200 is not noticed.
PostUnchecked(s) ==
    /\ pc[s] = "projects"
    /\ project' \in {project, Upserted(project, items[s])}
    /\ pc' = [pc EXCEPT ![s] = "fetch"]
    /\ items' = [items EXCEPT ![s] = NoItems]
    /\ UNCHANGED <<gateway, task, index, rows, views, fails>>

PostProjects(s) ==
    /\ pc[s] = "projects"
    /\ project' = Upserted(project, items[s])
    /\ pc' = [pc EXCEPT ![s] = "fetch"]
    /\ items' = [items EXCEPT ![s] = NoItems]
    /\ UNCHANGED <<gateway, task, index, rows, views, fails>>

\* project_index.get(...)
Link(idx, ref) == IF ref = NoProject THEN NoProject ELSE idx[ref]

NormalizedTasks(S, idx) ==
    [t \in Tasks |-> IF t \in S /\ gwTask[t] \in GatewayTask
                     THEN [ref |-> gwTask[t].ref, link |-> Link(idx, gwTask[t].ref)]
                     ELSE Absent]

FetchTasks(s) ==
    /\ pc[s] = "fetch"
    /\ \E S \in Sample(gwTask) :
         rows' = [rows EXCEPT ![s] = NormalizedTasks(S, index[s])]
    /\ pc' = [pc EXCEPT ![s] = "tasks"]
    /\ UNCHANGED <<gateway, tables, items, index, views, fails>>

PostTasks(s) ==
    /\ pc[s] = "tasks"
    /\ task' = Upserted(task, rows[s])
    /\ pc' = [pc EXCEPT ![s] = "idle"]
    /\ items' = [items EXCEPT ![s] = NoItems]
    /\ index' = [index EXCEPT ![s] = NoIndex]
    /\ rows' = [rows EXCEPT ![s] = NoRows]
    /\ UNCHANGED <<gateway, project, views, fails>>

\* A fetch or post fails, or its answer is lost: the script ends (exit 1).
Fail(s) ==
    /\ pc[s] # "idle"
    /\ fails < MaxFails
    /\ fails' = fails + 1
    /\ pc' = [pc EXCEPT ![s] = "idle"]
    /\ items' = [items EXCEPT ![s] = NoItems]
    /\ index' = [index EXCEPT ![s] = NoIndex]
    /\ rows' = [rows EXCEPT ![s] = NoRows]
    /\ UNCHANGED <<gateway, tables, views>>

Sync(s) == FetchProjects(s) \/ PostProjects(s) \/ FetchTasks(s) \/ PostTasks(s)

(* --------------------------- The dashboard ----------------------------- *)

\* The tasks of the rows r that are counted under project p, and those that are
\* counted in the inbox: all that have no project.
OpenIn(r, p) == {t \in Tasks : r[t] # Absent /\ r[t].link = p}
Inbox(r) == OpenIn(r, NoProject)

\* Mutant: the list is cut before the tasks are counted.
CutFirst(S, r) == FirstOf(S, Shown)

\* _project_items(...)[:6]: the listed projects S with most tasks overdue, then
\* with most open ones.  Due dates are left out: of two projects with open tasks
\* either may come first.
TopOf(S, r) ==
    {P \in FirstOf(S, Shown) :
        \A p \in P, q \in S \ P : OpenIn(r, q) # {} => OpenIn(r, p) # {}}

\* project_rows = list_projects_page(...)
ReadProjects(v) ==
    /\ vpc[v] # "tasks"
    /\ \E S \in FirstOf({p \in Projects : project[p] # Absent}, PageLimit) :
         listed' = [listed EXCEPT ![v] = S]
    /\ read' = [read EXCEPT ![v] = NoRows]
    /\ top' = [top EXCEPT ![v] = {}]
    /\ vpc' = [vpc EXCEPT ![v] = "tasks"]
    /\ UNCHANGED <<gateway, tables, locals, fails>>

\* task_rows = list_tasks_with_projects(...), and build_today_dashboard.
ReadTasks(v) ==
    /\ vpc[v] = "tasks"
    /\ \E S \in FirstOf({t \in Tasks : task[t] # Absent}, TaskLimit) :
         read' = [read EXCEPT ![v] = [t \in Tasks |-> IF t \in S THEN task[t] ELSE Absent]]
    /\ \E P \in TopOf(listed[v], read'[v]) : top' = [top EXCEPT ![v] = P]
    /\ vpc' = [vpc EXCEPT ![v] = "shown"]
    /\ UNCHANGED <<gateway, tables, locals, listed, fails>>

View(v) == ReadProjects(v) \/ ReadTasks(v)

(* ------------------------------- Notion -------------------------------- *)

EditProject(p) ==
    /\ edits < MaxEdits
    /\ \E n \in (Names \union {Blank, Absent}) \ {gwProject[p]} :
         /\ gwProject' = [gwProject EXCEPT ![p] = n]
         /\ called' = [called EXCEPT ![p] = @ \union ({n} \intersect Names)]
    /\ edits' = edits + 1
    /\ UNCHANGED <<gwTask, tables, locals, views, fails>>

EditTask(t) ==
    /\ edits < MaxEdits
    /\ \E x \in (GatewayTask \union {Blank, Absent}) \ {gwTask[t]} :
         gwTask' = [gwTask EXCEPT ![t] = x]
    /\ edits' = edits + 1
    /\ UNCHANGED <<gwProject, called, tables, locals, views, fails>>

(* ---------------------------- Specification ---------------------------- *)

Next ==
    \/ \E s \in Syncs : Sync(s) \/ Fail(s)
    \/ \E v \in Views : View(v)
    \/ \E p \in Projects : EditProject(p)
    \/ \E t \in Tasks : EditTask(t)

Spec == Init /\ [][Next]_vars

\* The operator keeps running the script, a run that began goes on, and the
\* dashboards are asked for again and again.
Fairness ==
    /\ \A s \in Syncs : WF_vars(Sync(s))
    /\ \A v \in Views : WF_vars(View(v))

FairSpec == Spec /\ Fairness

(* ----------------------------- Properties ------------------------------ *)

\* Every stored link leads to a stored project, one that Notion has called
\* by the name in the task, although the schema has no foreign key, either
\* post may fail, runs overlap, and Notion is edited between the fetches.
LinksHold ==
    \A t \in Tasks : task[t] # Absent /\ task[t].link # NoProject =>
        /\ project[task[t].link] # Absent
        /\ task[t].ref \in called[task[t].link]

\* Notion has more rows than the script fetches.
BeyondSample ==
    \/ Cardinality({p \in Projects : gwProject[p] # Absent}) > Limit
    \/ Cardinality({t \in Tasks : gwTask[t] # Absent}) > Limit

\* What Notion has is stored as Notion has it, links included.
Agree ==
    /\ \A p \in Projects : gwProject[p] \in Names => project[p] = gwProject[p]
    /\ \A t \in Tasks : gwTask[t] \in GatewayTask =>
         /\ task[t] # Absent
         /\ task[t].ref = gwTask[t].ref
         /\ LET named == Candidates(gwProject, gwTask[t].ref)
            IN IF named = {} THEN task[t].link = NoProject ELSE task[t].link \in named

\* Once Notion is no longer edited, the tables come to agree with it and
\* stay so if Notion fits into a sample, whatever overlapping or failed runs left
\* in them.
Converges == <>[](BeyondSample \/ Agree)

\* The tables have more rows than a dashboard reads.
BeyondPage ==
    \/ Cardinality({p \in Projects : project[p] # Absent}) > PageLimit
    \/ Cardinality({t \in Tasks : task[t] # Absent}) > TaskLimit

\* A view counts a task of Notion where it belongs: in the inbox if no project has
\* the name the task gives, else under one that has, unless the list is
\* full of projects with open tasks of their own.
ShowsNotion(v) ==
    \A t \in Tasks : gwTask[t] \in GatewayTask =>
        LET named == Candidates(gwProject, gwTask[t].ref)
        IN IF named = {} THEN t \in Inbox(read[v])
           ELSE \/ \E p \in named \cap top[v] : t \in OpenIn(read[v], p)
                \/ Cardinality(top[v]) = Shown /\ \A p \in top[v] : OpenIn(read[v], p) # {}

\* Once Notion is no longer edited every dashboard comes to show its tasks where
\* they belong and stays so, although it reads projects and tasks in two
\* transactions while runs of the script post, and has room for Shown projects
\* (dashboard_today_endpoint, build_today_dashboard).
DashboardSettles ==
    <>[](BeyondSample \/ BeyondPage
            \/ \A v \in Views : vpc[v] = "shown" => ShowsNotion(v))

(* ------------------------- Inductive invariant ------------------------- *)

\* What a run knows of a project it may link to is stored by the time it
\* builds links, and everything it holds was true of Notion once.
ItemsCalled == \A s \in Syncs, p \in Projects :
    items[s][p] # Absent => items[s][p] \in called[p]

IndexedPosted == \A s \in Syncs, n \in Names : index[s][n] # NoProject =>
    /\ n \in called[index[s][n]]
    /\ IF pc[s] = "projects" THEN items[s][index[s][n]] # Absent
       ELSE project[index[s][n]] # Absent

RowsHold == \A s \in Syncs, t \in Tasks :
    rows[s][t] # Absent /\ rows[s][t].link # NoProject =>
        /\ project[rows[s][t].link] # Absent
        /\ rows[s][t].ref \in called[rows[s][t].link]

GatewayCalled == \A p \in Projects : gwProject[p] \in Names => gwProject[p] \in called[p]

SyncInv ==
    /\ TypeOK
    /\ GatewayCalled
    /\ ItemsCalled
    /\ IndexedPosted
    /\ RowsHold
    /\ LinksHold
=============================================================================
