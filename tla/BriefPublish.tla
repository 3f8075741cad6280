---------------------------- MODULE BriefPublish ----------------------------
(***************************************************************************)
(* Publishing the Brief (app/research/publish_pipeline.py): a run picks the *)
(* days it is to write (digest_generator.py), writes their issues into the *)
(* worktree of the website, derives assets and weekly digests from all     *)
(* issues (distribution_generator.py), validates and builds the site, and  *)
(* commits and pushes what it wrote (brief_ops.py).  A step that raises     *)
(* leaves the worktree as it is; a dirty worktree refuses every later run.  *)
(* A day the quality gate refuses, and a run that no weekly digest has been *)
(* made for, are refused again by every later attempt.                     *)
(* One run at a time (the concurrency group of the workflow); dry runs work *)
(* on a copy and are left out.                                             *)
(***************************************************************************)
EXTENDS Naturals, FiniteSets, FiniteSetsExt

CONSTANTS
    MaxDay,     \* bound: days
    MinItems,   \* candidates a digest needs
    Window,     \* days the scheduled run looks back
    Lookback,   \* days a relaxed backfill may reach back (..._FALLBACK_LOOKBACK_DAYS)
    MaxRuns,    \* bound: runs besides the scheduler's
    MaxEvents   \* bound: processes that die, commands and days that fail

ASSUME PublishAssumption ==
    /\ MaxDay \in Nat \ {0}
    /\ MinItems \in Nat \ {0}
    /\ Window \in Nat \ {0}
    /\ {Lookback, MaxRuns, MaxEvents} \subseteq Nat

Days == 1 .. MaxDay

NoIssue == [from |-> 0, daily |-> FALSE, late |-> FALSE]

\* An issue file: the first day it draws on, whether a daily run wrote it, and
\* (history) whether an issue of a later day was there before it.
Issues == [from : 0 .. MaxDay, daily : BOOLEAN, late : BOOLEAN]

\* The files of PUBLISH_OUTPUT_PATHS: the issues, and the issues that assets,
\* weekly digests and feeds were derived from.
Sites == [issues : [Days -> Issues], assets : [Days -> Issues],
          weekly : [Days -> Issues], feeds : [Days -> Issues]]

\* A request: mode, days, --force, and the relaxed thresholds of the second pass
\* of run_lambic_brief_publish_daily.sh.
Runs ==
    {r \in [daily : BOOLEAN, first : Days, last : Days, force : BOOLEAN, relaxed : BOOLEAN] :
        r.first <= r.last /\ (r.daily => r.first = r.last /\ ~ r.relaxed)}

VARIABLES
    today,      \* the current day
    pool,       \* day -> candidates in the corpus whose effective day it is
    thin,       \* days with enough candidates, but of too few sources
    tree,       \* the worktree of the website
    index,      \* what is staged
    stray,      \* the build changed tracked files outside the output paths
    weekdir,    \* the directory of weekly digests is on disk
    head,       \* what is committed
    remote,     \* what is pushed: the published site
    pc,         \* the publisher's next step
    run,        \* the request in hand
    existing,   \* days that had an issue when the run began
    todo,       \* target days not yet looked at
    made,       \* days written by the run
    failed,     \* a day of the run raised
    runs,       \* runs besides the scheduler's (bounded by MaxRuns)
    events      \* deaths and failures (bounded by MaxEvents)

siteVars == <<tree, index, stray, weekdir, head, remote>>
corpus   == <<today, pool, thin>>
runVars  == <<run, existing, todo, made, failed>>
vars == <<corpus, siteVars, pc, runVars, runs, events>>

NoRun == [daily |-> TRUE, first |-> 1, last |-> 1, force |-> FALSE, relaxed |-> FALSE]
EmptySite == LET none == [d \in Days |-> NoIssue]
             IN [issues |-> none, assets |-> none, weekly |-> none, feeds |-> none]

PCs == {"idle", "generate", "assets", "weekly", "feeds", "build", "stage", "commit", "push"}

TypeOK ==
    /\ today \in 1 .. MaxDay + 1
    /\ pool \in [Days -> 0 .. MinItems]
    /\ thin \subseteq Days
    /\ tree \in Sites /\ index \in Sites /\ head \in Sites /\ remote \in Sites
    /\ stray \in BOOLEAN /\ failed \in BOOLEAN /\ weekdir \in BOOLEAN
    /\ pc \in PCs
    /\ run \in Runs
    /\ existing \subseteq Days /\ todo \subseteq Days /\ made \subseteq Days
    /\ runs \in 0 .. MaxRuns
    /\ events \in 0 .. MaxEvents

\* No issue yet; everything is committed and pushed.  The website may come with a
\* directory for weekly digests.
Init ==
    /\ today = 1
    /\ pool = [d \in Days |-> 0]
    /\ thin = {}
    /\ tree = EmptySite /\ index = EmptySite /\ head = EmptySite /\ remote = EmptySite
    /\ stray = FALSE
    /\ weekdir \in BOOLEAN
    /\ pc = "idle"
    /\ run = NoRun
    /\ existing = {} /\ todo = {} /\ made = {} /\ failed = FALSE
    /\ runs = 0 /\ events = 0

-----------------------------------------------------------------------------
(* Helpers *)

Event == events < MaxEvents /\ events' = events + 1

\* git status --short lists something.
Dirty == tree # head \/ index # head \/ stray

IssueDays(s) == {d \in Days : s.issues[d] # NoIssue}

\* Mutant: the latest issue's own day is drawn on again.
FromLatest(r, d, dates) ==
    IF r.daily /\ \E e \in dates : e < d
    THEN {s \in dates : s < d /\ \A e \in dates : e < d => e <= s}
    ELSE {d}

\* determine_digest_window: the day, in a singleton, at which the window of day d
\* starts; for a daily run the one after the latest issue before d.
WindowStart(r, d, dates) ==
    IF r.daily /\ \E e \in dates : e < d
    THEN {s \in 2 .. d : s - 1 \in dates /\ \A e \in dates : e < d => e < s}
    ELSE {d}

\* The candidates of days a to b.
Candidates(a, b) == MapThenSumSet(LAMBDA d : pool[d], {e \in Days : a <= e /\ e <= b})

\* The first day the issue of day d draws on, in a singleton, or the empty set when
\* there is not enough: a relaxed backfill needs one candidate and reaches back.
DrawnFrom(r, d, dates) ==
    LET need  == IF r.relaxed THEN 1 ELSE MinItems
        here  == {s \in WindowStart(r, d, dates) : Candidates(s, d) >= need}
        back  == IF d > Lookback THEN d - Lookback ELSE 1
    IN here \cup {s \in {back} : r.relaxed /\ here = {} /\ Candidates(s, d) >= need}

Digestable == {d \in Days : pool[d] > 0}

\* Mutant: a backfill stops short of its last day.
ShortTargets(r, dates) ==
    IF r.daily THEN {r.first}
    ELSE {d \in r.first .. r.last :
            /\ d < r.last
            /\ \E e \in Digestable : e <= d
            /\ r.force \/ d \notin dates}

\* compute_target_dates: a backfill begins at the earliest digestable date.
\* (backfill-range lists existing days as well and skips them one by one.)
Targets(r, dates) ==
    IF r.daily THEN {r.first}
    ELSE {d \in r.first .. r.last :
            /\ \E e \in Digestable : e <= d
            /\ r.force \/ d \notin dates}

\* The run is over, or has raised: its process ends, the worktree stays.
End ==
    /\ pc' = "idle"
    /\ run' = NoRun
    /\ existing' = {} /\ todo' = {} /\ made' = {} /\ failed' = FALSE

Step(from, to) == pc = from /\ pc' = to

-----------------------------------------------------------------------------
(* The corpus and the calendar *)

Ingest(d) ==
    /\ d <= today
    /\ pool[d] < MinItems
    /\ pool' = [pool EXCEPT ![d] = @ + 1]
    /\ thin' \in IF pool'[d] = MinItems THEN {thin, thin \cup {d}} ELSE {thin}
    /\ UNCHANGED <<today, siteVars, pc, runVars, runs, events>>

NewDay ==
    /\ today <= MaxDay
    /\ today' = today + 1
    /\ UNCHANGED <<pool, thin, siteVars, pc, runVars, runs, events>>

-----------------------------------------------------------------------------
(* execute_publish *)

\* Mutant: the worktree is not looked at.
NotRefused(r) == r.daily => DrawnFrom(r, r.first, IssueDays(tree)) # {}

\* A dirty worktree, or a daily run without candidates, is refused.
Accepted(r) ==
    /\ ~ Dirty
    /\ r.daily => DrawnFrom(r, r.first, IssueDays(tree)) # {}

Start(r) ==
    /\ pc = "idle"
    /\ r.last < today
    /\ Accepted(r)
    /\ pc' = "generate"
    /\ run' = r
    /\ existing' = IssueDays(tree)
    /\ todo' = Targets(r, IssueDays(tree))
    /\ UNCHANGED <<corpus, siteVars, made, failed, events>>

SkipExisting(d) == ~ run.force /\ d \in existing

\* quality_gate_digest, "insufficient source diversity": the candidates of days a
\* to b are those of a thin day.  The relaxed pass asks for one source.
Refuses(r, a, b) ==
    ~ r.relaxed /\ \A d \in Days : a <= d /\ d <= b /\ pool[d] > 0 => d \in thin

\* The days the issue of day d may draw on, if it may be written.
Sufficient(d) == {start \in DrawnFrom(run, d, existing) : ~ Refuses(run, start, d)}

\* Too few candidates or sources, or, as an event, an incomplete draft or an
\* exception.
PassOver(d) ==
    /\ \/ SkipExisting(d) /\ UNCHANGED <<failed, events>>
       \/ ~ SkipExisting(d) /\ Sufficient(d) = {} /\ UNCHANGED <<failed, events>>
       \/ ~ SkipExisting(d) /\ Event /\ failed' \in {failed, TRUE}
    /\ UNCHANGED <<tree, made>>

WriteDigest(d) ==
    /\ ~ SkipExisting(d)
    /\ \E start \in Sufficient(d) :
        tree' = [tree EXCEPT !.issues[d] =
                    [from |-> start, daily |-> run.daily,
                     late |-> \E f \in IssueDays(tree) : f > d]]
    /\ made' = made \cup {d}
    /\ UNCHANGED <<failed, events>>

\* generate_digest_for_day, in date order.
GenerateDay ==
    /\ pc = "generate"
    /\ \E d \in todo :
        /\ \A e \in todo : d <= e
        /\ PassOver(d) \/ WriteDigest(d)
        /\ todo' = todo \ {d}
    /\ UNCHANGED <<corpus, index, stray, weekdir, head, remote, pc, run, existing, runs>>

\* A run that wrote nothing ends here, and so does one with a failed day, which
\* leaves what its other days wrote.
NothingToPublish ==
    /\ pc = "generate" /\ todo = {}
    /\ made = {} \/ failed
    /\ End
    /\ UNCHANGED <<corpus, siteVars, runs, events>>

DigestsWritten ==
    /\ Step("generate", "assets") /\ todo = {}
    /\ made # {} /\ ~ failed
    /\ UNCHANGED <<corpus, siteVars, runVars, runs, events>>

\* One asset for each issue in the worktree; stale ones are removed.
WriteAssets ==
    /\ Step("assets", "weekly")
    /\ tree' = [tree EXCEPT !.assets = tree.issues]
    /\ UNCHANGED <<corpus, index, stray, weekdir, head, remote, runVars, runs, events>>

WeekOf(d) == (d + 1) \div 2     \* bound: weeks of two days

\* Weeks with fewer than two issues have no digest.
WeeklyOf(issues) ==
    [d \in Days |-> IF \E e \in Days \ {d} : WeekOf(e) = WeekOf(d) /\ issues[e] # NoIssue
                    THEN issues[d] ELSE NoIssue]

HasWeekly(s) == \E d \in Days : s.weekly[d] # NoIssue

\* The directory is made with the first weekly digest.
WriteWeekly ==
    /\ Step("weekly", "feeds")
    /\ tree' = [tree EXCEPT !.weekly = WeeklyOf(tree.issues)]
    /\ weekdir' = (weekdir \/ HasWeekly(tree'))
    /\ UNCHANGED <<corpus, index, stray, head, remote, runVars, runs, events>>

\* npm run research:validate and research:feeds, scripts of the website.
WriteFeeds ==
    /\ Step("feeds", "build")
    /\ tree' = [tree EXCEPT !.feeds = tree.issues]
    /\ UNCHANGED <<corpus, index, stray, weekdir, head, remote, runVars, runs, events>>

\* npm run build, which may change tracked files (a lock file, say).
Build ==
    /\ Step("build", "stage")
    /\ \/ UNCHANGED <<stray, events>>
       \/ Event /\ stray' = TRUE
    /\ UNCHANGED <<corpus, tree, index, weekdir, head, remote, runVars, runs>>

\* Mutant: an output path is forgotten.
StagedButFeeds == [tree EXCEPT !.feeds = head.feeds]

\* git add -A of the output paths.
Staged == tree

\* _validate_post_publish_outputs raises: the run, and any like it, is refused as
\* long as there are no weekly digests at all.
Invalid ==
    /\ pc = "stage"
    /\ ~ weekdir
    /\ End
    /\ UNCHANGED <<corpus, siteVars, runs, events>>

Stage ==
    /\ pc = "stage"
    /\ weekdir
    /\ index' = Staged
    /\ IF index' # head THEN pc' = "commit" /\ UNCHANGED runVars ELSE End
    /\ UNCHANGED <<corpus, tree, stray, weekdir, head, remote, runs, events>>

Commit ==
    /\ Step("commit", "push")
    /\ head' = index
    /\ UNCHANGED <<corpus, tree, index, stray, weekdir, remote, runVars, runs, events>>

Push ==
    /\ pc = "push"
    /\ remote' = head
    /\ End
    /\ UNCHANGED <<corpus, tree, index, stray, weekdir, head, runs, events>>

\* A command fails or the process dies.
Raise ==
    /\ pc # "idle"
    /\ Event
    /\ End
    /\ UNCHANGED <<corpus, siteVars, runs>>

-----------------------------------------------------------------------------
(* The operator (docs/lambic_ai_brief_operations.md, failure handling) *)

\* A directory without files is not git's: it may stay or go.
CleanUp ==
    /\ pc = "idle" /\ Dirty
    /\ tree' = head /\ index' = head /\ stray' = FALSE
    /\ weekdir' \in {weekdir, HasWeekly(head)}
    /\ UNCHANGED <<corpus, head, remote, pc, runVars, runs, events>>

PushByHand ==
    /\ remote # head
    /\ remote' = head
    /\ UNCHANGED <<corpus, tree, index, stray, weekdir, head, pc, runVars, runs, events>>

-----------------------------------------------------------------------------
(* Specification *)

\* The days the host's timer asks for: the last ones that are over.
FirstDay == IF today > Window THEN today - Window ELSE 1

\* What the host's timer runs: backfill-missing over those days.
Scheduled ==
    /\ today > 1
    /\ Start([daily |-> FALSE, first |-> FirstDay, last |-> today - 1, force |-> FALSE,
              relaxed |-> FALSE])
    /\ UNCHANGED runs

ByHand ==
    /\ runs < MaxRuns
    /\ runs' = runs + 1
    /\ \E r \in Runs : Start(r)

PublishStep ==
    \/ GenerateDay \/ NothingToPublish \/ DigestsWritten \/ WriteAssets \/ WriteWeekly
    \/ WriteFeeds \/ Build \/ Invalid \/ Stage \/ Commit \/ Push

Next ==
    \/ \E d \in Days : Ingest(d)
    \/ NewDay \/ Scheduled \/ ByHand \/ PublishStep \/ Raise \/ CleanUp \/ PushByHand

Spec == Init /\ [][Next]_vars

\* The timer fires, a run goes on, and the operator follows the runbook.
Fairness ==
    WF_vars(Scheduled) /\ WF_vars(PublishStep) /\ WF_vars(CleanUp) /\ WF_vars(PushByHand)

FairSpec == Spec /\ Fairness

-----------------------------------------------------------------------------
(* Properties *)

Whole(s) == s.assets = s.issues /\ s.feeds = s.issues /\ s.weekly = WeeklyOf(s.issues)

\* Whatever failed before, what is committed and what is published is whole:
\* assets, weekly digests and feeds are those of its issues.
SiteConsistent == Whole(head) /\ Whole(remote)

Fits(s) ==
    \A e, f \in IssueDays(s) :
        s.issues[f].daily /\ e < f /\ ~ s.issues[e].late =>
            /\ s.issues[f].from > e
            /\ (\A g \in (e + 1) .. (f - 1) : g \notin IssueDays(s)) => s.issues[f].from = e + 1

\* A daily issue takes up where the latest issue before it ends: it draws on the
\* days without an issue between the two, and on no day of an earlier issue
\* (determine_digest_window).  Earlier issues that were written when the daily
\* issue existed are exempt.
WindowsFit == Fits(head) /\ Fits(remote)

\* What the steps of a run have derived and staged so far.
Derived ==
    /\ pc \in PCs \ {"idle", "commit", "push"} => index = head
    /\ pc \in {"weekly", "feeds", "build", "stage"} => tree.assets = tree.issues
    /\ pc \in {"feeds", "build", "stage"} => tree.weekly = WeeklyOf(tree.issues)
    /\ pc \in {"build", "stage"} => tree.feeds = tree.issues
    /\ pc = "commit" => index = tree /\ Whole(tree)

\* What a run has changed is what it has made.
OnlyMade ==
    pc \in PCs \ {"idle", "push"} =>
        /\ existing = IssueDays(head)
        /\ \A d \in Days : tree.issues[d] # head.issues[d] =>
              d \in made /\ (head.issues[d] # NoIssue => run.force)
        /\ run.daily /\ pc = "generate" => todo = {} \/ (todo = {run.first} /\ tree = head)

\* The publisher starts from what is committed and adds its own files alone
\* (ensure_clean_worktree, stage_publish_outputs), step by step.
PublishInv ==
    /\ TypeOK /\ Derived /\ OnlyMade /\ SiteConsistent /\ WindowsFit
    /\ Fits(tree) /\ Fits(index)

\* A commit holds the issues of one run and nothing an aborted run left in the
\* worktree, and changes no issue that was there unless forced.
CommitsOneRun ==
    [][\A d \in Days : head'.issues[d] # head.issues[d] =>
          d \in made /\ (head.issues[d] # NoIssue => run.force)]_vars

\* A day the timer still asks for, with enough candidates of enough sources.
Strong(d) == FirstDay <= d /\ d < today /\ pool[d] = MinItems /\ d \notin thin

\* No week has two issues or days that will be: there is nothing to make the first
\* weekly digest of, without which nothing is published.
NoWeek ==
    LET sure == IssueDays(head) \cup {d \in Days : Strong(d)}
    IN ~ weekdir /\ \A d, e \in sure : d # e => WeekOf(d) # WeekOf(e)

\* A strong day gets published while the timer asks for it: neither a failed run,
\* a dirty worktree nor a lost push stands in the way for ever.  What may is the
\* first issue's lack of a weekly digest (_validate_post_publish_outputs) and that
\* the day leaves the window (run_lambic_brief_publish_daily.sh:6).
StrongDaysPublished ==
    \A d \in Days : Strong(d) ~> d \in IssueDays(remote) \/ ~ Strong(d) \/ NoWeek

\* "Daily generation expands its window to cover any unpublished gap, so skipped
\* low-signal days roll into the next published issue instead of creating blind
\* spots" (docs/research_digest_generator.md:50): every day between the first
\* issue and a daily one is drawn on by an issue.
NoBlindSpots ==
    \A f \in IssueDays(remote) : \A d \in Days :
        /\ remote.issues[f].daily
        /\ \E e \in IssueDays(remote) : e < d /\ ~ remote.issues[e].late
        /\ d < f
        => \E g \in IssueDays(remote) : remote.issues[g].from <= d /\ d <= g

=============================================================================
