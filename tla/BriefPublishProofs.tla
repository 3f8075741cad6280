------------------------- MODULE BriefPublishProofs -------------------------
(***************************************************************************)
(* Proofs about BriefPublish, for any number of days, runs and failures:   *)
(* the published site is whole, daily windows fit, and a commit holds the   *)
(* work of one run.                                                        *)
(***************************************************************************)
EXTENDS BriefPublish, TLAPS

Fitting == Fits(tree) /\ Fits(index) /\ Fits(head) /\ Fits(remote)

(***************************************************************************)
(* What a starting run finds: Accepted is ensure_clean_worktree.           *)
(***************************************************************************)
LEMMA StartStep ==
    ASSUME PublishInv, NEW r \in Runs, Start(r), runs' \in 0 .. MaxRuns
    PROVE  PublishInv'
<1>. USE DEF PublishInv
<1>1. /\ tree = head /\ index = head
      /\ UNCHANGED <<today, pool, thin, tree, index, stray, weekdir, head, remote, made, failed, events>>
      /\ pc = "idle" /\ pc' = "generate" /\ run' = r /\ existing' = IssueDays(head)
      /\ todo' = Targets(r, IssueDays(head))
  BY DEF Start, Accepted, Dirty, siteVars, corpus
<1>2. Targets(r, IssueDays(head)) \subseteq Days
  <2>0. r.first \in Days /\ r.last \in Days
    BY DEF Runs
  <2>1. r.first \in Days /\ r.first .. r.last \subseteq Days
    BY <2>0, PublishAssumption DEF Days, PublishAssumption
  <2>. QED
    BY <2>1 DEF Targets
<1>3. TypeOK'
  BY <1>1, <1>2 DEF TypeOK, PCs, IssueDays
<1>4. Derived'
  BY <1>1 DEF Derived, PCs
<1>5. OnlyMade'
  BY <1>1 DEF OnlyMade, PCs, IssueDays, Targets
<1>6. SiteConsistent' /\ WindowsFit' /\ Fits(tree)' /\ Fits(index)'
  BY <1>1 DEF SiteConsistent, Whole, WeeklyOf, WindowsFit, Fits, IssueDays
<1>. QED
  BY <1>3, <1>4, <1>5, <1>6

(***************************************************************************)
(* Writing an issue.  A daily run writes one issue, on top of what is       *)
(* committed, so the days that had an issue when it began are those of the *)
(* worktree; an issue written below a later one is late.                   *)
(***************************************************************************)
LEMMA DrawnFromType ==
    ASSUME PublishAssumption, NEW r \in Runs, NEW d \in Days, NEW dates \in SUBSET Days
    PROVE  DrawnFrom(r, d, dates) \subseteq Days
<1>1. WindowStart(r, d, dates) \subseteq Days
  BY DEF WindowStart, Days, PublishAssumption
<1>2. (IF d > Lookback THEN d - Lookback ELSE 1) \in Days
  BY DEF Days, PublishAssumption
<1>. QED
  BY <1>1, <1>2 DEF DrawnFrom

\* Writing or passing over a day keeps the invariant, part by part.
LEMMA WriteStep ==
    ASSUME PublishInv, PublishAssumption, GenerateDay
    PROVE  PublishInv'
<1>. USE DEF PublishInv
<1>0. PICK d \in todo : /\ \A e \in todo : d <= e
                        /\ PassOver(d) \/ WriteDigest(d)
                        /\ todo' = todo \ {d}
  BY DEF GenerateDay
<1>1. /\ pc = "generate" /\ UNCHANGED <<today, pool, thin, index, stray, weekdir, head, remote, pc, run, existing, runs>>
      /\ d \in Days /\ index = head
  BY <1>0 DEF GenerateDay, TypeOK, Derived, PCs, corpus
<1>2. CASE PassOver(d)
  <2>1. UNCHANGED <<tree, made>> /\ failed' \in BOOLEAN /\ events' \in 0 .. MaxEvents
    <3>1. UNCHANGED <<tree, made>> /\ failed' \in {failed, TRUE}
      BY <1>2 DEF PassOver
    <3>2. events' = events \/ (events < MaxEvents /\ events' = events + 1)
      BY <1>2 DEF PassOver, Event
    <3>3. failed \in BOOLEAN /\ events \in 0 .. MaxEvents /\ MaxEvents \in Nat
      BY PublishAssumption DEF TypeOK, PublishAssumption
    <3>4. events' \in 0 .. MaxEvents
      BY <3>2, <3>3
    <3>5. failed' \in BOOLEAN
      BY <3>1, <3>3
    <3>. QED
      BY <3>1, <3>4, <3>5
  <2>2. TypeOK'
    BY <1>0, <1>1, <2>1 DEF TypeOK
  <2>3. Derived' /\ OnlyMade'
    BY <1>0, <1>1, <2>1 DEF Derived, OnlyMade, PCs, IssueDays, Whole
  <2>4. SiteConsistent' /\ WindowsFit' /\ Fits(tree)' /\ Fits(index)'
    BY <1>1, <2>1 DEF SiteConsistent, Whole, WeeklyOf, WindowsFit, Fits, IssueDays
  <2>. QED
    BY <2>2, <2>3, <2>4
<1>3. CASE WriteDigest(d)
  <2>1. PICK start \in Sufficient(d) :
           tree' = [tree EXCEPT !.issues[d] =
                       [from |-> start, daily |-> run.daily,
                        late |-> \E f \in IssueDays(tree) : f > d]]
    BY <1>3 DEF WriteDigest
  <2> DEFINE new == [from |-> start, daily |-> run.daily,
                     late |-> \E f \in IssueDays(tree) : f > d]
  <2>2. start \in Days
    BY <1>1, DrawnFromType DEF TypeOK, Sufficient
  <2>3. new \in Issues /\ new # NoIssue /\ new.late = (\E f \in IssueDays(tree) : f > d)
        /\ new.from = start /\ new.daily = run.daily
    BY <2>2 DEF Issues, NoIssue, Days, TypeOK, Runs
  <2>4. /\ tree' \in Sites
        /\ tree'.issues = [tree.issues EXCEPT ![d] = new]
        /\ tree.issues \in [Days -> Issues]
    BY <1>1, <2>1, <2>3 DEF TypeOK, Sites
  <2>5. /\ made' = made \cup {d} /\ UNCHANGED <<failed, events>>
        /\ run.force \/ d \notin existing
    BY <1>3 DEF WriteDigest, SkipExisting
  <2>6. TypeOK'
    BY <1>0, <1>1, <2>4, <2>5 DEF TypeOK
  <2>7. Derived'
    BY <1>1 DEF Derived, PCs
  <2>8. OnlyMade'
    <3>1. \A e \in Days : tree'.issues[e] # head'.issues[e] =>
              e \in made' /\ (head'.issues[e] # NoIssue => run'.force)
      BY <1>1, <2>4, <2>5 DEF OnlyMade, PCs, IssueDays
    <3>2. run'.daily => todo' = {}
      BY <1>0, <1>1 DEF OnlyMade, PCs
    <3>. QED
      BY <1>1, <3>1, <3>2 DEF OnlyMade, PCs, IssueDays
  <2>9. IssueDays(tree)' = IssueDays(tree) \cup {d}
    BY <1>1, <2>3, <2>4 DEF IssueDays
  <2>10. Fits(tree)'
    <3> SUFFICES ASSUME NEW e \in IssueDays(tree)', NEW f \in IssueDays(tree)',
                        tree'.issues[f].daily, e < f, ~ tree'.issues[e].late
                 PROVE  /\ tree'.issues[f].from > e
                        /\ (\A g \in (e + 1) .. (f - 1) : g \notin IssueDays(tree)')
                              => tree'.issues[f].from = e + 1
      BY DEF Fits
    <3>0. e \in Days /\ f \in Days /\ d \in Days /\ Days \subseteq Nat
      BY <1>1 DEF IssueDays, Days
    <3>1. CASE f # d
      <4>1. f \in IssueDays(tree) /\ tree'.issues[f] = tree.issues[f]
        BY <2>4, <2>9, <3>0, <3>1
      <4>2. e # d
        BY <2>3, <2>4, <3>0, <4>1
      <4>3. e \in IssueDays(tree) /\ tree'.issues[e] = tree.issues[e]
        BY <2>4, <2>9, <3>0, <4>2
      <4>. QED
        BY <2>9, <4>1, <4>3 DEF Fits
    <3>2. CASE f = d
      <4>1. tree'.issues[f].from = start /\ run.daily
        BY <2>3, <2>4, <3>0, <3>2
      <4>2. existing = IssueDays(tree)
        BY <1>0, <1>1, <4>1 DEF OnlyMade, PCs
      <4>3. e \in existing /\ e < d
        BY <2>9, <3>0, <3>2, <4>2
      <4>4. start \in WindowStart(run, d, existing)
        <5>1. ~ run.relaxed
          BY <4>1 DEF TypeOK, Runs
        <5>. QED
          BY <2>1, <5>1 DEF DrawnFrom, Sufficient
      <4>5. /\ start - 1 \in existing /\ \A g \in existing : g < d => g < start
            /\ start \in 2 .. d
        BY <4>1, <4>3, <4>4 DEF WindowStart
      <4>6. start > e
        BY <4>3, <4>5
      <4>7. ASSUME \A g \in (e + 1) .. (f - 1) : g \notin IssueDays(tree)'
            PROVE  start = e + 1
        <5>1. start - 1 \notin (e + 1) .. (f - 1)
          BY <2>9, <4>2, <4>5, <4>7
        <5>. QED
          BY <3>0, <3>2, <4>3, <4>5, <4>6, <5>1
      <4>. QED
        BY <4>1, <4>6, <4>7
    <3>. QED
      BY <3>1, <3>2
  <2>11. SiteConsistent' /\ WindowsFit' /\ Fits(index)'
    BY <1>1 DEF SiteConsistent, Whole, WeeklyOf, WindowsFit, Fits, IssueDays
  <2>. QED
    BY <2>6, <2>7, <2>8, <2>10, <2>11
<1>. QED
  BY <1>0, <1>2, <1>3

(***************************************************************************)
(* The other steps.                                                        *)
(***************************************************************************)
LEMMA NoRunType == PublishAssumption => NoRun \in Runs
  BY DEF NoRun, Runs, Days, PublishAssumption

\* The weekly digest made of any issues is a file of issues.
LEMMA WeeklyType ==
    ASSUME NEW issues \in [Days -> Issues], PublishAssumption
    PROVE  WeeklyOf(issues) \in [Days -> Issues]
  BY DEF WeeklyOf, NoIssue, Issues, PublishAssumption

\* Every step but the writing of an issue keeps the invariant.
LEMMA OtherSteps ==
    ASSUME PublishInv, PublishAssumption,
           \/ \E d \in Days : Ingest(d)
           \/ NewDay \/ NothingToPublish \/ DigestsWritten \/ WriteAssets \/ WriteWeekly
           \/ WriteFeeds \/ Build \/ Invalid \/ Stage \/ Commit \/ Push \/ Raise \/ CleanUp \/ PushByHand
    PROVE  PublishInv'
<1>. USE PublishAssumption DEF PublishInv, siteVars, runVars, corpus
<1>1. ASSUME NEW d \in Days, Ingest(d) PROVE PublishInv'
  <2>0. pool' \in [Days -> 0 .. MinItems] /\ thin' \subseteq Days
    BY <1>1, PublishAssumption DEF Ingest, TypeOK, PublishAssumption
  <2>1. TypeOK'
    BY <1>1, <2>0 DEF Ingest, TypeOK
  <2>2. Derived'
    BY <1>1 DEF Ingest, Derived, PCs, Whole, WeeklyOf, TypeOK, Sites
  <2>3. OnlyMade'
    BY <1>1 DEF Ingest, OnlyMade, PCs, IssueDays
  <2>4. SiteConsistent'
    BY <1>1 DEF Ingest, SiteConsistent, Derived, PCs, Whole, WeeklyOf, TypeOK, Sites
  <2>5. WindowsFit' /\ Fits(tree)' /\ Fits(index)'
    BY <1>1 DEF Ingest, WindowsFit, Fits, IssueDays, Derived, PCs, TypeOK, Sites
  <2>. QED
    BY <2>1, <2>2, <2>3, <2>4, <2>5
<1>2. CASE NewDay
  <2>0. today' \in 1 .. MaxDay + 1
    BY <1>2, PublishAssumption DEF NewDay, TypeOK, PublishAssumption
  <2>1. TypeOK'
    BY <1>2, <2>0 DEF NewDay, TypeOK
  <2>2. Derived'
    BY <1>2 DEF NewDay, Derived, PCs, Whole, WeeklyOf, TypeOK, Sites
  <2>3. OnlyMade'
    BY <1>2 DEF NewDay, OnlyMade, PCs, IssueDays
  <2>4. SiteConsistent'
    BY <1>2 DEF NewDay, SiteConsistent, Derived, PCs, Whole, WeeklyOf, TypeOK, Sites
  <2>5. WindowsFit' /\ Fits(tree)' /\ Fits(index)'
    BY <1>2 DEF NewDay, WindowsFit, Fits, IssueDays, Derived, PCs, TypeOK, Sites
  <2>. QED
    BY <2>1, <2>2, <2>3, <2>4, <2>5
<1>3. CASE NothingToPublish
  <2>1. TypeOK'
    BY <1>3, NoRunType DEF NothingToPublish, End, TypeOK, PCs
  <2>2. Derived'
    BY <1>3 DEF NothingToPublish, End, Derived, PCs, Whole, WeeklyOf, TypeOK, Sites
  <2>3. OnlyMade'
    BY <1>3 DEF NothingToPublish, End, OnlyMade, PCs, IssueDays
  <2>4. SiteConsistent'
    BY <1>3 DEF NothingToPublish, End, SiteConsistent, Derived, PCs, Whole, WeeklyOf, TypeOK, Sites
  <2>5. WindowsFit' /\ Fits(tree)' /\ Fits(index)'
    BY <1>3 DEF NothingToPublish, End, WindowsFit, Fits, IssueDays, Derived, PCs, TypeOK, Sites
  <2>. QED
    BY <2>1, <2>2, <2>3, <2>4, <2>5
<1>4. CASE DigestsWritten
  <2>1. TypeOK'
    BY <1>4, NoRunType DEF DigestsWritten, Step, TypeOK, PCs
  <2>2. Derived'
    BY <1>4 DEF DigestsWritten, Step, Derived, PCs, Whole, WeeklyOf, TypeOK, Sites
  <2>3. OnlyMade'
    BY <1>4 DEF DigestsWritten, Step, OnlyMade, PCs, IssueDays
  <2>4. SiteConsistent'
    BY <1>4 DEF DigestsWritten, Step, SiteConsistent, Derived, PCs, Whole, WeeklyOf, TypeOK, Sites
  <2>5. WindowsFit' /\ Fits(tree)' /\ Fits(index)'
    BY <1>4 DEF DigestsWritten, Step, WindowsFit, Fits, IssueDays, Derived, PCs, TypeOK, Sites
  <2>. QED
    BY <2>1, <2>2, <2>3, <2>4, <2>5
<1>5. CASE WriteAssets
  <2>0. tree' \in Sites /\ tree'.issues = tree.issues
    BY <1>5, WeeklyType DEF WriteAssets, TypeOK, Sites
  <2>1. TypeOK'
    BY <1>5, <2>0 DEF WriteAssets, Step, TypeOK, PCs
  <2>2. Derived'
    BY <1>5 DEF WriteAssets, Step, Derived, PCs, Whole, WeeklyOf, TypeOK, Sites
  <2>3. OnlyMade'
    BY <1>5, <2>0 DEF WriteAssets, Step, OnlyMade, PCs, IssueDays
  <2>4. SiteConsistent'
    BY <1>5 DEF WriteAssets, Step, SiteConsistent, Derived, PCs, Whole, WeeklyOf, TypeOK, Sites
  <2>5. WindowsFit' /\ Fits(tree)' /\ Fits(index)'
    BY <1>5 DEF WriteAssets, Step, WindowsFit, Fits, IssueDays, Derived, PCs, TypeOK, Sites
  <2>. QED
    BY <2>1, <2>2, <2>3, <2>4, <2>5
<1>6. CASE WriteWeekly
  <2>0. tree' \in Sites /\ tree'.issues = tree.issues
    BY <1>6, WeeklyType DEF WriteWeekly, TypeOK, Sites
  <2>1. TypeOK'
    BY <1>6, <2>0 DEF WriteWeekly, Step, TypeOK, PCs
  <2>2. Derived'
    BY <1>6 DEF WriteWeekly, Step, Derived, PCs, Whole, WeeklyOf, TypeOK, Sites
  <2>3. OnlyMade'
    BY <1>6, <2>0 DEF WriteWeekly, Step, OnlyMade, PCs, IssueDays
  <2>4. SiteConsistent'
    BY <1>6 DEF WriteWeekly, Step, SiteConsistent, Derived, PCs, Whole, WeeklyOf, TypeOK, Sites
  <2>5. WindowsFit' /\ Fits(tree)' /\ Fits(index)'
    BY <1>6 DEF WriteWeekly, Step, WindowsFit, Fits, IssueDays, Derived, PCs, TypeOK, Sites
  <2>. QED
    BY <2>1, <2>2, <2>3, <2>4, <2>5
<1>7. CASE WriteFeeds
  <2>0. tree' \in Sites /\ tree'.issues = tree.issues
    BY <1>7, WeeklyType DEF WriteFeeds, TypeOK, Sites
  <2>1. TypeOK'
    BY <1>7, <2>0 DEF WriteFeeds, Step, TypeOK, PCs
  <2>2. Derived'
    BY <1>7 DEF WriteFeeds, Step, Derived, PCs, Whole, WeeklyOf, TypeOK, Sites
  <2>3. OnlyMade'
    BY <1>7, <2>0 DEF WriteFeeds, Step, OnlyMade, PCs, IssueDays
  <2>4. SiteConsistent'
    BY <1>7 DEF WriteFeeds, Step, SiteConsistent, Derived, PCs, Whole, WeeklyOf, TypeOK, Sites
  <2>5. WindowsFit' /\ Fits(tree)' /\ Fits(index)'
    BY <1>7 DEF WriteFeeds, Step, WindowsFit, Fits, IssueDays, Derived, PCs, TypeOK, Sites
  <2>. QED
    BY <2>1, <2>2, <2>3, <2>4, <2>5
<1>8. CASE Build
  <2>0. events' \in 0 .. MaxEvents
    BY <1>8, PublishAssumption DEF Build, Event, TypeOK, PublishAssumption
  <2>1. TypeOK'
    BY <1>8, <2>0, NoRunType DEF Build, Step, Event, TypeOK, PCs
  <2>2. Derived'
    BY <1>8 DEF Build, Step, Event, Derived, PCs, Whole, WeeklyOf, TypeOK, Sites
  <2>3. OnlyMade'
    BY <1>8 DEF Build, Step, Event, OnlyMade, PCs, IssueDays
  <2>4. SiteConsistent'
    BY <1>8 DEF Build, Step, Event, SiteConsistent, Derived, PCs, Whole, WeeklyOf, TypeOK, Sites
  <2>5. WindowsFit' /\ Fits(tree)' /\ Fits(index)'
    BY <1>8 DEF Build, Step, Event, WindowsFit, Fits, IssueDays, Derived, PCs, TypeOK, Sites
  <2>. QED
    BY <2>1, <2>2, <2>3, <2>4, <2>5
<1>9. CASE Stage
  <2>1. TypeOK'
    BY <1>9, NoRunType DEF Stage, Staged, End, TypeOK, PCs
  <2>2. Derived'
    BY <1>9 DEF Stage, Staged, End, Derived, PCs, Whole, WeeklyOf, TypeOK, Sites
  <2>3. OnlyMade'
    BY <1>9 DEF Stage, Staged, End, OnlyMade, PCs, IssueDays
  <2>4. SiteConsistent'
    BY <1>9 DEF Stage, Staged, End, SiteConsistent, Derived, PCs, Whole, WeeklyOf, TypeOK, Sites
  <2>5. WindowsFit' /\ Fits(tree)' /\ Fits(index)'
    BY <1>9 DEF Stage, Staged, End, WindowsFit, Fits, IssueDays, Derived, PCs, TypeOK, Sites
  <2>. QED
    BY <2>1, <2>2, <2>3, <2>4, <2>5
<1>10. CASE Commit
  <2>1. TypeOK'
    BY <1>10, NoRunType DEF Commit, Step, TypeOK, PCs
  <2>2. Derived'
    BY <1>10 DEF Commit, Step, Derived, PCs, Whole, WeeklyOf, TypeOK, Sites
  <2>3. OnlyMade'
    BY <1>10 DEF Commit, Step, OnlyMade, PCs, IssueDays
  <2>4. SiteConsistent'
    BY <1>10 DEF Commit, Step, SiteConsistent, Derived, PCs, Whole, WeeklyOf, TypeOK, Sites
  <2>5. WindowsFit' /\ Fits(tree)' /\ Fits(index)'
    BY <1>10 DEF Commit, Step, WindowsFit, Fits, IssueDays, Derived, PCs, TypeOK, Sites
  <2>. QED
    BY <2>1, <2>2, <2>3, <2>4, <2>5
<1>11. CASE Push
  <2>1. TypeOK'
    BY <1>11, NoRunType DEF Push, End, TypeOK, PCs
  <2>2. Derived'
    BY <1>11 DEF Push, End, Derived, PCs, Whole, WeeklyOf, TypeOK, Sites
  <2>3. OnlyMade'
    BY <1>11 DEF Push, End, OnlyMade, PCs, IssueDays
  <2>4. SiteConsistent'
    BY <1>11 DEF Push, End, SiteConsistent, Derived, PCs, Whole, WeeklyOf, TypeOK, Sites
  <2>5. WindowsFit' /\ Fits(tree)' /\ Fits(index)'
    BY <1>11 DEF Push, End, WindowsFit, Fits, IssueDays, Derived, PCs, TypeOK, Sites
  <2>. QED
    BY <2>1, <2>2, <2>3, <2>4, <2>5
<1>12. CASE Raise
  <2>0. events' \in 0 .. MaxEvents
    BY <1>12, PublishAssumption DEF Raise, Event, TypeOK, PublishAssumption
  <2>1. TypeOK'
    BY <1>12, <2>0, NoRunType DEF Raise, Event, End, TypeOK, PCs
  <2>2. Derived'
    BY <1>12 DEF Raise, Event, End, Derived, PCs, Whole, WeeklyOf, TypeOK, Sites
  <2>3. OnlyMade'
    BY <1>12 DEF Raise, Event, End, OnlyMade, PCs, IssueDays
  <2>4. SiteConsistent'
    BY <1>12 DEF Raise, Event, End, SiteConsistent, Derived, PCs, Whole, WeeklyOf, TypeOK, Sites
  <2>5. WindowsFit' /\ Fits(tree)' /\ Fits(index)'
    BY <1>12 DEF Raise, Event, End, WindowsFit, Fits, IssueDays, Derived, PCs, TypeOK, Sites
  <2>. QED
    BY <2>1, <2>2, <2>3, <2>4, <2>5
<1>13. CASE CleanUp
  <2>0. weekdir' \in BOOLEAN /\ stray' \in BOOLEAN
    BY <1>13 DEF CleanUp, TypeOK, HasWeekly
  <2>1. TypeOK'
    BY <1>13, <2>0 DEF CleanUp, TypeOK, PCs
  <2>2. Derived'
    BY <1>13 DEF CleanUp, Derived, PCs, Whole, WeeklyOf, TypeOK, Sites
  <2>3. OnlyMade'
    BY <1>13 DEF CleanUp, OnlyMade, PCs, IssueDays
  <2>4. SiteConsistent'
    BY <1>13 DEF CleanUp, SiteConsistent, Derived, PCs, Whole, WeeklyOf, TypeOK, Sites
  <2>5. WindowsFit' /\ Fits(tree)' /\ Fits(index)'
    BY <1>13 DEF CleanUp, WindowsFit, Fits, IssueDays, Derived, PCs, TypeOK, Sites
  <2>. QED
    BY <2>1, <2>2, <2>3, <2>4, <2>5
<1>14. CASE PushByHand
  <2>1. TypeOK'
    BY <1>14, NoRunType DEF PushByHand, TypeOK, PCs
  <2>2. Derived'
    BY <1>14 DEF PushByHand, Derived, PCs, Whole, WeeklyOf, TypeOK, Sites
  <2>3. OnlyMade'
    BY <1>14 DEF PushByHand, OnlyMade, PCs, IssueDays
  <2>4. SiteConsistent'
    BY <1>14 DEF PushByHand, SiteConsistent, Derived, PCs, Whole, WeeklyOf, TypeOK, Sites
  <2>5. WindowsFit' /\ Fits(tree)' /\ Fits(index)'
    BY <1>14 DEF PushByHand, WindowsFit, Fits, IssueDays, Derived, PCs, TypeOK, Sites
  <2>. QED
    BY <2>1, <2>2, <2>3, <2>4, <2>5
<1>15. CASE Invalid
  <2>1. TypeOK'
    BY <1>15, NoRunType DEF Invalid, End, TypeOK, PCs
  <2>2. Derived'
    BY <1>15 DEF Invalid, End, Derived, PCs, Whole, WeeklyOf, TypeOK, Sites
  <2>3. OnlyMade'
    BY <1>15 DEF Invalid, End, OnlyMade, PCs, IssueDays
  <2>4. SiteConsistent'
    BY <1>15 DEF Invalid, End, SiteConsistent, Derived, PCs, Whole, WeeklyOf, TypeOK, Sites
  <2>5. WindowsFit' /\ Fits(tree)' /\ Fits(index)'
    BY <1>15 DEF Invalid, End, WindowsFit, Fits, IssueDays, Derived, PCs, TypeOK, Sites
  <2>. QED
    BY <2>1, <2>2, <2>3, <2>4, <2>5
<1>. QED
  BY <1>1, <1>2, <1>3, <1>4, <1>5, <1>6, <1>7, <1>8, <1>9, <1>10, <1>11, <1>12, <1>13, <1>14, <1>15

\* The publisher starts from what is committed and adds its own files alone, for
\* any number of days, runs, deaths and failing commands.
THEOREM PublishInvariant == Spec => []PublishInv
<1>1. Init => PublishInv
  <2>. SUFFICES ASSUME Init PROVE PublishInv
    OBVIOUS
  <2>1. TypeOK
    <3>1. EmptySite \in Sites
      BY PublishAssumption DEF EmptySite, Sites, NoIssue, Issues, PublishAssumption
    <3>2. 1 \in 1 .. MaxDay + 1 /\ 0 \in 0 .. MinItems /\ 0 \in 0 .. MaxRuns /\ 0 \in 0 .. MaxEvents
      BY PublishAssumption DEF PublishAssumption
    <3>. QED
      BY <3>1, <3>2, NoRunType, PublishAssumption DEF Init, TypeOK, PCs
  <2>2. Derived /\ OnlyMade
    BY DEF Init, Derived, OnlyMade
  <2>3. SiteConsistent
    BY DEF Init, SiteConsistent, Whole, WeeklyOf, EmptySite
  <2>4. IssueDays(EmptySite) = {}
    BY DEF IssueDays, EmptySite
  <2>5. WindowsFit /\ Fits(tree) /\ Fits(index)
    BY <2>4 DEF Init, WindowsFit, Fits
  <2>. QED
    BY <2>1, <2>2, <2>3, <2>5 DEF PublishInv
<1>2. PublishInv /\ [Next]_vars => PublishInv'
  <2>. SUFFICES ASSUME PublishInv, [Next]_vars PROVE PublishInv'
    OBVIOUS
  <2>1. CASE Scheduled
    <3>1. PICK r \in Runs : Start(r)
      <4>1. /\ today \in 1 .. MaxDay + 1 /\ today > 1 /\ MaxDay \in Nat
            /\ Start([daily |-> FALSE, first |-> FirstDay, last |-> today - 1, force |-> FALSE,
                      relaxed |-> FALSE])
        BY <2>1, PublishAssumption DEF Scheduled, PublishInv, TypeOK, PublishAssumption
      <4>2. FirstDay \in Days /\ today - 1 \in Days /\ FirstDay <= today - 1
        BY <4>1, PublishAssumption DEF Days, FirstDay, PublishAssumption
      <4>. QED
        BY <4>1, <4>2 DEF Runs
    <3>. QED
      BY <2>1, <3>1, StartStep DEF Scheduled, PublishInv, TypeOK
  <2>2. CASE ByHand
    <3>1. PICK r \in Runs : Start(r)
      BY <2>2 DEF ByHand
    <3>2. runs' \in 0 .. MaxRuns
      BY <2>2, PublishAssumption DEF ByHand, PublishInv, TypeOK, PublishAssumption
    <3>. QED
      BY <3>1, <3>2, StartStep
  <2>3. CASE UNCHANGED vars
    BY <2>3 DEF vars, siteVars, runVars, corpus, PublishInv, TypeOK, Derived, OnlyMade, SiteConsistent,
       WindowsFit, Fits, Whole, WeeklyOf, IssueDays
  <2>. QED
    BY <2>1, <2>2, <2>3, WriteStep, OtherSteps, PublishAssumption DEF Next, PublishStep
<1>. QED
  BY <1>1, <1>2, PTL DEF Spec

\* What is committed and published is whole: its assets, weekly digests and feeds
\* are those of its issues, whatever step of whatever run fails.
THEOREM SiteIsWhole == Spec => []SiteConsistent
<1>1. PublishInv => SiteConsistent
  BY DEF PublishInv
<1>. QED
  BY <1>1, PublishInvariant, PTL

\* A daily issue takes up where the latest issue before it ends
\* (determine_digest_window).
THEOREM DailyWindowsFit == Spec => []WindowsFit
<1>1. PublishInv => WindowsFit
  BY DEF PublishInv
<1>. QED
  BY <1>1, PublishInvariant, PTL

\* A commit holds the issues of one run, and changes none that was there unless
\* forced (ensure_clean_worktree, commit_and_push).
THEOREM CommitsHoldOneRun == Spec => CommitsOneRun
<1> DEFINE A == \A d \in Days : head'.issues[d] # head.issues[d] =>
                   d \in made /\ (head.issues[d] # NoIssue => run.force)
<1>1. PublishInv /\ [Next]_vars => [A]_vars
  <2>. SUFFICES ASSUME PublishInv, Next PROVE A
    OBVIOUS
  <2>1. CASE Commit
    BY <2>1 DEF Commit, Step, PublishInv, Derived, OnlyMade, PCs
  <2>2. CASE ~ Commit
    <3>1. head' = head
      BY <2>2 DEF Next, PublishStep, Ingest, NewDay, Scheduled, ByHand, Start, GenerateDay,
         NothingToPublish, DigestsWritten, WriteAssets, WriteWeekly, WriteFeeds, Build, Invalid, Stage,
         Push, Raise, CleanUp, PushByHand, siteVars
    <3>. QED
      BY <3>1
  <2>. QED
    BY <2>1, <2>2
<1>. QED
  BY <1>1, PublishInvariant, PTL DEF Spec, CommitsOneRun

=============================================================================
