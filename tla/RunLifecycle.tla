---------------------------- MODULE RunLifecycle ----------------------------
(***************************************************************************)
(* What the run table promises to whoever queues a run: a run is queued    *)
(* once, taken once and judged.  A run given up by the sweep may still be  *)
(* judged by the worker that took it, as long as that worker lives, and a  *)
(* completed run stays completed.                                          *)
(***************************************************************************)

CONSTANT Runs   \* run ids

VARIABLES
    phase,      \* run -> where it stands
    live        \* the runs a worker is processing

Init ==
    /\ phase = [r \in Runs |-> "absent"]
    /\ live = {}

Submit(r) ==
    /\ phase[r] = "absent"
    /\ phase' = [phase EXCEPT ![r] = "queued"]
    /\ UNCHANGED live

Take(r) ==
    /\ phase[r] = "queued"
    /\ phase' = [phase EXCEPT ![r] = "running"]
    /\ live' = live \cup {r}

\* The worker is gone; its run is still marked running (or already given up).
Abandon(r) ==
    /\ r \in live
    /\ live' = live \ {r}
    /\ UNCHANGED phase

GiveUp(lost) ==
    /\ \A r \in lost : phase[r] = "running"
    /\ phase' = [r \in Runs |-> IF r \in lost THEN "failed" ELSE phase[r]]
    /\ UNCHANGED live

Judge(r, verdict) ==
    /\ r \in live
    /\ phase[r] \in {"running", "failed"}
    /\ phase' = [phase EXCEPT ![r] = verdict]
    /\ live' = live \ {r}

Next ==
    \/ \E r \in Runs : \/ Submit(r) \/ Take(r) \/ Abandon(r)
                       \/ Judge(r, "completed") \/ Judge(r, "failed")
    \/ \E lost \in SUBSET Runs : GiveUp(lost)

Spec == Init /\ [][Next]_<<phase, live>>

\* What the promise comes to for whoever waits for a run: a verdict that no worker
\* is left to revise is final.
Revised(r) == r \in live' \/ phase'[r] # phase[r]

NoneRevised == \A r \in Runs \ live : phase[r] \in {"completed", "failed"} => ~Revised(r)

VerdictsFinal == [][NoneRevised]_<<phase, live>>
=============================================================================
