-------------------------- MODULE BootstrapLimiter --------------------------
(***************************************************************************)
(* The sliding-window rate limiter of POST /v2/research/sources/bootstrap  *)
(* (app/main.py, _enforce_bootstrap_rate_limit), for one token: a deque of *)
(* time stamps behind a lock.  A request reads the clock before it takes   *)
(* the lock, so stamps enter the deque out of order.                       *)
(***************************************************************************)
EXTENDS Naturals, Sequences

CONSTANTS
    Threads,    \* requests that are served at the same time
    MaxCalls,   \* RESEARCH_BOOTSTRAP_MAX_CALLS_PER_MINUTE (0, no limit, is left out)
    Window,     \* the 60 seconds
    Lag,        \* no request stands longer between the clock and the lock
    Horizon     \* bound: last value of the clock

ASSUME LimiterAssumption ==
    /\ MaxCalls \in Nat \ {0}
    /\ Window \in Nat
    /\ Lag \in Nat
    /\ Horizon \in Nat

VARIABLES
    clock,      \* time.time()
    stamp,      \* thread -> the clock as it read it, NoStamp outside the limiter
    calls,      \* every admitted call: its stamp, and when it was admitted
    head,       \* calls up to here have left the deque _bootstrap_rate_state[token]
    boot        \* history: calls up to here were admitted before the last restart

limiterVars == <<clock, stamp, calls, head, boot>>

NoStamp == Horizon + 1

Waiting == {t \in Threads : stamp[t] # NoStamp}

LimiterInit ==
    /\ clock = 0
    /\ stamp = [t \in Threads |-> NoStamp]
    /\ calls = <<>>
    /\ head = 0
    /\ boot = 0

\* Time passes, but for nobody longer than Lag between clock and lock.
Tick ==
    /\ clock < Horizon
    /\ \A t \in Waiting : clock < stamp[t] + Lag
    /\ clock' = clock + 1
    /\ UNCHANGED <<stamp, calls, head, boot>>

\* now = time.time(), before the lock.
ReadClock(t) ==
    /\ stamp[t] = NoStamp
    /\ stamp' = [stamp EXCEPT ![t] = clock]
    /\ UNCHANGED <<clock, calls, head, boot>>

\* Mutant: an entry leaves the deque when it is exactly as old as the window.
StaleEarly(t, i) == calls[i].stamp + Window <= stamp[t]

\* queue[0] < window_start
Stale(t, i) == calls[i].stamp + Window < stamp[t]

\* The while loop: entries leave from the front, up to the first that is not stale.
Popped(t, h) ==
    /\ h \in head .. Len(calls)
    /\ \A i \in (head + 1) .. h : Stale(t, i)
    /\ h < Len(calls) => ~Stale(t, h + 1)

\* Mutant: one call too many.
HasRoomForOneMore(h) == Len(calls) - h <= MaxCalls

HasRoom(h) == Len(calls) - h < MaxCalls

Leave(t) == stamp' = [stamp EXCEPT ![t] = NoStamp]

Admit(t) ==
    /\ stamp[t] # NoStamp
    /\ \E h \in head .. Len(calls) :
          /\ Popped(t, h)
          /\ HasRoom(h)
          /\ head' = h
    /\ calls' = Append(calls, [stamp |-> stamp[t], at |-> clock])
    /\ Leave(t)
    /\ UNCHANGED <<clock, boot>>

\* 429, with the stale entries gone all the same.
Refuse(t) ==
    /\ stamp[t] # NoStamp
    /\ \E h \in head .. Len(calls) :
          /\ Popped(t, h)
          /\ ~HasRoom(h)
          /\ head' = h
    /\ Leave(t)
    /\ UNCHANGED <<clock, calls, boot>>

\* The API process restarts: the deque was in its memory.
Restart ==
    /\ head' = Len(calls)
    /\ boot' = Len(calls)
    /\ stamp' = [t \in Threads |-> NoStamp]
    /\ UNCHANGED <<clock, calls>>

LimiterNext ==
    \/ Tick
    \/ \E t \in Threads : ReadClock(t) \/ Admit(t) \/ Refuse(t)
    \/ Restart

LimiterSpec == LimiterInit /\ [][LimiterNext]_limiterVars

-----------------------------------------------------------------------------

LimiterTypeOK ==
    /\ clock \in 0 .. Horizon
    /\ stamp \in [Threads -> 0 .. NoStamp]
    /\ calls \in Seq([stamp : 0 .. Horizon, at : 0 .. Horizon])
    /\ head \in 0 .. Len(calls)
    /\ boot \in 0 .. head

\* Within any Window - Lag of time the limiter admits MaxCalls requests at most:
\* of MaxCalls + 1 in a row, the last comes more than that after the first.
\* It counts by stamps that were read outside the lock; a late stamp pops
\* entries that the window of an earlier one still holds.
RateKept ==
    \A i, j \in (boot + 1) .. Len(calls) :
        j = i + MaxCalls => calls[i].at + Window < calls[j].at + Lag

\* Stamps are not from the future, nor older than Lag when they are used.
StampsRecent ==
    /\ \A t \in Waiting : stamp[t] <= clock /\ clock <= stamp[t] + Lag
    /\ \A i \in 1 .. Len(calls) :
          /\ calls[i].stamp <= calls[i].at
          /\ calls[i].at <= calls[i].stamp + Lag
          /\ calls[i].at <= clock

\* What left the deque had left the window of a stamp that has been read.
PoppedStale == \A i \in (boot + 1) .. head : calls[i].stamp + Window < clock

\* The deque never holds more than the limit.
DequeBounded == Len(calls) - head <= MaxCalls

LimiterInv == LimiterTypeOK /\ StampsRecent /\ PoppedStale /\ DequeBounded /\ RateKept

=============================================================================
