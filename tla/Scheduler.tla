----------------------------- MODULE Scheduler -----------------------------
(***************************************************************************)
(* apps/bridge/src/main/scheduler.ts: interval ticks, wake-ups and the     *)
(* tray's "Sync now" start cycles, one at a time, and ticks that arrive    *)
(* while a cycle runs are collapsed into one more cycle.                   *)
(*                                                                         *)
(* A cycle is what SyncCycle details; here it begins, is parked in its     *)
(* awaits for as long as it likes, and returns or throws.  The scheduler   *)
(* catches both the throw and a throw of the error reporter, so the two    *)
(* endings are one action.                                                 *)
(***************************************************************************)
EXTENDS Integers

CONSTANTS
  MaxTicks,    \* bound on the ticks of a behaviour
  MaxStarts    \* bound on the calls of start()

ASSUME BoundsAssumption == MaxTicks \in Nat /\ MaxStarts \in Nat

VARIABLES
  stopped, running, pending,
  timers,     \* interval timers alive
  listeners,  \* listeners for powerMonitor's resume
  inFlight,   \* calls of runCycle that have not returned
  ticks,      \* ticks so far
  starts,     \* calls of start() so far
  begun       \* cycles begun since the last tick that was heeded (history)

vars == <<stopped, running, pending, timers, listeners, inFlight, ticks, starts, begun>>

Init ==
  /\ stopped = TRUE
  /\ running = FALSE
  /\ pending = FALSE
  /\ timers = 0
  /\ listeners = 0
  /\ inFlight = 0
  /\ ticks = 0
  /\ starts = 0
  /\ begun = 1

-----------------------------------------------------------------------------
Arm ==
  /\ starts < MaxStarts
  /\ starts' = starts + 1
  /\ stopped' = FALSE
  /\ timers' = timers + 1
  /\ listeners' = listeners + 1
  /\ UNCHANGED <<running, pending, inFlight, ticks, begun>>

start == stopped /\ Arm

\* Clears the timer; the resume listener stays.
stop ==
  /\ ~stopped
  /\ stopped' = TRUE
  /\ timers' = timers - 1
  /\ UNCHANGED <<running, pending, listeners, inFlight, ticks, starts, begun>>

RunCycle ==
  /\ running' = TRUE
  /\ pending' = FALSE
  /\ inFlight' = inFlight + 1

\* A mutant: a tick during a cycle is dropped.
CollapseDrops == UNCHANGED <<running, pending, inFlight>>

\* Remember that another was wanted.
Collapse == pending' = TRUE /\ UNCHANGED <<running, inFlight>>

\* A mutant: every tick runs a cycle.
tickAlwaysRuns ==
  /\ ticks < MaxTicks
  /\ ticks' = ticks + 1
  /\ RunCycle
  /\ begun' = 1
  /\ UNCHANGED <<stopped, timers, listeners, starts>>

tick ==
  /\ ticks < MaxTicks
  /\ ticks' = ticks + 1
  /\ IF running THEN Collapse /\ begun' = 0
                ELSE RunCycle /\ begun' = 1
  /\ UNCHANGED <<stopped, timers, listeners, starts>>

\* The timer, and the wake-up, are heeded while the scheduler is not stopped...
Interval == timers > 0 /\ ~stopped /\ tick

Resume == listeners > 0 /\ ~stopped /\ tick

\* ...and "Sync now" always.
syncNow == tick

\* A mutant: the flag is never taken down.
AgainForever ==
  /\ running' = TRUE
  /\ begun' = begun + 1
  /\ UNCHANGED <<pending, inFlight>>

Again ==
  /\ running' = TRUE
  /\ pending' = FALSE
  /\ begun' = begun + 1
  /\ UNCHANGED inFlight

\* runCycle returned or threw: the next iteration of the loop begins in the same
\* stretch of code, or the loop is over.
CycleEnds ==
  /\ inFlight > 0
  /\ \/ pending /\ ~stopped /\ Again
     \/ /\ ~pending \/ stopped
        /\ running' = FALSE
        /\ inFlight' = inFlight - 1
        /\ UNCHANGED <<pending, begun>>
  /\ UNCHANGED <<stopped, timers, listeners, ticks, starts>>

Next == start \/ stop \/ Interval \/ Resume \/ syncNow \/ CycleEnds

Spec == Init /\ [][Next]_vars

\* Every await of a cycle ends: requests to Tally carry a timeout, and uploads have
\* those of the HTTP client.
FairSpec == Spec /\ WF_vars(CycleEnds)

-----------------------------------------------------------------------------
Flags == stopped \in BOOLEAN /\ running \in BOOLEAN /\ pending \in BOOLEAN

Counts ==
  /\ timers \in Nat /\ listeners \in Nat /\ inFlight \in Nat
  /\ ticks \in Nat /\ starts \in Nat /\ begun \in Nat

\* The flags are flags and the counts never go below zero: no timer is cleared
\* twice and no cycle returns twice.
TypeOK == Flags /\ Counts

\* Two cycles never run side by side, against one single-threaded Tally and one
\* outbox, and "running" says whether one does: what SyncCycle's guard relies on.
SingleFlight == inFlight = (IF running THEN 1 ELSE 0)

\* "Collapse, do not queue": however many ticks arrived during a slow cycle, one
\* more cycle answers them all.
OneCycleAnswers == begun <= 1

\* However often it is stopped and started, one timer ticks, and none once stopped.
OneTimer == timers = (IF stopped THEN 0 ELSE 1)

\* A tick that arrived while a cycle was in flight is answered by a cycle that
\* begins after it, unless the scheduler is stopped first (the wish is then
\* forgotten, also by a later start).
HeededTicksRun == running /\ begun = 0 ~> begun = 1 \/ stopped
=============================================================================
