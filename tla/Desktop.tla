------------------------------ MODULE Desktop ------------------------------
(***************************************************************************)
(* The desktop's main process: the scheduler's cycles and the probes of    *)
(* "find Tally" and the wizard share one link to Tally.  A cycle begins by *)
(* asking Tally and returns no sooner than its last request is answered.   *)
(***************************************************************************)
EXTENDS Scheduler, TallyLink

CONSTANT Cycle     \* the caller that is the cycle

ASSUME DesktopAssumption == Cycle \in Callers

VARIABLE asking    \* the cycle in flight has still to ask Tally

desktopVars == <<vars, linkVars, asking>>

DesktopInit == Init /\ LinkInit /\ asking = FALSE

\* The scheduler alone; a cycle that begins will ask.
Schedules ==
  /\ start \/ stop \/ Interval \/ Resume \/ syncNow
  /\ asking' = (asking \/ inFlight' > inFlight)
  /\ UNCHANGED linkVars

\* The cycle probes, and goes on to the sections.
CycleAsks ==
  /\ asking
  /\ StartJob(Cycle)
  /\ asking' = FALSE
  /\ UNCHANGED <<vars, asked>>

\* The cycle is done with Tally; the drain of the outbox is SyncCycle's.
CycleReturns ==
  /\ ~asking /\ jobs[Cycle].at = "idle"
  /\ CycleEnds
  /\ asking' = (inFlight' > 0)
  /\ UNCHANGED linkVars

\* detectTally, from the dashboard or the wizard.
OthersAsk ==
  /\ asked < MaxJobs
  /\ asked' = asked + 1
  /\ \E c \in Callers \ {Cycle} : StartJob(c)
  /\ UNCHANGED <<vars, asking>>

\* What this side does of itself, and what happens to a socket.
Advances == (Opens \/ \E r \in slots : Timeout(r) \/ Retries(r)) /\ UNCHANGED <<vars, asking>>

Answers == (\E r \in slots : Replies(r) \/ Breaks(r)) /\ UNCHANGED <<vars, asking>>

World == TallyChanges /\ UNCHANGED <<vars, asking>>

DesktopNext == Schedules \/ CycleAsks \/ CycleReturns \/ OthersAsk \/ Advances \/ Answers \/ World

DesktopSpec == DesktopInit /\ [][DesktopNext]_desktopVars

\* Code that can run does, and timers fire; Tally owes no answer.
DesktopFairSpec ==
  DesktopSpec /\ WF_desktopVars(CycleAsks) /\ WF_desktopVars(CycleReturns) /\ WF_desktopVars(Advances)

-----------------------------------------------------------------------------

\* Whoever asks Tally something gets an answer and is done, whatever the others
\* ask and however often connections break: the queue is not blocked for good.
EveryJobEnds == \A c \in Callers : jobs[c].at # "idle" ~> jobs[c].at = "idle"
=============================================================================
