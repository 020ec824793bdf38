--------------------------- MODULE DesktopProofs ---------------------------
(***************************************************************************)
(* What the main process keeps: the scheduler for any number of ticks and  *)
(* of starts, and the link to Tally for any number of callers, requests    *)
(* and broken connections.                                                 *)
(***************************************************************************)
EXTENDS Desktop, TLAPS

-----------------------------------------------------------------------------
(* The scheduler *)

\* A wish in the flag is one no cycle has answered yet.
PendingIsUnanswered == running /\ pending => begun = 0

SchedulerInv == TypeOK /\ SingleFlight /\ OneTimer /\ OneCycleAnswers /\ PendingIsUnanswered

\* Single flight as two facts without a conditional, for the provers.
LEMMA FlightCases ==
  ASSUME TypeOK, SingleFlight
  PROVE  /\ running => inFlight = 1
         /\ ~running => inFlight = 0
BY DEF SingleFlight

\* The invariant holds before the scheduler starts.
LEMMA SchedulerInit == Init => SchedulerInv
<1> SUFFICES ASSUME Init PROVE SchedulerInv
  OBVIOUS
<1>1. TypeOK
  BY DEF Init, TypeOK, Flags, Counts
<1>2. SingleFlight
  BY DEF Init, SingleFlight
<1>3. OneTimer
  BY DEF Init, OneTimer
<1>4. OneCycleAnswers
  BY DEF Init, OneCycleAnswers
<1>5. PendingIsUnanswered
  BY DEF Init, PendingIsUnanswered
<1> QED
  BY <1>1, <1>2, <1>3, <1>4, <1>5 DEF SchedulerInv

\* A tick keeps the invariant.
LEMMA TickKeeps == ASSUME SchedulerInv, tick PROVE SchedulerInv'
<1>1. CASE running
  <2>1. TypeOK'
    <3>1. Flags'
      BY <1>1 DEF SchedulerInv, TypeOK, Flags, tick, Collapse
    <3>2. Counts'
      BY <1>1 DEF SchedulerInv, TypeOK, Counts, tick, Collapse
    <3> QED
      BY <3>1, <3>2 DEF TypeOK
  <2>2. SingleFlight'
    BY <1>1 DEF SchedulerInv, SingleFlight, tick, Collapse
  <2>3. OneTimer'
    BY DEF SchedulerInv, OneTimer, tick
  <2>4. begun' = 0
    BY <1>1 DEF tick
  <2>5. OneCycleAnswers'
    BY <2>4 DEF OneCycleAnswers
  <2>6. PendingIsUnanswered'
    BY <2>4 DEF PendingIsUnanswered
  <2> QED
    BY <2>1, <2>2, <2>3, <2>5, <2>6 DEF SchedulerInv
<1>2. CASE ~running
  <2>1. inFlight' = 1
    BY <1>2, FlightCases DEF SchedulerInv, tick, RunCycle
  <2>2. running' = TRUE /\ pending' = FALSE /\ begun' = 1
    BY <1>2 DEF tick, RunCycle
  <2>3. TypeOK'
    <3>1. Flags'
      BY <1>2, <2>1, <2>2 DEF SchedulerInv, TypeOK, Flags, tick
    <3>2. Counts'
      BY <1>2, <2>1, <2>2 DEF SchedulerInv, TypeOK, Counts, tick
    <3> QED
      BY <3>1, <3>2 DEF TypeOK
  <2>4. SingleFlight'
    BY <2>1, <2>2 DEF SingleFlight
  <2>5. OneTimer'
    BY DEF SchedulerInv, OneTimer, tick
  <2>6. OneCycleAnswers'
    BY <2>2 DEF OneCycleAnswers
  <2>7. PendingIsUnanswered'
    BY <2>2 DEF PendingIsUnanswered
  <2> QED
    BY <2>3, <2>4, <2>5, <2>6, <2>7 DEF SchedulerInv
<1> QED
  BY <1>1, <1>2

\* A cycle that ends keeps the invariant.
LEMMA CycleEndsKeeps == ASSUME SchedulerInv, CycleEnds PROVE SchedulerInv'
<1>1. running /\ inFlight = 1
  BY FlightCases DEF SchedulerInv, TypeOK, Counts, CycleEnds
<1>2. OneTimer'
  BY DEF SchedulerInv, OneTimer, CycleEnds
<1>3. CASE pending /\ ~stopped /\ Again
  <2>1. running' = TRUE /\ pending' = FALSE /\ inFlight' = 1
    BY <1>1, <1>3 DEF Again
  <2>2. begun' = 1
    BY <1>1, <1>3 DEF SchedulerInv, PendingIsUnanswered, Again
  <2>3. TypeOK'
    <3>1. Flags'
      BY <2>1, <2>2 DEF SchedulerInv, TypeOK, Flags, CycleEnds
    <3>2. Counts'
      BY <2>1, <2>2 DEF SchedulerInv, TypeOK, Counts, CycleEnds
    <3> QED
      BY <3>1, <3>2 DEF TypeOK
  <2>4. SingleFlight' /\ OneCycleAnswers'
    BY <2>1, <2>2 DEF SingleFlight, OneCycleAnswers
  <2>5. PendingIsUnanswered'
    BY <2>1 DEF PendingIsUnanswered
  <2> QED
    BY <1>2, <2>3, <2>4, <2>5 DEF SchedulerInv
<1>4. CASE running' = FALSE /\ inFlight' = inFlight - 1 /\ UNCHANGED <<pending, begun>>
  <2>1. inFlight' = 0
    BY <1>1, <1>4
  <2>2. TypeOK'
    <3>1. Flags'
      BY <1>4, <2>1 DEF SchedulerInv, TypeOK, Flags, CycleEnds
    <3>2. Counts'
      BY <1>4, <2>1 DEF SchedulerInv, TypeOK, Counts, CycleEnds
    <3> QED
      BY <3>1, <3>2 DEF TypeOK
  <2>3. SingleFlight'
    BY <1>4, <2>1 DEF SingleFlight
  <2>4. OneCycleAnswers' /\ PendingIsUnanswered'
    BY <1>4 DEF SchedulerInv, OneCycleAnswers, PendingIsUnanswered
  <2> QED
    BY <1>2, <2>2, <2>3, <2>4 DEF SchedulerInv
<1> QED
  BY <1>3, <1>4 DEF CycleEnds

\* Starting and stopping keep the invariant.
LEMMA StartStopKeeps == ASSUME SchedulerInv, start \/ stop PROVE SchedulerInv'
<1>1. UNCHANGED <<running, pending, inFlight, begun>>
  BY DEF start, Arm, stop
<1>2. SingleFlight' /\ OneCycleAnswers' /\ PendingIsUnanswered'
  BY <1>1 DEF SchedulerInv, SingleFlight, OneCycleAnswers, PendingIsUnanswered
<1>3. CASE start
  <2>1. timers = 0
    BY <1>3 DEF SchedulerInv, OneTimer, start
  <2>2. stopped' = FALSE /\ timers' = 1
    BY <1>3, <2>1 DEF start, Arm
  <2>3. TypeOK'
    <3>1. Flags'
      BY <1>1, <1>3, <2>2 DEF SchedulerInv, TypeOK, Flags, start, Arm
    <3>2. Counts'
      BY <1>1, <1>3, <2>2 DEF SchedulerInv, TypeOK, Counts, start, Arm
    <3> QED
      BY <3>1, <3>2 DEF TypeOK
  <2> QED
    BY <1>2, <2>2, <2>3 DEF SchedulerInv, OneTimer
<1>4. CASE stop
  <2>1. timers = 1
    BY <1>4 DEF SchedulerInv, OneTimer, stop
  <2>2. stopped' = TRUE /\ timers' = 0
    BY <1>4, <2>1 DEF stop
  <2>3. TypeOK'
    <3>1. Flags'
      BY <1>1, <1>4, <2>2 DEF SchedulerInv, TypeOK, Flags, stop
    <3>2. Counts'
      BY <1>1, <1>4, <2>2 DEF SchedulerInv, TypeOK, Counts, stop
    <3> QED
      BY <3>1, <3>2 DEF TypeOK
  <2> QED
    BY <1>2, <2>2, <2>3 DEF SchedulerInv, OneTimer
<1> QED
  BY <1>3, <1>4

\* Every step keeps the invariant.
LEMMA SchedulerKeeps == SchedulerInv /\ [Next]_vars => SchedulerInv'
<1>1. ASSUME SchedulerInv, UNCHANGED vars PROVE SchedulerInv'
  BY <1>1 DEF vars, SchedulerInv, TypeOK, Flags, Counts, SingleFlight, OneTimer, OneCycleAnswers, PendingIsUnanswered
<1> QED
  BY <1>1, TickKeeps, CycleEndsKeeps, StartStopKeeps DEF Next, Interval, Resume, syncNow

\* Cycles never run side by side, whatever the order of timers, wake-ups, "Sync
\* now", stops and starts: scheduler.ts, tick().
THEOREM NeverTwoCycles == Spec => []SingleFlight
<1>1. SchedulerInv => SingleFlight
  BY DEF SchedulerInv
<1> QED
  BY SchedulerInit, SchedulerKeeps, <1>1, PTL DEF Spec

\* Any number of ticks that arrive during a cycle is answered by one more cycle:
\* the do-while of tick(), which takes the flag down before it runs again.
THEOREM TicksCollapse == Spec => []OneCycleAnswers
<1>1. SchedulerInv => OneCycleAnswers
  BY DEF SchedulerInv
<1> QED
  BY SchedulerInit, SchedulerKeeps, <1>1, PTL DEF Spec

\* The desktop leaves the scheduler a scheduler: whatever shares the main process
\* with it only lets its steps wait, so what is proved of it alone holds here.
THEOREM DesktopImplementsScheduler == DesktopSpec => Spec
<1>1. DesktopInit => Init
  BY DEF DesktopInit
<1>2. [DesktopNext]_desktopVars => [Next]_vars
  BY DEF DesktopNext, desktopVars, Next, Schedules, CycleAsks, CycleReturns, OthersAsk, Advances, Answers, World
<1> QED
  BY <1>1, <1>2, PTL DEF DesktopSpec, Spec

-----------------------------------------------------------------------------
(* The link to Tally *)

\* A request, queued or at the slot.
Request == [by : Callers, candidate : 0..2, try : 1..2, at : {"queued", "socket", "pausing"}]

LinkTyped == queued \in Seq(Request) /\ slots \in SUBSET Request

\* The slot is held by one request, and the socket is that request's: open
\* while it is at the socket, closed while it waits for its second try.
SlotIsOne == \A r, s \in slots : r = s
SocketIsTheSlots ==
  \/ sockets = 1 /\ \E r \in slots : r.at = "socket"
  \/ sockets = 0 /\ \A r \in slots : r.at # "socket"

LinkInv == LinkTyped /\ SlotIsOne /\ SocketIsTheSlots /\ EncodingUnderstood

\* The initial link is empty.
LEMMA InitLinkInv == LinkInit => LinkInv
BY DEF LinkInit, LinkInv, LinkTyped, SlotIsOne, SocketIsTheSlots, EncodingUnderstood, Unknown

\* A request joining the queue leaves it a queue of requests.
LEMMA Queueing ==
  ASSUME LinkTyped, NEW c \in Callers, NEW i \in 0..2
  PROVE  /\ Append(queued, detection(c, i)) \in Seq(Request)
         /\ detection(c, 0) = plain(c)
<1>1. detection(c, i) \in Request
  BY DEF detection, Request
<1> QED
  BY <1>1 DEF LinkTyped, plain

\* A caller that begins only queues.
LEMMA StartJobKeeps == ASSUME LinkInv, NEW c \in Callers, StartJob(c) PROVE LinkInv'
<1>1. queued' \in Seq(Request)
  BY Queueing DEF LinkInv, StartJob
<1>2. UNCHANGED <<known, slots, sockets>>
  BY DEF StartJob
<1> QED
  BY <1>1, <1>2 DEF LinkInv, LinkTyped, SlotIsOne, SocketIsTheSlots, EncodingUnderstood, known

\* The slot is free, so no socket is open when one is opened.
LEMMA OpensKeeps == ASSUME LinkInv, Opens PROVE LinkInv'
<1> DEFINE h == [Head(queued) EXCEPT !.at = "socket"]
<1>1. slots = {} /\ sockets = 0
  BY DEF Opens, free, LinkInv, SocketIsTheSlots
<1>2. Head(queued) \in Request /\ Tail(queued) \in Seq(Request)
  BY DEF Opens, LinkInv, LinkTyped
<1>3. h \in Request /\ h.at = "socket"
  BY <1>2 DEF Request
<1>4. slots' = {h} /\ sockets' = 1 /\ queued' = Tail(queued)
  BY <1>1 DEF Opens
<1>5. UNCHANGED known
  BY DEF Opens
<1> QED
  BY <1>2, <1>3, <1>4, <1>5 DEF LinkInv, LinkTyped, SlotIsOne, SocketIsTheSlots, EncodingUnderstood, known

\* A request is written in its candidate's encoding, or in the one that is known.
LEMMA Writing ==
  ASSUME NEW r \in Request
  PROVE  /\ r.candidate > 0 => written(r) = Encodings[r.candidate]
         /\ r.candidate = 0 /\ encoding # Unknown => written(r) = encoding
BY DEF Request, written

\* An answer settles an encoding only if it is the candidate's and was understood; any other that is well
\* was asked for in the one that is kept.
LEMMA AnsweredSettles ==
  ASSUME LinkInv, NEW r \in slots, NEW result, Answered(r, result),
         heard' = IF result = "ok" THEN understands ELSE heard,
         result = "ok" => written(r) \in understands
  PROVE  queued' \in Seq(Request) /\ EncodingUnderstood'
<1>1. r \in Request /\ r.by \in Callers /\ r.candidate \in 0..2
  BY DEF LinkInv, LinkTyped, Request
<1>2. r.candidate < Len(Encodings) => r.candidate + 1 \in 0..2
  BY <1>1 DEF Encodings
<1>3. queued' \in Seq(Request)
  <2>1. queued \in Seq(Request) /\ Append(queued, plain(r.by)) \in Seq(Request)
    BY <1>1, Queueing DEF LinkInv, LinkTyped
  <2>2. r.candidate < Len(Encodings) =>
          Append(queued, detection(r.by, r.candidate + 1)) \in Seq(Request)
    BY <1>1, <1>2, Queueing DEF LinkInv
  <2> QED
    BY <2>1, <2>2 DEF Answered
<1>4. EncodingUnderstood'
  <2>1. encoding # Unknown => encoding \in heard
    BY DEF LinkInv, EncodingUnderstood
  <2>2. CASE r.candidate > 0
    <3>1. encoding' = IF result = "ok" THEN Encodings[r.candidate] ELSE encoding
      BY <2>2 DEF Answered
    <3>2. written(r) = Encodings[r.candidate]
      BY <1>1, <2>2, Writing
    <3> QED
      BY <2>1, <3>1, <3>2 DEF EncodingUnderstood
  <2>3. CASE r.candidate = 0
    <3>1. UNCHANGED encoding
      BY <2>3 DEF Answered
    <3>2. encoding # Unknown => written(r) = encoding
      BY <1>1, <2>3, Writing
    <3> QED
      BY <2>1, <3>1, <3>2 DEF EncodingUnderstood
  <2> QED
    BY <1>1, <2>2, <2>3
<1> QED
  BY <1>3, <1>4

\* The request at the slot is done: the slot is free and its socket closed.
LEMMA DoneKeeps ==
  ASSUME LinkInv, NEW r \in slots, NEW result, Done(r, result), r.at = "socket",
         result = "ok" => written(r) \in understands
  PROVE  LinkInv'
<1>1. slots' = {} /\ sockets' = 0
  BY DEF Done, LinkInv, SlotIsOne, SocketIsTheSlots
<1>2. Answered(r, result) /\ heard' = IF result = "ok" THEN understands ELSE heard
  BY DEF Done
<1>3. queued' \in Seq(Request) /\ EncodingUnderstood'
  BY <1>2, AnsweredSettles
<1> QED
  BY <1>1, <1>3 DEF LinkInv, LinkTyped, SlotIsOne, SocketIsTheSlots

\* A reply says "ok" only in an encoding this Tally understands.
LEMMA RepliesKeeps == ASSUME LinkInv, NEW r \in slots, Replies(r) PROVE LinkInv'
<1>1. PICK result \in replies(r) : Done(r, result)
  BY DEF Replies
<1>2. result = "ok" => written(r) \in understands
  BY <1>1 DEF replies
<1> QED
  BY <1>1, <1>2, DoneKeeps DEF Replies

\* A timer's answer is no answer of Tally's.
LEMMA TimeoutKeeps == ASSUME LinkInv, NEW r \in slots, Timeout(r) PROVE LinkInv'
BY DoneKeeps DEF Timeout

\* A break closes the socket and keeps the slot for a second try, or ends the request.
LEMMA BreaksKeeps == ASSUME LinkInv, NEW r \in slots, Breaks(r) PROVE LinkInv'
<1>1. CASE Done(r, "network")
  BY <1>1, DoneKeeps DEF Breaks
<1>2. CASE /\ slots' = (slots \ {r}) \cup {[r EXCEPT !.at = "pausing"]}
           /\ sockets' = sockets - 1
           /\ UNCHANGED <<tallyVars, asked, known, queued, jobs>>
  <2> DEFINE p == [r EXCEPT !.at = "pausing"]
  <2>1. p \in Request /\ p.at = "pausing"
    BY DEF LinkInv, LinkTyped, Request
  <2>2. slots' = {p}
    BY <1>2 DEF LinkInv, SlotIsOne
  <2>3. sockets' = 0
    BY <1>2 DEF Breaks, LinkInv, SocketIsTheSlots
  <2> QED
    BY <1>2, <2>1, <2>2, <2>3
    DEF LinkInv, LinkTyped, SlotIsOne, SocketIsTheSlots, EncodingUnderstood, known
<1> QED
  BY <1>1, <1>2 DEF Breaks

\* The second try opens the one socket again.
LEMMA RetriesKeeps == ASSUME LinkInv, NEW r \in slots, Retries(r) PROVE LinkInv'
<1> DEFINE p == [r EXCEPT !.at = "socket", !.try = 2]
<1>1. p \in Request /\ p.at = "socket"
  <2>1. r \in Request
    BY DEF LinkInv, LinkTyped
  <2>2. PICK q : q = [r EXCEPT !.at = "socket"]
    OBVIOUS
  <2>3. q \in Request
    BY <2>1, <2>2 DEF Request
  <2>4. [q EXCEPT !.try = 2] \in Request
    BY <2>3 DEF Request
  <2>5. p = [q EXCEPT !.try = 2]
    BY <2>2
  <2>6. p.at = "socket"
    BY <2>1 DEF Request
  <2> QED
    BY <2>4, <2>5, <2>6
<1>2. slots' = {p}
  BY DEF Retries, LinkInv, SlotIsOne
<1>3. sockets' = 1
  BY DEF Retries, LinkInv, SlotIsOne, SocketIsTheSlots
<1> QED
  BY <1>1, <1>2, <1>3
  DEF Retries, LinkInv, LinkTyped, SlotIsOne, SocketIsTheSlots, EncodingUnderstood, known

\* Steps that leave the link's queue, slot and encoding alone.
LEMMA StillKeeps ==
  ASSUME LinkInv, UNCHANGED <<known, queued, slots, sockets>> PROVE LinkInv'
BY DEF LinkInv, LinkTyped, SlotIsOne, SocketIsTheSlots, EncodingUnderstood, known

\* Every step of the desktop keeps the link's invariant.
LEMMA NextKeeps == ASSUME LinkInv, [DesktopNext]_desktopVars PROVE LinkInv'
<1>1. CASE Schedules
  BY <1>1, StillKeeps DEF Schedules, linkVars
<1>2. CASE CycleAsks
  BY <1>2, StartJobKeeps, DesktopAssumption DEF CycleAsks
<1>3. CASE CycleReturns
  BY <1>3, StillKeeps DEF CycleReturns, linkVars
<1>4. CASE OthersAsk
  BY <1>4, StartJobKeeps DEF OthersAsk
<1>5. CASE Advances
  BY <1>5, OpensKeeps, TimeoutKeeps, RetriesKeeps DEF Advances
<1>6. CASE Answers
  BY <1>6, RepliesKeeps, BreaksKeeps DEF Answers
<1>7. CASE World
  BY <1>7, StillKeeps DEF World, TallyChanges
<1>8. CASE UNCHANGED desktopVars
  BY <1>8, StillKeeps DEF desktopVars, linkVars
<1> QED
  BY <1>1, <1>2, <1>3, <1>4, <1>5, <1>6, <1>7, <1>8 DEF DesktopNext

\* The link's invariant holds of every behaviour of the desktop.
LEMMA LinkInvariant == DesktopSpec => []LinkInv
<1>1. DesktopInit => LinkInv
  BY InitLinkInv DEF DesktopInit
<1>2. LinkInv /\ [DesktopNext]_desktopVars => LinkInv'
  BY NextKeeps
<1> QED
  BY <1>1, <1>2, PTL DEF DesktopSpec

\* "One request in flight to Tally", whoever asks and however often connections
\* break: the cycle, the dashboard and the wizard never hold two sockets.
THEOREM OneSocketEver == DesktopSpec => []OneSocket
<1>1. LinkInv => OneSocket
  BY DEF LinkInv, SocketIsTheSlots, OneSocket
<1> QED
  BY <1>1, LinkInvariant, PTL

\* The encoding cached for the process's life is one that the Tally which answered well last understands,
\* whatever is opened behind the port and with any number of callers settling it at once.
THEOREM EncodingAlwaysUnderstood == DesktopSpec => []EncodingUnderstood
<1>1. LinkInv => EncodingUnderstood
  BY DEF LinkInv
<1> QED
  BY <1>1, LinkInvariant, PTL
=============================================================================
