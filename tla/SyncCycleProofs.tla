-------------------------- MODULE SyncCycleProofs --------------------------
(***************************************************************************)
(* What TLAPS proves of the sync cycle for every number of companies,      *)
(* sections and days and every budget of disturbances.                     *)
(***************************************************************************)
EXTENDS SyncCycle, TLAPS

-----------------------------------------------------------------------------
(* Frames: a step that leaves a group of variables alone keeps its types.  *)

\* Tally, the calendar, the clock and the budget.
LEMMA WorldFrame ==
  WorldTypes /\ UNCHANGED <<tallyVars, clock, budget>> => WorldTypes'
BY DEF WorldTypes, tallyVars

\* The local store.
LEMMA StoreFrame == StoreTypes /\ UNCHANGED storeVars => StoreTypes'
BY DEF StoreTypes, storeVars

\* The network and the server.
LEMMA NetFrame == NetTypes /\ UNCHANGED netVars => NetTypes'
BY DEF NetTypes, netVars

\* The loop and the drain.
LEMMA LoopFrame == LoopTypes /\ UNCHANGED <<loopVars, drainVars>> => LoopTypes'
BY DEF LoopTypes, loopVars, drainVars

\* Where the cycle is.
LEMMA ControlFrame == Control /\ UNCHANGED <<pc, loopVars, drainVars>> => Control'
BY DEF Control, loopVars, drainVars

\* Spending from a budget leaves a budget.
LEMMA SpendType ==
  ASSUME WorldTypes, NEW kind, Spend(kind)
  PROVE  budget' \in [Disturbances -> Nat]
<1>1. CASE kind \in Disturbances
  BY <1>1 DEF WorldTypes, Spend
<1>2. CASE kind \notin Disturbances
  BY <1>2 DEF WorldTypes, Spend
<1> QED BY <1>1, <1>2

\* The initial state has the declared types.
LEMMA TypeInit == Init => TypeOK
<1> SUFFICES ASSUME Init PROVE TypeOK
  OBVIOUS
<1>1. WorldTypes
  BY BudgetAssumption, InstanceAssumption DEF Init, WorldTypes, TallyState, Days
<1>2. StoreTypes
  BY DEF Init, StoreTypes, OrNone
<1>3. NetTypes
  BY DEF Init, NetTypes, OrNone
<1>4. LoopTypes
  BY InstanceAssumption DEF Init, LoopTypes, OrNone, Days
<1>5. Control
  BY DEF Init, Control, PCs
<1> QED BY <1>1, <1>2, <1>3, <1>4, <1>5 DEF TypeOK

-----------------------------------------------------------------------------
(* The environment. *)

\* An edit leaves a state of Tally.
LEMMA EnteredType ==
  ASSUME WorldTypes, NEW c \in Companies, NEW m \in Nat, NEW v \in Nat,
         NEW S, NEW x \in Nat, Entered(c, m, v, S, x)
  PROVE  tally' \in [Companies -> TallyState]
<1>1. tally[c] \in TallyState
  BY DEF WorldTypes
<1>2. Rebook(c, S, x) \in [Sections -> Nat]
  BY <1>1 DEF TallyState, Rebook
<1>3. [mst |-> tally[c].mst + m, vch |-> tally[c].vch + v, book |-> Rebook(c, S, x)] \in TallyState
  BY <1>1, <1>2 DEF TallyState
<1> QED BY <1>3 DEF WorldTypes, Entered

\* The steps of the books.
LEMMA TypeBooks == TypeOK /\ Books => TypeOK'
<1> SUFFICES ASSUME TypeOK, NEW c \in Companies,
                    \/ VoucherEdit(c) \/ MasterEdit(c) \/ RevertEdit(c)
                    \/ DeleteVoucher(c) \/ TakeBackup(c) \/ RestoreBackup(c)
             PROVE  TypeOK'
  BY DEF Books
<1> USE DEF TypeOK
<1>1. UNCHANGED <<storeVars, netVars, pc, loopVars, drainVars>>
  BY DEF VoucherEdit, MasterEdit, RevertEdit, DeleteVoucher, TakeBackup, RestoreBackup
<1>2. stamp \in Nat
  BY DEF WorldTypes
<1>3. WorldTypes'
  <2>1. CASE VoucherEdit(c)
    <3>1. stamp' \in Nat BY <2>1, <1>2 DEF VoucherEdit
    <3>2. tally' \in [Companies -> TallyState]
      BY <2>1, <3>1, EnteredType DEF VoucherEdit
    <3> QED BY <2>1, <3>1, <3>2, SpendType DEF VoucherEdit, WorldTypes
  <2>2. CASE MasterEdit(c)
    <3>1. stamp' \in Nat BY <2>2, <1>2 DEF MasterEdit
    <3>2. tally' \in [Companies -> TallyState]
      BY <2>2, <3>1, EnteredType DEF MasterEdit
    <3> QED BY <2>2, <3>1, <3>2, SpendType DEF MasterEdit, WorldTypes
  <2>3. CASE RevertEdit(c)
    <3>1. PICK s \in VoucherShows, old \in 0 .. stamp : Entered(c, 0, 1, {s}, old)
      BY <2>3 DEF RevertEdit
    <3>2. tally' \in [Companies -> TallyState]
      BY <1>2, <3>1, EnteredType
    <3> QED BY <2>3, <3>2, SpendType DEF RevertEdit, WorldTypes
  <2>4. CASE DeleteVoucher(c)
    <3>1. stamp' \in Nat BY <2>4, <1>2 DEF DeleteVoucher
    <3>2. tally' \in [Companies -> TallyState]
      BY <2>4, <3>1, EnteredType DEF DeleteVoucher
    <3> QED BY <2>4, <3>1, <3>2, SpendType DEF DeleteVoucher, WorldTypes
  <2>5. CASE TakeBackup(c)
    BY <2>5, SpendType DEF TakeBackup, WorldTypes
  <2>6. CASE RestoreBackup(c)
    BY <2>6, SpendType DEF RestoreBackup, WorldTypes
  <2> QED BY <2>1, <2>2, <2>3, <2>4, <2>5, <2>6
<1> QED BY <1>1, <1>3, StoreFrame, NetFrame, LoopFrame, ControlFrame

\* The steps of the calendar, the clock and of Tally opening and closing.
LEMMA TypeWorld == TypeOK /\ World => TypeOK'
<1> SUFFICES ASSUME TypeOK, World PROVE TypeOK'
  OBVIOUS
<1> USE DEF TypeOK
<1>1. UNCHANGED <<storeVars, netVars, pc, loopVars, drainVars>>
  BY DEF World, CloseTally, OpenTally, Midnight, ClockStepsBack
<1>2. WorldTypes'
  <2>1. CASE CloseTally BY <2>1, SpendType DEF CloseTally, WorldTypes
  <2>2. CASE OpenTally BY <2>2 DEF OpenTally, WorldTypes
  <2>3. CASE Midnight
    <3>1. today' \in Days BY <2>3, InstanceAssumption DEF Midnight, WorldTypes, Days
    <3> QED BY <2>3, <3>1, SpendType DEF Midnight, WorldTypes
  <2>4. CASE ClockStepsBack
    <3>1. clock' \in Nat BY <2>4 DEF ClockStepsBack, WorldTypes
    <3> QED BY <2>4, <3>1, SpendType DEF ClockStepsBack, WorldTypes, tallyVars
  <2> QED BY <2>1, <2>2, <2>3, <2>4 DEF World
<1> QED BY <1>1, <1>2, StoreFrame, NetFrame, LoopFrame, ControlFrame

\* A backoff that runs out.
LEMMA TypeElapse == TypeOK /\ Elapse => TypeOK'
<1> SUFFICES ASSUME TypeOK, NEW k \in Keys, BackoffElapses(k) PROVE TypeOK'
  BY DEF Elapse
<1> USE DEF TypeOK
<1>1. UNCHANGED <<tallyVars, clock, budget, netVars, pc, loopVars, drainVars>>
  BY DEF BackoffElapses
<1>2. outbox' \in [Keys -> OrNone(Row)]
  <2>1. outbox[k] \in Row
    BY DEF BackoffElapses, StoreTypes, OrNone
  <2>2. Rescheduled(outbox[k], outbox[k].attempts, TRUE) \in Row
    BY <2>1 DEF Row, Rescheduled
  <2> QED BY <2>2 DEF BackoffElapses, StoreTypes, OrNone
<1>3. StoreTypes'
  BY <1>2 DEF BackoffElapses, StoreTypes
<1> QED BY <1>1, <1>3, WorldFrame, NetFrame, LoopFrame, ControlFrame

-----------------------------------------------------------------------------
(* The pull. *)

\* What a crash or a throw leaves has the declared types.
LEMMA UnwindType ==
  ASSUME Unwind PROVE LoopTypes' /\ Control'
<1>1. LoopTypes'
  BY InstanceAssumption DEF Unwind, LoopTypes, OrNone, Days
<1>2. Control'
  BY DEF Unwind, Control, PCs
<1> QED BY <1>1, <1>2

\* The section the loop is at is one that was pulled, and its key names a row.
LEMMA NextPulledType ==
  ASSUME TypeOK, pc \in {"sealing", "captured"}
  PROVE  /\ NextPulled \in Sections
         /\ pulled[NextPulled] \in Nat
         /\ cur \in Companies /\ probed[cur] # None
         /\ KeyOf(NextPulled) \in Keys
         /\ <<cur, NextPulled>> \in Slots
<1>1. NextPulled \in Sections /\ pulled[NextPulled] # None
  BY DEF TypeOK, Control, NextPulled
<1>2. cur \in Companies /\ probed[cur] # None
  BY DEF TypeOK, Control
<1>3. pulled[NextPulled] \in Nat
  BY <1>1 DEF TypeOK, LoopTypes, OrNone
<1>4. asOf \in Days
  BY DEF TypeOK, LoopTypes
<1> QED BY <1>1, <1>2, <1>3, <1>4 DEF KeyOf, Keys, Slots

\* A section done with.
LEMMA HandledType ==
  ASSUME TypeOK, pc \in {"sealing", "captured"}, Handled(NextPulled),
         UNCHANGED <<asOf, probed, cur, todo, drainVars>>
  PROVE  LoopTypes' /\ Control'
<1>1. NextPulled \in Sections /\ cur \in Companies /\ probed[cur] # None
  BY NextPulledType
<1>2. LoopTypes'
  BY <1>1 DEF TypeOK, LoopTypes, OrNone, Handled, drainVars
<1>3. CASE \E x \in Sections \ {NextPulled} : pulled[x] # None
  <2>1. PICK x \in Sections \ {NextPulled} : pulled[x] # None
    BY <1>3
  <2>2. pulled'[x] # None
    BY <1>1, <2>1 DEF TypeOK, LoopTypes, Handled
  <2>3. pc' = "sealing" /\ \E y \in Sections : pulled'[y] # None
    BY <1>3, <2>1, <2>2 DEF Handled
  <2>4. (cur \in Companies /\ probed[cur] # None)'
    BY <1>1
  <2>5. (\E y \in Sections : pulled[y] # None)'
    BY <2>3
  <2>6. pc' = "sealing"
    BY <2>3
  <2> QED BY <1>2, <2>4, <2>5, <2>6 DEF Control, PCs
<1>4. CASE ~\E x \in Sections \ {NextPulled} : pulled[x] # None
  <2>1. pc' = "marking"
    BY <1>4 DEF Handled
  <2>2. (cur \in Companies /\ probed[cur] # None)'
    BY <1>1
  <2> QED BY <1>2, <2>1, <2>2 DEF Control, PCs
<1> QED BY <1>2, <1>3, <1>4

\* The steps of the probe, the gate and the extraction.
LEMMA TypePull == TypeOK /\ Pull => TypeOK'
<1> SUFFICES ASSUME TypeOK, Pull PROVE TypeOK'
  OBVIOUS
<1>o. WorldTypes /\ StoreTypes /\ NetTypes /\ LoopTypes /\ Control
  BY DEF TypeOK
<1>q. ASSUME WorldTypes', StoreTypes', NetTypes', LoopTypes', Control' PROVE TypeOK'
  BY <1>q DEF TypeOK
<1>1. CASE StartCycle
  <2>1. LoopTypes' /\ Control'
    BY <1>o, <1>1 DEF StartCycle, WorldTypes, LoopTypes, Control, PCs, drainVars
  <2> QED BY <1>o, <1>q, <1>1, <2>1, WorldFrame, StoreFrame, NetFrame DEF StartCycle
<1>2. CASE Probe
  <2>1. probed' \in [Companies -> OrNone(TallyState)]
    BY <1>o, <1>2 DEF Probe, WorldTypes, LoopTypes, OrNone
  <2>2. LoopTypes' /\ Control'
    BY <1>o, <1>2, <2>1 DEF Probe, LoopTypes, Control, PCs, drainVars
  <2> QED BY <1>o, <1>q, <1>2, <2>2, WorldFrame, StoreFrame, NetFrame DEF Probe
<1>3. ASSUME NEW c \in Companies, GateSkips(c) PROVE TypeOK'
  <2>1. LoopTypes' /\ Control'
    BY <1>o, <1>3 DEF GateSkips, LoopTypes, OrNone, Control, drainVars
  <2> QED BY <1>o, <1>q, <1>3, <2>1, WorldFrame, StoreFrame, NetFrame DEF GateSkips
<1>4. ASSUME NEW c \in Companies, BeginPull(c)
      PROVE  WorldTypes' /\ NetTypes' /\ LoopTypes' /\ Control' /\ snapshots' = snapshots
  <2>1. LoopTypes' /\ Control'
    BY <1>o, <1>4 DEF BeginPull, LoopTypes, OrNone, Control, PCs, drainVars
  <2> QED BY <1>o, <1>4, <2>1, WorldFrame, NetFrame DEF BeginPull
<1>5. ASSUME NEW c \in Companies, GatePartial(c) PROVE TypeOK'
  <2>1. StoreTypes'
    BY <1>o, <1>4, <1>5 DEF GatePartial, StoreTypes
  <2> QED BY <1>q, <1>4, <1>5, <2>1 DEF GatePartial
<1>6. ASSUME NEW c \in Companies, GateFull(c) PROVE TypeOK'
  <2>1. StoreTypes'
    BY <1>o, <1>4, <1>6 DEF GateFull, Forget, StoreTypes, OrNone
  <2> QED BY <1>q, <1>4, <1>6, <2>1 DEF GateFull
<1>7. CASE Extract
  <2> DEFINE s == CHOOSE x \in todo : TRUE
             book == IF s = "company" THEN probed[cur].book ELSE tally[cur].book
  <2>1. s \in Sections /\ cur \in Companies /\ probed[cur] \in TallyState
    BY <1>o, <1>7 DEF Extract, LoopTypes, Control, OrNone
  <2>2. book[s] \in Nat
    BY <1>o, <2>1 DEF WorldTypes, TallyState
  <2>3. pulled' = [pulled EXCEPT ![s] = book[s]] /\ todo' = todo \ {s}
    BY <1>7 DEF Extract
  <2>4. LoopTypes'
    BY <1>o, <1>7, <2>1, <2>2, <2>3 DEF Extract, LoopTypes, OrNone, drainVars
  <2>5. Control'
    BY <1>o, <1>7 DEF Extract, Control
  <2> QED BY <1>o, <1>q, <1>7, <2>4, <2>5, WorldFrame, StoreFrame, NetFrame DEF Extract
<1>8. CASE Extracted
  <2>1. Control'
    BY <1>o, <1>8 DEF Extracted, Control, PCs, loopVars, drainVars
  <2> QED BY <1>o, <1>q, <1>8, <2>1, WorldFrame, StoreFrame, NetFrame, LoopFrame DEF Extracted
<1>9. CASE ExtractThrows
  BY <1>o, <1>q, <1>9, UnwindType, WorldFrame, StoreFrame, NetFrame DEF ExtractThrows
<1>10. CASE SectionUnchanged
  BY <1>o, <1>q, <1>10, HandledType, WorldFrame, StoreFrame, NetFrame DEF SectionUnchanged
<1>11. CASE Capture
  <2>1. WorldTypes'
    BY <1>o, <1>11 DEF Capture, WorldTypes, tallyVars
  <2>2. [asOf |-> asOf, content |-> pulled[NextPulled]] \in [asOf : Days, content : Nat]
    BY <1>o, <1>11, NextPulledType DEF Capture, LoopTypes
  <2>3. StoreTypes'
    BY <1>o, <1>11, <2>2, NextPulledType DEF Capture, StoreTypes, OrNone
  <2>4. Control'
    BY <1>o, <1>11 DEF Capture, Control, PCs, loopVars, drainVars
  <2> QED BY <1>o, <1>q, <1>11, <2>1, <2>3, <2>4, NetFrame, LoopFrame DEF Capture
<1>12. CASE Enqueue
  <2>1. KeyOf(NextPulled) \in Keys /\ pulled[NextPulled] \in Nat
    BY <1>12, NextPulledType DEF Enqueue
  <2>2. Upserted(outbox[KeyOf(NextPulled)], pulled[NextPulled]) \in Row
    BY <1>o, <2>1 DEF Upserted, Row, StoreTypes, WorldTypes, OrNone
  <2>3. outbox' = [outbox EXCEPT ![KeyOf(NextPulled)] =
                     Upserted(outbox[KeyOf(NextPulled)], pulled[NextPulled])]
    BY <1>12 DEF Enqueue
  <2>4. outbox' \in [Keys -> OrNone(Row)]
    BY <1>o, <2>2, <2>3 DEF StoreTypes, OrNone
  <2>5. StoreTypes'
    BY <1>o, <1>12, <2>4 DEF Enqueue, StoreTypes
  <2> QED BY <1>o, <1>q, <1>12, <2>5, HandledType, WorldFrame, NetFrame DEF Enqueue
<1>13. CASE SetWatermark
  <2>1. cur \in Companies /\ probed[cur] \in TallyState
    BY <1>o, <1>13 DEF SetWatermark, LoopTypes, Control, OrNone
  <2>2. Ids(cur, probed[cur]) \in [guid : Companies, mst : Nat, vch : Nat]
    BY <2>1 DEF Ids, AlterId, TallyState
  <2>3. StoreTypes'
    BY <1>o, <1>13, <2>2 DEF SetWatermark, StoreTypes, OrNone
  <2>4. LoopTypes' /\ Control'
    BY <1>o, <1>13, <2>1 DEF SetWatermark, LoopTypes, Control, PCs, OrNone, drainVars
  <2> QED BY <1>o, <1>q, <1>13, <2>3, <2>4, WorldFrame, NetFrame DEF SetWatermark
<1> QED BY <1>1, <1>2, <1>3, <1>5, <1>6, <1>7, <1>8, <1>9, <1>10, <1>11, <1>12, <1>13 DEF Pull

-----------------------------------------------------------------------------
(* The drain, the network and the machine. *)

\* While a row is in flight its fields are what due() read from the outbox.
LEMMA SentType ==
  ASSUME TypeOK, pc \in {"sending", "acking", "acked", "deferring", "dropping", "dropped"}
  PROVE  sent \in SentRow /\ sent.key \in Keys /\ Sent \in Upload
<1>1. sent \in SentRow
  BY DEF TypeOK, Control, LoopTypes, OrNone
<1> QED BY <1>1 DEF SentRow, Sent, Upload

\* An upload executed on the server.
LEMMA StoredType ==
  ASSUME NetTypes, NEW u \in Upload, storeSnapshot(u)
  PROVE  server' \in [Keys -> OrNone(Stored)]
<1>1. u.key \in Keys /\ [content |-> u.content, ts |-> u.ts] \in Stored
  BY DEF Upload, Stored
<1>2. server[u.key] \in OrNone(Stored)
  BY <1>1 DEF NetTypes
<1> QED BY <1>1, <1>2 DEF NetTypes, storeSnapshot, OrNone

\* An answer received.
LEMMA AnsweredType ==
  ASSUME TypeOK, NEW next \in {"acking", "deferring", "dropping"}, Answered(next)
  PROVE  StoreTypes' /\ LoopTypes' /\ Control'
<1>1. StoreTypes' /\ LoopTypes'
  BY StoreFrame, LoopFrame DEF Answered, TypeOK
<1>2. sent' \in SentRow
  BY DEF Answered, TypeOK, Control, drainVars
<1>3. Control'
  BY <1>2 DEF Answered, Control, PCs
<1> QED BY <1>1, <1>3

\* A row dequeued.
LEMMA DequeueType ==
  ASSUME TypeOK, pc \in {"acked", "dropping"}, dequeue
  PROVE  outbox' \in [Keys -> OrNone(Row)]
<1>1. sent.key \in Keys
  BY SentType
<1>2. outbox \in [Keys -> OrNone(Row)]
  BY DEF TypeOK, StoreTypes
<1> QED BY <1>1, <1>2 DEF dequeue, OrNone

\* The steps of the drain.
LEMMA TypeDrain == TypeOK /\ Drain => TypeOK'
<1> SUFFICES ASSUME TypeOK, Drain PROVE TypeOK'
  OBVIOUS
<1>o. WorldTypes /\ StoreTypes /\ NetTypes /\ LoopTypes /\ Control
  BY DEF TypeOK
<1>q. ASSUME WorldTypes', StoreTypes', NetTypes', LoopTypes', Control' PROVE TypeOK'
  BY <1>q DEF TypeOK
<1>d. ASSUME pc' = "draining", UNCHANGED <<loopVars, rows>>, sent' = None
      PROVE  LoopTypes' /\ Control'
  BY <1>o, <1>d DEF LoopTypes, loopVars, OrNone, Control, PCs
<1>1. CASE BeginDrain
  <2>1. PICK R \in SUBSET DueKeys : rows' = {RowAt(k) : k \in R}
    BY <1>1 DEF BeginDrain
  <2>2. \A k \in DueKeys : RowAt(k) \in SentRow
    BY <1>o DEF DueKeys, RowAt, StoreTypes, OrNone, Row, SentRow
  <2>3. rows' \subseteq SentRow
    BY <2>1, <2>2
  <2>4. LoopTypes' /\ Control'
    BY <1>o, <1>1, <2>3 DEF BeginDrain, LoopTypes, loopVars, Control, PCs
  <2> QED BY <1>o, <1>q, <1>1, <2>4, WorldFrame, StoreFrame, NetFrame DEF BeginDrain
<1>2. CASE SendNext
  <2>1. PICK r \in rows : sent' = r /\ rows' = rows \ {r}
    BY <1>2 DEF SendNext
  <2>2. r \in SentRow
    BY <1>o, <2>1 DEF LoopTypes
  <2>3. LoopTypes'
    BY <1>o, <1>2, <2>1, <2>2 DEF SendNext, LoopTypes, loopVars, OrNone
  <2>4. Control'
    BY <1>2, <2>1, <2>2 DEF SendNext, Control, PCs
  <2> QED BY <1>o, <1>q, <1>2, <2>3, <2>4, WorldFrame, StoreFrame, NetFrame DEF SendNext
<1>3. CASE UploadAccepted
  <2>1. NetTypes'
    BY <1>o, <1>3, SentType, StoredType DEF UploadAccepted, Answered, NetTypes
  <2> QED BY <1>o, <1>q, <1>3, <2>1, AnsweredType, WorldFrame DEF UploadAccepted, Answered
<1>4. CASE UploadStale
  BY <1>o, <1>q, <1>4, AnsweredType, WorldFrame, NetFrame DEF UploadStale, Answered
<1>5. CASE ackSectionHash
  <2>1. sent.key \in Keys /\ sent.content \in Nat /\ sent \in SentRow
    BY <1>5, SentType DEF ackSectionHash, SentRow
  <2>2. StoreTypes'
    BY <1>o, <1>5, <2>1 DEF ackSectionHash, StoreTypes, OrNone
  <2>3. Control'
    BY <1>o, <1>5, <2>1 DEF ackSectionHash, Control, PCs, drainVars
  <2> QED BY <1>o, <1>q, <1>5, <2>2, <2>3, WorldFrame, NetFrame, LoopFrame DEF ackSectionHash
<1>6. CASE DequeueAcked
  <2>1. StoreTypes'
    BY <1>o, <1>6, DequeueType DEF DequeueAcked, StoreTypes
  <2> QED BY <1>o, <1>q, <1>d, <1>6, <2>1, WorldFrame, NetFrame DEF DequeueAcked
<1>7. CASE deferAttempt
  <2>1. sent.key \in Keys
    BY <1>7, SentType DEF deferAttempt
  <2>2. outbox[sent.key] \in OrNone(Row)
    BY <1>o, <2>1 DEF StoreTypes
  <2>3. StillSent(outbox[sent.key]) =>
          Rescheduled(outbox[sent.key], outbox[sent.key].attempts + 1, FALSE) \in Row
    BY <2>2 DEF StillSent, Rescheduled, Row, OrNone
  <2>4. outbox' \in [Keys -> OrNone(Row)]
    BY <1>o, <1>7, <2>2, <2>3 DEF deferAttempt, StoreTypes, OrNone
  <2>5. StoreTypes'
    BY <1>o, <1>7, <2>4 DEF deferAttempt, StoreTypes
  <2> QED BY <1>o, <1>q, <1>d, <1>7, <2>5, WorldFrame, NetFrame DEF deferAttempt
<1>8. CASE DropRow
  <2>1. StoreTypes'
    BY <1>o, <1>8, DequeueType DEF DropRow, StoreTypes
  <2>2. Control'
    BY <1>o, <1>8 DEF DropRow, Control, PCs, drainVars
  <2> QED BY <1>o, <1>q, <1>8, <2>1, <2>2, WorldFrame, NetFrame, LoopFrame DEF DropRow
<1>9. CASE invalidateWatermark
  <2>1. StoreTypes'
    BY <1>o, <1>9 DEF invalidateWatermark, StoreTypes, OrNone
  <2> QED BY <1>o, <1>q, <1>d, <1>9, <2>1, WorldFrame, NetFrame DEF invalidateWatermark
<1>10. CASE EndCycle
  BY <1>o, <1>q, <1>10, UnwindType, WorldFrame, StoreFrame, NetFrame DEF EndCycle
<1> QED BY <1>1, <1>2, <1>3, <1>4, <1>5, <1>6, <1>7, <1>8, <1>9, <1>10 DEF Drain

\* The answers that fail, and the late uploads.
LEMMA TypeNetwork == TypeOK /\ Network => TypeOK'
<1> SUFFICES ASSUME TypeOK, Network PROVE TypeOK'
  OBVIOUS
<1>o. WorldTypes /\ StoreTypes /\ NetTypes /\ LoopTypes /\ Control
  BY DEF TypeOK
<1>q. ASSUME WorldTypes', StoreTypes', NetTypes', LoopTypes', Control' PROVE TypeOK'
  BY <1>q DEF TypeOK
<1>w. ASSUME NEW kind, Spend(kind), UNCHANGED <<tallyVars, clock>>
      PROVE  WorldTypes'
  BY <1>o, <1>w, SpendType DEF WorldTypes, tallyVars
<1>f. Failed \in {"dropping", "deferring"}
  BY DEF Failed
<1>1. CASE UploadRefused
  BY <1>o, <1>q, <1>w, <1>1, AnsweredType, NetFrame DEF UploadRefused, Answered
<1>2. CASE UploadUnreachable
  BY <1>o, <1>q, <1>w, <1>f, <1>2, AnsweredType, NetFrame DEF UploadUnreachable, Answered
<1>3. CASE AckLost
  <2>1. NetTypes'
    BY <1>o, <1>3, SentType, StoredType DEF AckLost, Answered, NetTypes
  <2> QED BY <1>q, <1>w, <1>f, <1>3, <2>1, AnsweredType DEF AckLost, Answered
<1>4. CASE UploadLate
  <2>1. NetTypes'
    BY <1>o, <1>4, SentType DEF UploadLate, Answered, NetTypes
  <2> QED BY <1>q, <1>w, <1>f, <1>4, <2>1, AnsweredType DEF UploadLate, Answered
<1>5. CASE LateArrival
  <2>1. PICK u \in late : late' = late \ {u} /\ storeSnapshot(u)
    BY <1>5 DEF LateArrival
  <2>2. u \in Upload
    BY <1>o, <2>1 DEF NetTypes
  <2>3. NetTypes'
    BY <1>o, <2>1, <2>2, StoredType DEF NetTypes
  <2> QED BY <1>o, <1>q, <1>5, <2>3, WorldFrame, StoreFrame, LoopFrame, ControlFrame DEF LateArrival
<1> QED BY <1>1, <1>2, <1>3, <1>4, <1>5 DEF Network

\* Crashes and repairs.
LEMMA TypeMachine == TypeOK /\ Machine => TypeOK'
<1> SUFFICES ASSUME TypeOK, Machine PROVE TypeOK'
  OBVIOUS
<1>o. WorldTypes /\ StoreTypes /\ NetTypes /\ LoopTypes /\ Control
  BY DEF TypeOK
<1>q. ASSUME WorldTypes', StoreTypes', NetTypes', LoopTypes', Control' PROVE TypeOK'
  BY <1>q DEF TypeOK
<1>w. ASSUME NEW kind, Spend(kind), UNCHANGED <<tallyVars, clock>>
      PROVE  WorldTypes'
  BY <1>o, <1>w, SpendType DEF WorldTypes, tallyVars
<1>1. CASE Crash
  <2>1. NetTypes'
    BY <1>o, <1>1, SentType DEF Crash, NetTypes
  <2> QED BY <1>o, <1>q, <1>w, <1>1, <2>1, UnwindType, StoreFrame DEF Crash
<1>2. CASE rebuildFromTally
  <2>1. StoreTypes'
    BY <1>2 DEF rebuildFromTally, StoreTypes, OrNone
  <2> QED BY <1>o, <1>q, <1>w, <1>2, <2>1, NetFrame, LoopFrame, ControlFrame DEF rebuildFromTally
<1>3. CASE RebuildFails
  <2>1. StoreTypes'
    BY <1>o, <1>3 DEF RebuildFails, StoreTypes, OrNone
  <2> QED BY <1>o, <1>q, <1>w, <1>3, <2>1, NetFrame, LoopFrame, ControlFrame DEF RebuildFails
<1> QED BY <1>1, <1>2, <1>3 DEF Machine

-----------------------------------------------------------------------------
(* The theorems. *)

\* Every variable keeps its type, and each stretch of the cycle is entered only
\* with the data it works on: a company the probe saw while pulling, a section
\* left to seal while sealing, a row while uploading (the loops of runCycle and
\* drainOutbox never dereference what is not there).
THEOREM TypeCorrect == Spec => []TypeOK
<1>1. TypeOK /\ [Next]_vars => TypeOK'
  <2> SUFFICES ASSUME TypeOK, [Next]_vars PROVE TypeOK'
    OBVIOUS
  <2>1. CASE Next
    BY <2>1, TypeBooks, TypeWorld, TypePull, TypeDrain, TypeNetwork, TypeMachine, TypeElapse
       DEF Next
  <2>2. CASE UNCHANGED vars
    BY <2>2, WorldFrame, StoreFrame, NetFrame, LoopFrame, ControlFrame DEF TypeOK, vars
  <2> QED BY <2>1, <2>2
<1> QED BY <1>1, TypeInit, PTL DEF Spec

\* The freshness floor holds for one upload, whichever step executes it.
LEMMA FreshnessFloor ==
  ASSUME TypeOK, NEW u \in Upload, storeSnapshot(u), NEW k \in Keys, server[k] # None
  PROVE  /\ server'[k] # None
         /\ server'[k].ts >= server[k].ts
         /\ server'[k].ts = server[k].ts => server'[k] = server[k]
<1>1. u.key \in Keys /\ u.content \in Nat /\ u.ts \in Nat
  BY DEF Upload
<1>2. server[k] \in Stored /\ server \in [Keys -> OrNone(Stored)]
  BY DEF TypeOK, NetTypes, OrNone
<1>3. CASE k = u.key /\ Fresh(u)
  <2>1. server'[k] = [content |-> u.content, ts |-> u.ts]
    BY <1>2, <1>3 DEF storeSnapshot
  <2>2. server'[k] \in Stored
    BY <1>1, <2>1 DEF Stored
  <2>3. server[k].ts < u.ts \/ (server[k].ts = u.ts /\ server[k].content = u.content)
    BY <1>3 DEF Fresh
  <2>4. server[k] = [content |-> server[k].content, ts |-> server[k].ts]
    BY <1>2 DEF Stored
  <2> QED BY <1>1, <1>2, <2>1, <2>2, <2>3, <2>4, NoneAssumption DEF Stored
<1>4. CASE ~(k = u.key /\ Fresh(u))
  <2>1. server'[k] = server[k]
    BY <1>1, <1>2, <1>4 DEF storeSnapshot
  <2> QED BY <1>2, <2>1 DEF Stored
<1> QED BY <1>3, <1>4

\* Only the answers of the server and a late arrival write the server's table.
LEMMA ServerWrites ==
  ASSUME TypeOK, [Next]_vars
  PROVE  UNCHANGED server \/ \E u \in Upload : storeSnapshot(u)
<1>1. CASE UploadAccepted
  BY <1>1, SentType DEF UploadAccepted, Answered
<1>2. CASE AckLost
  BY <1>2, SentType DEF AckLost, Answered
<1>3. CASE LateArrival
  BY <1>3 DEF LateArrival, TypeOK, NetTypes
<1>4. CASE Books
  BY <1>4 DEF Books, VoucherEdit, MasterEdit, RevertEdit, DeleteVoucher, TakeBackup,
              RestoreBackup, netVars
<1>5. CASE World \/ Elapse
  BY <1>5 DEF World, CloseTally, OpenTally, Midnight, ClockStepsBack, Elapse,
              BackoffElapses, netVars
<1>6. CASE Pull
  BY <1>6 DEF Pull, StartCycle, Probe, GateSkips, GatePartial, GateFull, BeginPull, Extract,
              Extracted, ExtractThrows, SectionUnchanged, Capture, Enqueue, SetWatermark, netVars
<1>7. CASE Drain /\ ~UploadAccepted
  BY <1>7 DEF Drain, BeginDrain, SendNext, UploadStale, ackSectionHash, DequeueAcked,
              deferAttempt, DropRow, invalidateWatermark, EndCycle, netVars
<1>8. CASE Network /\ ~AckLost /\ ~LateArrival
  BY <1>8 DEF Network, UploadRefused, UploadUnreachable, UploadLate, netVars
<1>9. CASE Machine
  BY <1>9 DEF Machine, Crash, rebuildFromTally, RebuildFails, netVars
<1>10. CASE UNCHANGED vars
  BY <1>10 DEF vars, netVars
<1> QED BY <1>1, <1>2, <1>3, <1>4, <1>5, <1>6, <1>7, <1>8, <1>9, <1>10 DEF Next

\* A stored snapshot is never replaced by an older one, nor by other content
\* under its own timestamp: not by a retry, not by an upload the Bridge had given
\* up on, not by a clock set back, in any order (the floor of handleIngest and of
\* storeSnapshot's upsert is enough by itself).
THEOREM NoRollback == Spec => ServerNeverRollsBack
<1> DEFINE Floor == \A k \in Keys : server[k] # None =>
                      /\ server'[k] # None
                      /\ server'[k].ts >= server[k].ts
                      /\ server'[k].ts = server[k].ts => server'[k] = server[k]
<1>1. TypeOK /\ [Next]_vars => Floor
  <2> SUFFICES ASSUME TypeOK, [Next]_vars, NEW k \in Keys, server[k] # None
               PROVE  /\ server'[k] # None
                      /\ server'[k].ts >= server[k].ts
                      /\ server'[k].ts = server[k].ts => server'[k] = server[k]
    OBVIOUS
  <2>1. CASE UNCHANGED server
    BY <2>1 DEF TypeOK, NetTypes, OrNone, Stored
  <2>2. CASE \E u \in Upload : storeSnapshot(u)
    BY <2>2, FreshnessFloor
  <2> QED BY <2>1, <2>2, ServerWrites
<1>2. Spec => [][Floor]_vars
  BY <1>1, TypeCorrect, PTL DEF Spec
<1> QED BY <1>2 DEF ServerNeverRollsBack

-----------------------------------------------------------------------------
(* The cycle implements the abstract table of the server. *)

\* One upload, whichever step executes it, fills its slot with something later,
\* or is the upload that is already there, or is turned away.
LEMMA UploadAdvances ==
  ASSUME TypeOK, NEW u \in Upload, storeSnapshot(u)
  PROVE  (\E k \in Keys : Table!Advance(k)) \/ UNCHANGED server
<1>1. u.key \in Keys /\ u.content \in Nat /\ u.ts \in Nat
  BY DEF Upload
<1>2. server \in [Keys -> OrNone(Stored)]
  BY DEF TypeOK, NetTypes
<1>3. CASE server'[u.key] = server[u.key]
  BY <1>1, <1>2, <1>3 DEF storeSnapshot
<1>4. CASE server'[u.key] # server[u.key]
  <2>1. \A j \in Keys \ {u.key} : server'[j] = server[j]
    BY <1>2 DEF storeSnapshot
  <2>2. server'[u.key] = [content |-> u.content, ts |-> u.ts]
    BY <1>1, <1>2, <1>4 DEF storeSnapshot
  <2>3. server'[u.key] # None
    <3>1. server'[u.key] \in Stored BY <1>1, <2>2 DEF Stored
    <3> QED BY <3>1, NoneAssumption
  <2>4. ASSUME server[u.key] # None PROVE server'[u.key].ts > server[u.key].ts
    <3>1. server[u.key] \in Stored /\ server'[u.key] \in Stored
      BY <1>1, <1>2, <2>2, <2>4 DEF OrNone, Stored
    <3>2. server'[u.key].ts >= server[u.key].ts /\ server'[u.key].ts # server[u.key].ts
      BY <1>1, <1>4, <2>4, FreshnessFloor
    <3> QED BY <3>1, <3>2 DEF Stored
  <2>5. Table!Advance(u.key)
    BY <2>1, <2>3, <2>4 DEF Table!Advance
  <2> QED BY <1>1, <2>5
<1> QED BY <1>3, <1>4

\* Whatever becomes of the answers, and whenever an upload arrives, what the
\* Bridge does to the server is what SnapshotTable allows: the rows start empty,
\* and each step leaves them alone or takes one slot forward in time.
THEOREM BridgeFillsTable == Spec => FillsTable
<1>1. Init => Table!TableInit
  BY DEF Init, Table!TableInit
<1>2. TypeOK /\ [Next]_vars => [\E k \in Keys : Table!Advance(k)]_server
  BY ServerWrites, UploadAdvances
<1> QED BY <1>1, <1>2, TypeCorrect, PTL DEF Spec, FillsTable, Table!TableSpec

-----------------------------------------------------------------------------
(***************************************************************************)
(* Why the owner is never shown a stale number under a green checkmark:    *)
(* what is acknowledged, queued, in flight and late fits together.  The    *)
(* parts of the invariant are proved one by one, each on top of those      *)
(* before it.                                                              *)
(***************************************************************************)

\* A step keeps every variable's type (the step of TypeCorrect).
LEMMA TypeStep == TypeOK /\ [Next]_vars => TypeOK'
<1>1. CASE Next
  BY <1>1, TypeBooks, TypeWorld, TypePull, TypeDrain, TypeNetwork, TypeMachine, TypeElapse DEF Next
<1>2. CASE UNCHANGED vars
  BY <1>2, WorldFrame, StoreFrame, NetFrame, LoopFrame, ControlFrame DEF TypeOK, vars
<1> QED BY <1>1, <1>2

-----------------------------------------------------------------------------
(* The stages of a cycle: what is empty in which stretch.                  *)

Pulling   == {"pulling", "sealing", "captured", "marking"}
Uploading == {"sending", "acking", "acked", "deferring", "dropping"}
Draining  == Uploading \cup {"draining", "dropped"}

\* A company is current, sections are left, rows are read and probes are kept only
\* in the stretches that use them.
Stages ==
  /\ pc \notin Pulling => cur = None
  /\ pc # "pulling" => todo = {}
  /\ pc \notin {"pulling", "sealing", "captured"} => \A s \in Sections : pulled[s] = None
  /\ pc \notin Draining => rows = {}
  /\ pc \notin Pulling \cup {"gating"} => \A c \in Companies : probed[c] = None
  /\ \A c \in Companies : watermark[c] # None => watermark[c].guid = c
  /\ asOf <= today

\* Nothing has happened in the initial state.
LEMMA InitStages == Init => Stages
BY DEF Init, Stages

\* A step that leaves the cycle and the watermarks alone leaves the stages alone.
LEMMA StagesFrame ==
  ASSUME Stages, UNCHANGED <<pc, loopVars, rows, watermark, today>>
  PROVE  Stages'
BY DEF Stages, loopVars, Pulling, Uploading, Draining

\* What a crash or a throw leaves is a cycle that has not begun.
LEMMA StagesUnwind ==
  ASSUME TypeOK, Stages, Unwind, UNCHANGED <<watermark, today>>
  PROVE  Stages'
<1>1. 0 <= today
  BY InstanceAssumption DEF TypeOK, WorldTypes, Days
<1> QED BY <1>1 DEF Unwind, Stages, Pulling, Uploading, Draining

\* Every step of the pull leaves the stages as the next stretch expects them.
LEMMA StagesPull == TypeOK /\ Stages /\ Pull => Stages'
<1> SUFFICES ASSUME TypeOK, Stages, Pull PROVE Stages'
  OBVIOUS
<1> USE DEF Pulling, Uploading, Draining
<1>1. CASE StartCycle
  BY <1>1 DEF StartCycle, Stages, TypeOK, WorldTypes, Days, tallyVars, storeVars, drainVars
<1>2. CASE Probe
  BY <1>2 DEF Probe, Stages, tallyVars, storeVars, drainVars
<1>3. ASSUME NEW c \in Companies, GateSkips(c) PROVE Stages'
  BY <1>3 DEF GateSkips, Stages, tallyVars, storeVars, drainVars
<1>4. ASSUME NEW c \in Companies, GatePartial(c) PROVE Stages'
  BY <1>4 DEF GatePartial, BeginPull, Stages, tallyVars, drainVars
<1>5. ASSUME NEW c \in Companies, GateFull(c) PROVE Stages'
  BY <1>5 DEF GateFull, BeginPull, Stages, tallyVars, drainVars, TypeOK, StoreTypes
<1>6. CASE Extract
  BY <1>6 DEF Extract, Stages, tallyVars, storeVars, drainVars
<1>7. CASE Extracted
  BY <1>7 DEF Extracted, Stages, tallyVars, storeVars, loopVars, drainVars
<1>8. CASE ExtractThrows
  BY <1>8, StagesUnwind DEF ExtractThrows, tallyVars, storeVars
<1>9. ASSUME pc \in {"sealing", "captured"}, Handled(NextPulled),
             UNCHANGED <<today, watermark, asOf, probed, cur, todo, rows>>
      PROVE  Stages'
  <2>1. NextPulled \in Sections
    BY <1>9, NextPulledType
  <2>2. CASE \E x \in Sections \ {NextPulled} : pulled[x] # None
    BY <1>9, <2>2 DEF Handled, Stages
  <2>3. CASE ~\E x \in Sections \ {NextPulled} : pulled[x] # None
    BY <1>9, <2>1, <2>3 DEF Handled, Stages, TypeOK, LoopTypes
  <2> QED BY <2>2, <2>3
<1>10. CASE SectionUnchanged
  BY <1>9, <1>10 DEF SectionUnchanged, tallyVars, storeVars, drainVars
<1>11. CASE Capture
  BY <1>11 DEF Capture, Stages, tallyVars, loopVars, drainVars
<1>12. CASE Enqueue
  BY <1>9, <1>12 DEF Enqueue, tallyVars, drainVars
<1>13. CASE SetWatermark
  <2>1. cur \in Companies /\ watermark' = [watermark EXCEPT ![cur] = Ids(cur, probed[cur])]
    BY <1>13 DEF SetWatermark, TypeOK, Control
  <2>2. \A c \in Companies : watermark'[c] # None => watermark'[c].guid = c
    BY <2>1 DEF Stages, Ids, TypeOK, StoreTypes
  <2> QED BY <1>13, <2>2 DEF SetWatermark, Stages, tallyVars, drainVars
<1> QED BY <1>1, <1>2, <1>3, <1>4, <1>5, <1>6, <1>7, <1>8, <1>10, <1>11, <1>12, <1>13 DEF Pull

\* So does every other step.
LEMMA StagesStep == TypeOK /\ Stages /\ [Next]_vars => Stages'
<1> SUFFICES ASSUME TypeOK, Stages, [Next]_vars PROVE Stages'
  OBVIOUS
<1> USE DEF Pulling, Uploading, Draining
<1>1. CASE Books
  BY <1>1, StagesFrame DEF Books, VoucherEdit, MasterEdit, RevertEdit, DeleteVoucher, TakeBackup,
                           RestoreBackup, storeVars, drainVars
<1>2. CASE World
  <2>1. UNCHANGED <<pc, loopVars, rows, watermark>>
    BY <1>2 DEF World, CloseTally, OpenTally, Midnight, ClockStepsBack, storeVars, drainVars
  <2>2. today <= today'
    BY <1>2 DEF World, CloseTally, OpenTally, Midnight, ClockStepsBack, tallyVars, TypeOK, WorldTypes, Days
  <2>3. asOf \in Int /\ today \in Int /\ today' \in Int
    BY TypeWorld, <1>2 DEF TypeOK, WorldTypes, LoopTypes, Days
  <2> QED BY <2>1, <2>2, <2>3 DEF Stages, loopVars
<1>3. CASE Pull
  BY <1>3, StagesPull
<1>4. CASE Drain
  <2>1. CASE EndCycle
    BY <2>1, StagesUnwind DEF EndCycle, tallyVars, storeVars
  <2>2. CASE BeginDrain
    BY <2>2 DEF BeginDrain, Stages, tallyVars, storeVars, loopVars
  <2>3. CASE SendNext \/ UploadAccepted \/ UploadStale \/ ackSectionHash \/ DequeueAcked \/ deferAttempt \/ DropRow
    BY <2>3 DEF SendNext, UploadAccepted, UploadStale, Answered, ackSectionHash, DequeueAcked, deferAttempt,
                DropRow, Stages, tallyVars, storeVars, loopVars, drainVars
  <2>4. CASE invalidateWatermark
    BY <2>4 DEF invalidateWatermark, Stages, tallyVars, loopVars, TypeOK, StoreTypes
  <2> QED BY <1>4, <2>1, <2>2, <2>3, <2>4 DEF Drain
<1>5. CASE Network
  BY <1>5 DEF Network, UploadRefused, UploadUnreachable, AckLost, UploadLate, LateArrival, Answered, Failed,
              Stages, tallyVars, storeVars, loopVars, drainVars
<1>6. CASE Machine
  <2>1. CASE Crash
    BY <2>1, StagesUnwind DEF Crash, tallyVars, storeVars
  <2>2. CASE rebuildFromTally
    BY <2>2 DEF rebuildFromTally, Stages, tallyVars, loopVars, drainVars
  <2>3. CASE RebuildFails
    BY <2>3, StagesFrame DEF RebuildFails, tallyVars, drainVars
  <2> QED BY <1>6, <2>1, <2>2, <2>3 DEF Machine
<1>7. CASE Elapse
  BY <1>7, StagesFrame DEF Elapse, BackoffElapses, tallyVars, drainVars
<1>8. CASE UNCHANGED vars
  BY <1>8, StagesFrame DEF vars, tallyVars, storeVars, drainVars
<1> QED BY <1>1, <1>2, <1>3, <1>4, <1>5, <1>6, <1>7, <1>8 DEF Next

-----------------------------------------------------------------------------
(* Who writes what. *)

\* The rows a drain has taken from the outbox and not answered for.
InFlight == rows \cup (IF pc \in Uploading THEN {sent} ELSE {})

\* They are rows, and there are none outside a drain.
LEMMA InFlightType ==
  ASSUME TypeOK, Stages
  PROVE  InFlight \subseteq SentRow /\ (pc \notin Draining => InFlight = {})
BY DEF InFlight, Uploading, Draining, Stages, TypeOK, LoopTypes, Control

\* A queued row is the row it was, but for its attempts and its delay.
OutboxKeeps ==
  \A k \in Keys : outbox'[k] # None =>
    outbox[k] # None /\ outbox'[k].content = outbox[k].content /\ outbox'[k].ts = outbox[k].ts

\* No budget grows.
LEMMA SpendLess ==
  ASSUME WorldTypes, NEW kind, Spend(kind)
  PROVE  \A j \in Disturbances : budget'[j] <= budget[j]
BY DEF WorldTypes, Spend

\* Whatever the step.
LEMMA BudgetStep ==
  ASSUME TypeOK, [Next]_vars
  PROVE  \A j \in Disturbances : budget'[j] <= budget[j]
<1> USE DEF TypeOK
<1>1. CASE UNCHANGED budget
  BY <1>1 DEF WorldTypes
<1>2. CASE \E kind : Spend(kind)
  BY <1>2, SpendLess
<1>3. UNCHANGED budget \/ \E kind : Spend(kind)
  <2>1. CASE Books \/ World
    BY <2>1 DEF Books, VoucherEdit, MasterEdit, RevertEdit, DeleteVoucher, TakeBackup, RestoreBackup,
                World, CloseTally, OpenTally, Midnight, ClockStepsBack
  <2>2. CASE Pull
    BY <2>2 DEF Pull, StartCycle, Probe, GateSkips, GatePartial, GateFull, BeginPull, Extract,
                Extracted, ExtractThrows, SectionUnchanged, Capture, Enqueue, SetWatermark
  <2>3. CASE Drain \/ Elapse
    BY <2>3 DEF Drain, BeginDrain, SendNext, UploadAccepted, UploadStale, ackSectionHash, DequeueAcked,
                deferAttempt, DropRow, invalidateWatermark, EndCycle, Elapse, BackoffElapses
  <2>4. CASE Network \/ Machine
    BY <2>4 DEF Network, UploadRefused, UploadUnreachable, AckLost, UploadLate, LateArrival,
                Machine, Crash, rebuildFromTally, RebuildFails
  <2>5. CASE UNCHANGED vars
    BY <2>5 DEF vars
  <2> QED BY <2>1, <2>2, <2>3, <2>4, <2>5 DEF Next
<1> QED BY <1>1, <1>2, <1>3

\* The clock is moved by a capture, and by whoever sets it back.
LEMMA ClockStep ==
  ASSUME [Next]_vars
  PROVE  UNCHANGED clock \/ Capture \/ (ClockStepsBack /\ budget["clockBack"] > 0)
<1>1. CASE Books \/ World
  BY <1>1 DEF Books, VoucherEdit, MasterEdit, RevertEdit, DeleteVoucher, TakeBackup, RestoreBackup,
              World, CloseTally, OpenTally, Midnight, ClockStepsBack, Spend
<1>2. CASE Pull
  BY <1>2 DEF Pull, StartCycle, Probe, GateSkips, GatePartial, GateFull, BeginPull, Extract,
              Extracted, ExtractThrows, SectionUnchanged, Enqueue, SetWatermark
<1>3. CASE Drain \/ Elapse
  BY <1>3 DEF Drain, BeginDrain, SendNext, UploadAccepted, UploadStale, Answered, ackSectionHash, DequeueAcked,
              deferAttempt, DropRow, invalidateWatermark, EndCycle, Elapse, BackoffElapses
<1>4. CASE Network \/ Machine
  BY <1>4 DEF Network, UploadRefused, UploadUnreachable, AckLost, UploadLate, LateArrival, Answered,
              Machine, Crash, rebuildFromTally, RebuildFails
<1>5. CASE UNCHANGED vars
  BY <1>5 DEF vars
<1> QED BY <1>1, <1>2, <1>3, <1>4, <1>5 DEF Next

\* An upload is late when the Bridge gives up on it, or dies on it.
LEMMA LateStep ==
  ASSUME [Next]_vars
  PROVE  \/ late' \subseteq late
         \/ /\ pc = "sending" /\ pc' # "captured" /\ UNCHANGED <<clock, outbox, watermark>>
            /\ late' = late \cup {Sent}
            /\ budget["late"] > 0 \/ budget["crash"] > 0
<1>1. CASE Books \/ World
  BY <1>1 DEF Books, VoucherEdit, MasterEdit, RevertEdit, DeleteVoucher, TakeBackup, RestoreBackup,
              World, CloseTally, OpenTally, Midnight, ClockStepsBack, netVars
<1>2. CASE Pull
  BY <1>2 DEF Pull, StartCycle, Probe, GateSkips, GatePartial, GateFull, BeginPull, Extract,
              Extracted, ExtractThrows, SectionUnchanged, Capture, Enqueue, SetWatermark, netVars
<1>3. CASE Drain \/ Elapse
  BY <1>3 DEF Drain, BeginDrain, SendNext, UploadAccepted, UploadStale, ackSectionHash, DequeueAcked,
              deferAttempt, DropRow, invalidateWatermark, EndCycle, Elapse, BackoffElapses, netVars
<1>4. CASE Network
  <2>1. CASE UploadLate
    BY <2>1 DEF UploadLate, Answered, Failed, Spend, storeVars
  <2>2. CASE ~UploadLate
    BY <1>4, <2>2 DEF Network, UploadRefused, UploadUnreachable, AckLost, LateArrival, netVars
  <2> QED BY <2>1, <2>2
<1>5. CASE Machine
  <2>1. CASE Crash
    BY <2>1 DEF Crash, Unwind, Spend, storeVars
  <2>2. CASE ~Crash
    BY <1>5, <2>2 DEF Machine, rebuildFromTally, RebuildFails, netVars
  <2> QED BY <2>1, <2>2
<1>6. CASE UNCHANGED vars
  BY <1>6 DEF vars, netVars
<1> QED BY <1>1, <1>2, <1>3, <1>4, <1>5, <1>6 DEF Next

\* Only BeginDrain takes rows from the outbox: the others pass them on or are done with them.
LEMMA InFlightStep ==
  ASSUME TypeOK, Stages, [Next]_vars
  PROVE  InFlight' \subseteq InFlight \/ BeginDrain
<1> USE DEF InFlight, Uploading
<1>1. CASE Books \/ World \/ Elapse
  BY <1>1 DEF Books, VoucherEdit, MasterEdit, RevertEdit, DeleteVoucher, TakeBackup, RestoreBackup,
              World, CloseTally, OpenTally, Midnight, ClockStepsBack, Elapse, BackoffElapses, drainVars
<1>2. CASE Pull
  BY <1>2 DEF Pull, StartCycle, Probe, GateSkips, GatePartial, GateFull, BeginPull, Extract,
              Extracted, ExtractThrows, SectionUnchanged, Capture, Enqueue, SetWatermark, Handled, Unwind, drainVars
<1>3. CASE SendNext
  BY <1>3 DEF SendNext
<1>4. CASE Drain /\ ~SendNext
  BY <1>4 DEF Drain, UploadAccepted, UploadStale, Answered, ackSectionHash, DequeueAcked,
              deferAttempt, DropRow, invalidateWatermark, EndCycle, Unwind, drainVars
<1>5. CASE Network
  BY <1>5 DEF Network, UploadRefused, UploadUnreachable, AckLost, UploadLate, LateArrival, Answered, drainVars
<1>6. CASE Machine
  BY <1>6 DEF Machine, Crash, rebuildFromTally, RebuildFails, Unwind, drainVars
<1>7. CASE UNCHANGED vars
  BY <1>7 DEF vars, drainVars
<1> QED BY <1>1, <1>2, <1>3, <1>4, <1>5, <1>6, <1>7 DEF Next

\* Only Enqueue puts content in the outbox.
LEMMA OutboxStep ==
  ASSUME TypeOK, [Next]_vars
  PROVE  OutboxKeeps \/ Enqueue
<1>o. outbox \in [Keys -> OrNone(Row)]
  BY DEF TypeOK, StoreTypes
<1> USE DEF OutboxKeeps
<1>1. CASE UNCHANGED outbox
  BY <1>1
<1>2. CASE \E c \in Companies : outbox' = Forget(outbox, c)
  BY <1>2, <1>o DEF Forget
<1>3. CASE outbox' = [k \in Keys |-> None]
  BY <1>3
<1>4. CASE pc \in Uploading /\ dequeue
  BY <1>4, <1>o DEF dequeue
<1>5. CASE deferAttempt
  BY <1>5, <1>o, NoneAssumption DEF deferAttempt, StillSent, Rescheduled
<1>6. ASSUME NEW k \in Keys, BackoffElapses(k) PROVE OutboxKeeps
  BY <1>6, <1>o DEF BackoffElapses, Rescheduled
<1>7. UNCHANGED outbox \/ (\E c \in Companies : outbox' = Forget(outbox, c)) \/ outbox' = [k \in Keys |-> None]
      \/ (pc \in Uploading /\ dequeue) \/ deferAttempt \/ Elapse \/ Enqueue
  <2>1. CASE Books \/ World
    BY <2>1 DEF Books, VoucherEdit, MasterEdit, RevertEdit, DeleteVoucher, TakeBackup, RestoreBackup,
                World, CloseTally, OpenTally, Midnight, ClockStepsBack, storeVars
  <2>2. CASE Pull
    BY <2>2 DEF Pull, StartCycle, Probe, GateSkips, GatePartial, GateFull, BeginPull, Extract,
                Extracted, ExtractThrows, SectionUnchanged, Capture, SetWatermark, storeVars
  <2>3. CASE Drain
    BY <2>3 DEF Drain, BeginDrain, SendNext, UploadAccepted, UploadStale, Answered, ackSectionHash, DequeueAcked,
                DropRow, invalidateWatermark, EndCycle, storeVars, Uploading
  <2>4. CASE Network \/ Machine
    BY <2>4 DEF Network, UploadRefused, UploadUnreachable, AckLost, UploadLate, LateArrival, Answered,
                Machine, Crash, rebuildFromTally, RebuildFails, storeVars
  <2>5. CASE UNCHANGED vars
    BY <2>5 DEF vars, storeVars
  <2> QED BY <2>1, <2>2, <2>3, <2>4, <2>5 DEF Next
<1> QED BY <1>1, <1>2, <1>3, <1>4, <1>5, <1>6, <1>7 DEF Elapse

\* The server executes the upload in flight, or a late one.
LEMMA ServerStep ==
  ASSUME TypeOK, [Next]_vars
  PROVE  \/ UNCHANGED server
         \/ pc = "sending" /\ storeSnapshot(Sent) /\ (UploadAccepted \/ AckLost)
         \/ LateArrival /\ \E u \in late : late' = late \ {u} /\ storeSnapshot(u)
<1>1. CASE UploadAccepted \/ AckLost
  BY <1>1 DEF UploadAccepted, AckLost, Answered
<1>2. CASE LateArrival
  BY <1>2 DEF LateArrival
<1>3. CASE Books \/ World \/ Elapse \/ UNCHANGED vars
  BY <1>3 DEF Books, VoucherEdit, MasterEdit, RevertEdit, DeleteVoucher, TakeBackup, RestoreBackup,
              World, CloseTally, OpenTally, Midnight, ClockStepsBack, Elapse, BackoffElapses, netVars, vars
<1>4. CASE Pull
  BY <1>4 DEF Pull, StartCycle, Probe, GateSkips, GatePartial, GateFull, BeginPull, Extract,
              Extracted, ExtractThrows, SectionUnchanged, Capture, Enqueue, SetWatermark, netVars
<1>5. CASE Drain /\ ~UploadAccepted
  BY <1>5 DEF Drain, BeginDrain, SendNext, UploadStale, ackSectionHash, DequeueAcked,
              deferAttempt, DropRow, invalidateWatermark, EndCycle, netVars
<1>6. CASE (Network \/ Machine) /\ ~AckLost /\ ~LateArrival
  BY <1>6 DEF Network, UploadRefused, UploadUnreachable, UploadLate,
              Machine, Crash, rebuildFromTally, RebuildFails, netVars
<1> QED BY <1>1, <1>2, <1>3, <1>4, <1>5, <1>6 DEF Next

\* A hash is kept, forgotten, or set by an acknowledgement.
LEMMA HashStep ==
  ASSUME TypeOK, [Next]_vars, NEW k \in Keys
  PROVE  \/ sectionHash'[k] \in {sectionHash[k], None}
         \/ ackSectionHash /\ k = sent.key /\ sectionHash'[k] = sent.content
<1>1. CASE Books \/ World \/ UNCHANGED vars \/ Elapse
  BY <1>1 DEF Books, VoucherEdit, MasterEdit, RevertEdit, DeleteVoucher, TakeBackup, RestoreBackup,
              World, CloseTally, OpenTally, Midnight, ClockStepsBack, Elapse, BackoffElapses, vars, storeVars
<1>2. CASE Pull
  BY <1>2 DEF Pull, StartCycle, Probe, GateSkips, GatePartial, GateFull, BeginPull, Extract, Forget,
              Extracted, ExtractThrows, SectionUnchanged, Capture, Enqueue, SetWatermark, storeVars
<1>3. CASE ackSectionHash
  BY <1>3 DEF ackSectionHash, TypeOK, StoreTypes
<1>4. CASE Drain /\ ~ackSectionHash
  BY <1>4 DEF Drain, BeginDrain, SendNext, UploadAccepted, UploadStale, Answered, DequeueAcked,
              deferAttempt, DropRow, invalidateWatermark, EndCycle, storeVars
<1>5. CASE Network \/ Machine
  BY <1>5 DEF Network, UploadRefused, UploadUnreachable, AckLost, UploadLate, LateArrival, Answered,
              Machine, Crash, rebuildFromTally, RebuildFails, storeVars
<1> QED BY <1>1, <1>2, <1>3, <1>4, <1>5 DEF Next

\* A watermark is kept until it is set at the end of a pull, or voided.
LEMMA WatermarkStep ==
  ASSUME TypeOK, [Next]_vars, NEW c \in Companies
  PROVE  \/ watermark'[c] \in {watermark[c], None}
         \/ /\ SetWatermark /\ c = cur /\ pc = "marking" /\ pc' = "gating"
            /\ watermark'[c] = Ids(c, probed[c]) /\ probed'[c] = None
<1>1. CASE Books \/ World \/ UNCHANGED vars \/ Elapse
  BY <1>1 DEF Books, VoucherEdit, MasterEdit, RevertEdit, DeleteVoucher, TakeBackup, RestoreBackup,
              World, CloseTally, OpenTally, Midnight, ClockStepsBack, Elapse, BackoffElapses, vars, storeVars
<1>2. CASE SetWatermark
  BY <1>2 DEF SetWatermark, TypeOK, StoreTypes, LoopTypes
<1>3. CASE Pull /\ ~SetWatermark
  BY <1>3 DEF Pull, StartCycle, Probe, GateSkips, GatePartial, GateFull, BeginPull, Extract, TypeOK, StoreTypes,
              Extracted, ExtractThrows, SectionUnchanged, Capture, Enqueue, storeVars
<1>4. CASE Drain
  BY <1>4 DEF Drain, BeginDrain, SendNext, UploadAccepted, UploadStale, Answered, ackSectionHash, DequeueAcked,
              deferAttempt, DropRow, invalidateWatermark, EndCycle, storeVars, TypeOK, StoreTypes
<1>5. CASE Network \/ Machine
  BY <1>5 DEF Network, UploadRefused, UploadUnreachable, AckLost, UploadLate, LateArrival, Answered,
              Machine, Crash, rebuildFromTally, RebuildFails, storeVars
<1> QED BY <1>1, <1>2, <1>3, <1>4, <1>5 DEF Next

\* A pull that goes on is the pull of the same company; one that begins is given its
\* watermark by the gate.
LEMMA PullingStep ==
  ASSUME TypeOK, [Next]_vars, pc' \in Pulling
  PROVE  \/ pc \in Pulling /\ cur' = cur /\ probed' = probed /\ watermark'[cur] \in {watermark[cur], None}
         \/ \E c \in Companies :
              /\ GatePartial(c) \/ GateFull(c)
              /\ pc = "gating" /\ pc' = "pulling" /\ cur' = c /\ probed' = probed
<1> USE DEF Pulling
<1>1. CASE Books \/ World \/ UNCHANGED vars \/ Elapse
  BY <1>1 DEF Books, VoucherEdit, MasterEdit, RevertEdit, DeleteVoucher, TakeBackup, RestoreBackup,
              World, CloseTally, OpenTally, Midnight, ClockStepsBack, Elapse, BackoffElapses, vars, loopVars, storeVars
<1>2. CASE Pull
  BY <1>2 DEF Pull, StartCycle, Probe, GateSkips, GatePartial, GateFull, BeginPull, Extract, Unwind,
              Extracted, ExtractThrows, SectionUnchanged, Capture, Enqueue, SetWatermark, Handled, loopVars, storeVars
<1>4. CASE Drain
  BY <1>4 DEF Drain, BeginDrain, SendNext, UploadAccepted, UploadStale, Answered, ackSectionHash, DequeueAcked,
              deferAttempt, DropRow, invalidateWatermark, EndCycle, Unwind
<1>5. CASE Network
  BY <1>5 DEF Network, UploadRefused, UploadUnreachable, AckLost, UploadLate, LateArrival, Answered, Failed,
              storeVars, loopVars
<1>6. CASE Machine
  <2>1. cur \in Companies \/ pc \notin Pulling
    BY DEF TypeOK, Control
  <2> QED BY <1>6, <2>1 DEF Machine, Crash, Unwind, rebuildFromTally, RebuildFails, loopVars
<1> QED BY <1>1, <1>2, <1>4, <1>5, <1>6 DEF Next

\* The outbox is written by these steps only.
LEMMA OutboxWrites ==
  ASSUME [Next]_vars
  PROVE  \/ UNCHANGED outbox
         \/ /\ UNCHANGED <<server, late>>
            /\ \/ \E c \in Companies : GateFull(c)
               \/ Enqueue \/ deferAttempt \/ Elapse \/ DequeueAcked \/ DropRow \/ rebuildFromTally
<1>1. CASE Books
  BY <1>1 DEF Books, VoucherEdit, MasterEdit, RevertEdit, DeleteVoucher, TakeBackup, RestoreBackup, storeVars
<1>2. CASE World
  BY <1>2 DEF World, CloseTally, OpenTally, Midnight, ClockStepsBack, storeVars
<1>3. CASE Pull
  BY <1>3 DEF Pull, StartCycle, Probe, GateSkips, GatePartial, GateFull, BeginPull, Extract, Extracted,
     ExtractThrows, SectionUnchanged, Capture, Enqueue, SetWatermark, storeVars, netVars
<1>4. CASE Drain
  BY <1>4 DEF Drain, BeginDrain, SendNext, UploadAccepted, UploadStale, ackSectionHash, DequeueAcked,
     deferAttempt, DropRow, invalidateWatermark, EndCycle, Answered, storeVars, netVars
<1>5. CASE Network
  BY <1>5 DEF Network, UploadRefused, UploadUnreachable, AckLost, UploadLate, LateArrival, Answered, storeVars
<1>6. CASE Machine
  BY <1>6 DEF Machine, Crash, rebuildFromTally, RebuildFails, storeVars, netVars
<1>7. CASE Elapse
  BY <1>7 DEF Elapse, BackoffElapses, netVars
<1>8. CASE UNCHANGED vars
  BY <1>8 DEF vars, storeVars
<1> QED BY <1>1, <1>2, <1>3, <1>4, <1>5, <1>6, <1>7, <1>8 DEF Next

-----------------------------------------------------------------------------
(* Rows in flight and late uploads, next to the outbox.                    *)

\* A row in flight is still the row of the outbox, if that one is still there.
Taken ==
  /\ \A r \in InFlight : outbox[r.key] # None =>
       outbox[r.key].content = r.content /\ outbox[r.key].ts = r.ts
  /\ \A r, q \in InFlight : r.key = q.key => r = q
  /\ pc \in Uploading => sent \notin rows

\* Nothing is in flight in the initial state.
LEMMA InitTaken == Init => Taken
BY DEF Init, Taken, InFlight, Uploading

\* Nothing is enqueued during a drain, and one row is taken of each key.
LEMMA TakenStep ==
  ASSUME TypeOK, Stages, Taken, [Next]_vars
  PROVE  Taken'
<1>1. CASE InFlight = {} /\ ~BeginDrain
  <2>1. InFlight' = {}
    BY <1>1, InFlightStep
  <2>2. pc' \notin Uploading
    BY <2>1 DEF InFlight
  <2> QED BY <2>1, <2>2 DEF Taken
<1>2. CASE BeginDrain
  <2>1. PICK R \in SUBSET DueKeys : rows' = {RowAt(k) : k \in R}
    BY <1>2 DEF BeginDrain
  <2>2. pc' = "draining" /\ outbox' = outbox
    BY <1>2 DEF BeginDrain, storeVars
  <2>3. InFlight' = {RowAt(k) : k \in R}
    BY <2>1, <2>2 DEF InFlight, Uploading
  <2>4. \A k \in R : RowAt(k).key = k /\ RowAt(k).content = outbox[k].content /\ RowAt(k).ts = outbox[k].ts
    BY DEF RowAt
  <2> QED BY <2>2, <2>3, <2>4 DEF Taken, Uploading
<1>3. CASE InFlight # {} /\ ~BeginDrain
  <2>1. InFlight' \subseteq InFlight /\ InFlight \subseteq SentRow /\ pc \in Draining
    BY <1>3, InFlightStep, InFlightType
  <2>2. OutboxKeeps
    BY <2>1, OutboxStep DEF Enqueue, Draining, Uploading
  <2>3. \A r \in InFlight' : r.key \in Keys
    BY <2>1 DEF SentRow
  <2>4. (\A r \in InFlight : outbox[r.key] # None => outbox[r.key].content = r.content /\ outbox[r.key].ts = r.ts)'
    BY <2>1, <2>2, <2>3 DEF Taken, OutboxKeeps
  <2>5. (pc \in Uploading => sent \notin rows)'
    <3>1. CASE UNCHANGED <<rows, sent>> /\ pc \in Uploading
      BY <3>1 DEF Taken
    <3>2. CASE SendNext
      BY <3>2 DEF SendNext
    <3>3. CASE pc' \notin Uploading
      BY <3>3
    <3>4. (UNCHANGED <<rows, sent>> /\ pc \in Uploading) \/ SendNext \/ pc' \notin Uploading
      <4>1. CASE Books \/ World \/ Elapse
        BY <4>1 DEF Books, VoucherEdit, MasterEdit, RevertEdit, DeleteVoucher, TakeBackup, RestoreBackup,
              World, CloseTally, OpenTally, Midnight, ClockStepsBack, Elapse, BackoffElapses, drainVars
      <4>2. CASE Pull
        BY <2>1, <4>2 DEF Draining, Uploading, Pull, StartCycle, Probe, GateSkips, GatePartial, GateFull, BeginPull, Extract,
              Extracted, ExtractThrows, SectionUnchanged, Capture, Enqueue, SetWatermark
      <4>3. CASE Drain
        BY <1>3, <4>3 DEF Drain, UploadAccepted, UploadStale, Answered, ackSectionHash, DequeueAcked,
              deferAttempt, DropRow, invalidateWatermark, EndCycle, Unwind, drainVars, Uploading
      <4>4. CASE Network \/ Machine
        BY <4>4 DEF Network, UploadRefused, UploadUnreachable, AckLost, UploadLate, LateArrival, Answered, 
              Machine, Crash, rebuildFromTally, RebuildFails, Unwind, drainVars, Uploading
      <4>5. CASE UNCHANGED vars
        BY <4>5 DEF vars, drainVars
      <4> QED BY <4>1, <4>2, <4>3, <4>4, <4>5 DEF Next
    <3> QED BY <3>1, <3>2, <3>3, <3>4
  <2> QED BY <2>1, <2>4, <2>5 DEF Taken
<1> QED BY <1>1, <1>2, <1>3

\* What Enqueue does to the outbox: one row, stamped with the clock.
LEMMA Enqueued ==
  ASSUME TypeOK, Enqueue
  PROVE  \A k \in Keys :
           IF k = KeyOf(NextPulled)
           THEN outbox'[k] # None /\ outbox'[k].content = pulled[NextPulled] /\ outbox'[k].ts = clock
           ELSE outbox'[k] = outbox[k]
<1> DEFINE k == KeyOf(NextPulled)
           row == Upserted(outbox[k], pulled[NextPulled])
<1>1. k \in Keys /\ pulled[NextPulled] \in Nat
  BY NextPulledType DEF Enqueue
<1>2. outbox \in [Keys -> OrNone(Row)] /\ clock \in Nat
  BY DEF TypeOK, StoreTypes, WorldTypes
<1>3. outbox[k] = None \/ outbox[k] \in Row
  BY <1>1, <1>2 DEF OrNone
<1>4. row \in Row /\ row.content = pulled[NextPulled] /\ row.ts = clock
  BY <1>1, <1>2, <1>3 DEF Upserted, Row
<1>5. row # None
  BY <1>4, NoneAssumption
<1>6. outbox' = [outbox EXCEPT ![k] = row]
  BY DEF Enqueue
<1> HIDE DEF row
<1> QED BY <1>1, <1>2, <1>4, <1>5, <1>6

\* The row sent is in flight, and no other row in flight has its key.
LEMMA SentInFlight ==
  ASSUME TypeOK, Stages, Taken, pc \in Uploading
  PROVE  /\ sent \in InFlight /\ sent \in SentRow /\ sent.key \in Keys /\ Sent \in Upload
         /\ Sent.key = sent.key /\ Sent.content = sent.content /\ Sent.ts = sent.ts
         /\ Company(sent.key) \in Companies
         /\ \A r \in rows : r \in SentRow /\ r \in InFlight /\ r.key # sent.key
<1>1. sent \in SentRow /\ sent.key \in Keys /\ Sent \in Upload
  BY SentType DEF Uploading
<1>2. sent \in InFlight /\ rows \subseteq InFlight /\ InFlight \subseteq SentRow
  BY InFlightType DEF InFlight
<1>3. \A r \in rows : r.key # sent.key
  BY <1>2 DEF Taken
<1> QED BY <1>1, <1>2, <1>3 DEF Sent, Keys, Company

\* A row in flight that has left the outbox belongs to a company that was forgotten,
\* and nothing of it is acknowledged but the row itself; a pull without a watermark is
\* one whose hashes are void.
Linked ==
  /\ \A r \in InFlight :
        \/ outbox[r.key] # None
        \/ /\ watermark[Company(r.key)] = None
           /\ sectionHash[r.key] = None \/ (pc = "acked" /\ r = sent)
  /\ pc \in Pulling => watermark[cur] # None \/ \A k \in Keys : Company(k) = cur => sectionHash[k] = None

\* Nothing is in flight in the initial state.
LEMMA InitLinked == Init => Linked
BY DEF Init, Linked, InFlight, Pulling, Uploading

\* An acknowledged row is dequeued, or lost in a crash.
LEMMA AckedStep ==
  ASSUME TypeOK, Stages, Taken, [Next]_vars, pc = "acked"
  PROVE  UNCHANGED <<pc, sent>> \/ sent \notin InFlight'
<1>1. CASE DequeueAcked
  <2>1. pc' = "draining" /\ rows' = rows
    BY <1>1 DEF DequeueAcked
  <2>2. sent \notin rows
    BY DEF Taken, Uploading
  <2> QED BY <2>1, <2>2 DEF InFlight, Uploading
<1>2. CASE Crash
  BY <1>2 DEF Crash, Unwind, InFlight, Uploading
<1>3. CASE ~DequeueAcked /\ ~Crash
  BY <1>3 DEF Next, Books, VoucherEdit, MasterEdit, RevertEdit, DeleteVoucher, TakeBackup,
     RestoreBackup, World, CloseTally, OpenTally, Midnight, ClockStepsBack, Pull, StartCycle, Probe, GateSkips,
     GatePartial, GateFull, BeginPull, Extract, Extracted, ExtractThrows, SectionUnchanged, Capture, Enqueue,
     SetWatermark, Drain, BeginDrain, SendNext, UploadAccepted, UploadStale, ackSectionHash,
     deferAttempt, DropRow, invalidateWatermark, EndCycle, Network, UploadRefused, UploadUnreachable, AckLost,
     UploadLate, LateArrival, Answered, Machine, rebuildFromTally, RebuildFails, Elapse,
     BackoffElapses, vars, drainVars
<1> QED BY <1>1, <1>2, <1>3

\* A row leaves the outbox when it is answered for, or when its company is forgotten.
LEMMA QueuedStep ==
  ASSUME TypeOK, Stages, Taken, [Next]_vars, NEW r \in InFlight, r \in InFlight', outbox[r.key] # None
  PROVE  outbox'[r.key] # None \/ rebuildFromTally
<1>t. /\ r \in SentRow /\ r.key \in Keys /\ outbox[r.key] \in Row /\ outbox \in [Keys -> OrNone(Row)]
      /\ (\A w \in Row : w # None) /\ pc \in Draining
  BY InFlightType, NoneAssumption DEF TypeOK, StoreTypes, OrNone, SentRow
<1> USE DEF Uploading, Draining
<1>1. CASE UNCHANGED outbox
  BY <1>1
<1>2. ASSUME NEW c \in Companies, GateFull(c) PROVE FALSE
  BY <1>2, <1>t DEF GateFull, BeginPull
<1>3. CASE Enqueue
  BY <1>3, <1>t DEF Enqueue
<1>4. CASE deferAttempt \/ Elapse
  <2>1. outbox'[r.key] \in {outbox[r.key], Rescheduled(outbox[r.key], outbox[r.key].attempts + 1, FALSE),
                            Rescheduled(outbox[r.key], outbox[r.key].attempts, TRUE)}
    BY <1>4, <1>t DEF deferAttempt, Elapse, BackoffElapses
  <2>2. /\ Rescheduled(outbox[r.key], outbox[r.key].attempts + 1, FALSE) \in Row
        /\ Rescheduled(outbox[r.key], outbox[r.key].attempts, TRUE) \in Row
    BY <1>t DEF Rescheduled, Row
  <2> QED BY <1>t, <2>1, <2>2
<1>5. CASE DequeueAcked \/ DropRow
  <2>1. InFlight' = rows /\ pc \in Uploading
    BY <1>5 DEF DequeueAcked, DropRow, InFlight, drainVars
  <2>2. r.key # sent.key
    BY <2>1, SentInFlight
  <2> QED BY <1>5, <1>t, <2>2 DEF DequeueAcked, DropRow, dequeue
<1> QED BY <1>1, <1>2, <1>3, <1>4, <1>5, OutboxWrites

\* Whatever happens keeps what is in flight linked to what it was taken from.
LEMMA LinkedStep ==
  ASSUME TypeOK, Stages, Taken, Linked, [Next]_vars
  PROVE  Linked'
<1>1. ASSUME NEW r \in InFlight'
      PROVE  \/ outbox'[r.key] # None
             \/ /\ watermark'[Company(r.key)] = None
                /\ sectionHash'[r.key] = None \/ (pc' = "acked" /\ r = sent')
  <2>1. CASE BeginDrain
    <3>1. UNCHANGED outbox /\ pc' = "draining"
      BY <2>1 DEF BeginDrain, storeVars
    <3>2. PICK R \in SUBSET DueKeys : rows' = {RowAt(k) : k \in R}
      BY <2>1 DEF BeginDrain
    <3>3. InFlight' = {RowAt(k) : k \in R}
      BY <3>1, <3>2 DEF InFlight, Uploading
    <3> QED BY <3>1, <3>3 DEF RowAt, DueKeys
  <2>2. CASE r \in InFlight
    <3>t. r \in SentRow /\ r.key \in Keys /\ Company(r.key) \in Companies /\ pc \in Draining
      BY <2>2, InFlightType DEF SentRow, Keys, Company
    <3>1. CASE rebuildFromTally
      BY <3>1, <3>t DEF rebuildFromTally
    <3>2. CASE outbox[r.key] # None /\ ~rebuildFromTally
      BY <2>2, <3>2, QueuedStep
    <3>3. CASE outbox[r.key] = None
      <4>1. watermark[Company(r.key)] = None /\ (sectionHash[r.key] = None \/ (pc = "acked" /\ r = sent))
        BY <2>2, <3>3 DEF Linked
      <4>2. watermark'[Company(r.key)] = None
        BY <3>t, <4>1, WatermarkStep DEF Draining, Uploading
      <4>3. CASE pc = "acked" /\ r = sent
        BY <4>2, <4>3, AckedStep
      <4>4. CASE sectionHash[r.key] = None
        <5>1. CASE sectionHash'[r.key] = None
          BY <4>2, <5>1
        <5>2. CASE ackSectionHash /\ r.key = sent.key
          <6>1. pc' = "acked" /\ sent' = sent /\ sent \in InFlight
            BY <5>2, SentInFlight DEF ackSectionHash, drainVars, Uploading
          <6>2. r = sent
            BY <2>2, <5>2, <6>1 DEF Taken
          <6> QED BY <4>2, <6>1, <6>2
        <5> QED BY <3>t, <4>4, <5>1, <5>2, HashStep
      <4> QED BY <4>1, <4>3, <4>4
    <3> QED BY <3>1, <3>2, <3>3
  <2> QED BY <2>1, <2>2, InFlightStep
<1>2. pc' \in Pulling => watermark'[cur'] # None \/ \A k \in Keys : Company(k) = cur' => sectionHash'[k] = None
  <2> SUFFICES ASSUME pc' \in Pulling
               PROVE  watermark'[cur'] # None \/ \A k \in Keys : Company(k) = cur' => sectionHash'[k] = None
    OBVIOUS
  <2>1. CASE pc \in Pulling /\ cur' = cur
    <3>1. CASE rebuildFromTally
      BY <3>1 DEF rebuildFromTally
    <3>2. CASE ~rebuildFromTally
      <4>0. cur \in Companies
        BY <2>1 DEF TypeOK, Control, Pulling
      <4>1. watermark'[cur] = watermark[cur]
        BY <2>1, <3>2, <4>0 DEF Next, Books, VoucherEdit, MasterEdit, RevertEdit, DeleteVoucher, TakeBackup,
     RestoreBackup, World, CloseTally, OpenTally, Midnight, ClockStepsBack, Pull, StartCycle, Probe, GateSkips,
     GatePartial, GateFull, BeginPull, Extract, Extracted, ExtractThrows, SectionUnchanged, Capture, Enqueue,
     SetWatermark, Drain, BeginDrain, SendNext, UploadAccepted, UploadStale, ackSectionHash, DequeueAcked,
     deferAttempt, DropRow, invalidateWatermark, EndCycle, Network, UploadRefused, UploadUnreachable, AckLost,
     UploadLate, LateArrival, Answered, Machine, Crash, RebuildFails, Elapse,
     BackoffElapses, vars, storeVars, Pulling
      <4>2. \A k \in Keys : sectionHash'[k] \in {sectionHash[k], None}
        BY <2>1, HashStep DEF ackSectionHash, Pulling
      <4> QED BY <2>1, <4>1, <4>2 DEF Linked
    <3> QED BY <3>1, <3>2
  <2>2. ASSUME NEW c \in Companies, GatePartial(c), cur' = c PROVE watermark'[cur'] # None
    BY <2>2 DEF GatePartial, Decision, decideGate, getWatermark, Void, Full
  <2>3. ASSUME NEW c \in Companies, GateFull(c), cur' = c
        PROVE  \A k \in Keys : Company(k) = cur' => sectionHash'[k] = None
    BY <2>3 DEF GateFull, Forget
  <2> QED BY <2>1, <2>2, <2>3, PullingStep
<1> QED BY <1>1, <1>2 DEF Linked

\* u is an older upload than v, or the same one again.
NotNewer(u, v) == u.ts < v.ts \/ (u.ts = v.ts /\ u.content = v.content)

\* No upload is late, and none will be.
NothingLate == late = {} /\ budget["late"] = 0 /\ budget["crash"] = 0

\* The clock only goes forward, so what is late is older than what is queued.
InTime ==
  /\ budget["clockBack"] = 0
  /\ \A k \in Keys : outbox[k] # None => outbox[k].ts <= clock
  /\ \A r \in InFlight : r.ts <= clock
  /\ \A u \in late :
       /\ u.ts <= clock /\ (pc = "captured" => u.ts < clock)
       /\ outbox[u.key] # None => NotNewer(u, outbox[u.key])
       /\ \A r \in InFlight : u.key = r.key => NotNewer(u, r)

Times == NothingLate \/ InTime

\* A clock set back together with a late upload is the one way to a newer number
\* under an older timestamp, which the server's freshness floor then turns away.
ClockOrLate == \A b \in Budgets : b["clockBack"] = 0 \/ (b["late"] = 0 /\ b["crash"] = 0)

\* Nothing is late in the initial state.
LEMMA InitTimes == ASSUME ClockOrLate, Init PROVE Times
BY DEF ClockOrLate, Init, Times, NothingLate, InTime, InFlight, Uploading

\* What is late stays older than what is queued or in flight.
LEMMA TimesStep ==
  ASSUME TypeOK, Stages, Taken, Times, [Next]_vars
  PROVE  Times'
<1>d. {"late", "crash", "clockBack"} \subseteq Disturbances
  BY DEF Disturbances
<1>b. \A j \in {"late", "crash", "clockBack"} : budget[j] \in Nat /\ budget'[j] \in Nat /\ budget'[j] <= budget[j]
  <2>1. TypeOK'
    BY TypeStep
  <2> QED BY <1>d, <2>1, BudgetStep DEF TypeOK, WorldTypes
<1>1. CASE NothingLate
  BY <1>1, <1>b, LateStep DEF NothingLate, Times
<1>2. CASE InTime
  <2>k. outbox \in [Keys -> OrNone(Row)] /\ clock \in Nat /\ late \subseteq Upload /\ InFlight \subseteq SentRow
    BY InFlightType DEF TypeOK, StoreTypes, WorldTypes, NetTypes
  <2>1. budget'["clockBack"] = 0
    BY <1>2, <1>b DEF InTime
  <2>2. CASE Enqueue
    <3>1. late' = late /\ clock' = clock /\ pc = "captured" /\ pc' # "captured"
      BY <2>2 DEF Enqueue, Handled, netVars
    <3>2. InFlight' = {}
      BY <2>2, <3>1, InFlightType, InFlightStep DEF Draining, Uploading, BeginDrain
    <3>3. KeyOf(NextPulled) \in Keys
      BY <3>1, NextPulledType
    <3>4. \A k \in Keys : outbox'[k] = outbox[k] \/ (outbox'[k] # None /\ outbox'[k].ts = clock)
      BY <2>2, <2>k, Enqueued
    <3>5. \A k \in Keys : outbox'[k] # None => outbox'[k].ts <= clock
      BY <1>2, <2>k, <3>4 DEF InTime
    <3>6. \A u \in late : u.ts < clock /\ outbox'[u.key] # None => NotNewer(u, outbox'[u.key])
      BY <1>2, <2>k, <3>1, <3>4 DEF InTime, NotNewer, Upload
    <3>7. InTime'
      BY <1>2, <2>1, <3>1, <3>2, <3>5, <3>6 DEF InTime, NotNewer
    <3> QED BY <3>7 DEF Times
  <2>3. CASE BeginDrain
    <3>1. late' = late /\ clock' = clock /\ pc' = "draining" /\ outbox' = outbox
      BY <2>3 DEF BeginDrain, netVars, storeVars
    <3>2. PICK R \in SUBSET DueKeys : rows' = {RowAt(k) : k \in R}
      BY <2>3 DEF BeginDrain
    <3>3. InFlight' = {RowAt(k) : k \in R}
      BY <3>1, <3>2 DEF InFlight, Uploading
    <3>4. \A k \in R : /\ k \in Keys /\ outbox[k] # None
                       /\ RowAt(k).key = k /\ RowAt(k).content = outbox[k].content /\ RowAt(k).ts = outbox[k].ts
      BY DEF RowAt, DueKeys
    <3>5. \A r \in InFlight' : r.ts <= clock /\ \A u \in late : u.key = r.key => NotNewer(u, r)
      BY <1>2, <3>3, <3>4 DEF InTime, NotNewer
    <3>6. InTime'
      BY <1>2, <2>1, <3>1, <3>5 DEF InTime, NotNewer
    <3> QED BY <3>6 DEF Times
  <2>4. CASE ~Enqueue /\ ~BeginDrain
    <3>1. InFlight' \subseteq InFlight /\ OutboxKeeps
      BY <2>4, InFlightStep, OutboxStep
    <3>2. clock' = clock \/ (pc # "captured" /\ clock' = clock + 1)
      BY <1>2, ClockStep DEF InTime, Capture
    <3>3. clock' >= clock /\ (clock' = clock => (pc' = "captured" => pc = "captured"))
      <4>1. CASE pc' = "captured" /\ pc # "captured"
        <5>1. Capture
          <6>1. CASE Books \/ World \/ Elapse \/ UNCHANGED vars
            BY <4>1, <6>1 DEF Books, VoucherEdit, MasterEdit, RevertEdit, DeleteVoucher, TakeBackup, RestoreBackup,
                  World, CloseTally, OpenTally, Midnight, ClockStepsBack, Elapse, BackoffElapses, vars
          <6>2. CASE Pull
            BY <4>1, <6>2 DEF Pull, StartCycle, Probe, GateSkips, GatePartial, GateFull, BeginPull, Extract,
              Extracted, ExtractThrows, SectionUnchanged, Enqueue, SetWatermark, Handled, Unwind
          <6>3. CASE Drain
            BY <4>1, <6>3 DEF Drain, BeginDrain, SendNext, UploadAccepted, UploadStale, Answered, ackSectionHash, DequeueAcked,
              deferAttempt, DropRow, invalidateWatermark, EndCycle, Unwind
          <6>4. CASE Network \/ Machine
            BY <4>1, <6>4 DEF Network, UploadRefused, UploadUnreachable, AckLost, UploadLate, LateArrival, Answered, Failed,
              Machine, Crash, rebuildFromTally, RebuildFails, Unwind
          <6> QED BY <6>1, <6>2, <6>3, <6>4 DEF Next
        <5> QED BY <5>1, <2>k DEF Capture
      <4>2. CASE ~(pc' = "captured" /\ pc # "captured")
        BY <4>2, <3>2, <2>k
      <4> QED BY <4>1, <4>2
    <3>4. clock' \in Nat
      BY <2>k, <3>2
    <3>5. \A k \in Keys : outbox'[k] # None => outbox'[k].ts <= clock'
      <4> SUFFICES ASSUME NEW k \in Keys, outbox'[k] # None PROVE outbox'[k].ts <= clock'
        OBVIOUS
      <4>1. outbox[k] # None /\ outbox'[k].ts = outbox[k].ts /\ outbox[k].ts <= clock
        BY <1>2, <3>1 DEF OutboxKeeps, InTime
      <4>2. outbox[k].ts \in Nat
        BY <4>1, <2>k DEF OrNone, Row
      <4> QED BY <4>1, <4>2, <2>k, <3>3, <3>4
    <3>6. \A r \in InFlight' : r.ts <= clock'
      <4> SUFFICES ASSUME NEW r \in InFlight' PROVE r.ts <= clock'
        OBVIOUS
      <4>1. r \in InFlight /\ r.ts \in Nat /\ r.ts <= clock
        BY <1>2, <2>k, <3>1 DEF InTime, SentRow
      <4> QED BY <4>1, <2>k, <3>3, <3>4
    <3>7. ASSUME NEW u \in late
          PROVE  /\ u.ts <= clock' /\ (pc' = "captured" => u.ts < clock')
                 /\ outbox'[u.key] # None => NotNewer(u, outbox'[u.key])
                 /\ \A r \in InFlight' : u.key = r.key => NotNewer(u, r)
      <4>1. u.ts \in Nat /\ u.key \in Keys
        BY <2>k DEF Upload
      <4>2. u.ts <= clock /\ (pc = "captured" => u.ts < clock)
        BY <1>2, <3>7 DEF InTime
      <4>3. u.ts <= clock' /\ (pc' = "captured" => u.ts < clock')
        BY <4>1, <4>2, <2>k, <3>2, <3>3
      <4>4. outbox'[u.key] # None => NotNewer(u, outbox'[u.key])
        BY <1>2, <3>1, <3>7, <4>1 DEF OutboxKeeps, InTime, NotNewer
      <4>5. \A r \in InFlight' : u.key = r.key => NotNewer(u, r)
        BY <1>2, <3>1, <3>7 DEF InTime
      <4> QED BY <4>3, <4>4, <4>5
    <3>8. CASE late' \subseteq late
      <4>1. InTime'
        BY <2>1, <3>5, <3>6, <3>7, <3>8 DEF InTime, NotNewer
      <4> QED BY <4>1 DEF Times
    <3>9. CASE pc = "sending" /\ pc' # "captured" /\ UNCHANGED <<clock, outbox, watermark>> /\ late' = late \cup {Sent}
      <4>1. sent \in InFlight /\ sent \in SentRow
        BY <3>9, SentType DEF InFlight, Uploading
      <4>2. Sent.ts = sent.ts /\ Sent.key = sent.key /\ Sent.content = sent.content
        BY DEF Sent
      <4>3. Sent.ts <= clock'
        BY <1>2, <3>9, <4>1, <4>2 DEF InTime
      <4>4. outbox'[Sent.key] # None => NotNewer(Sent, outbox'[Sent.key])
        BY <3>9, <4>1, <4>2 DEF Taken, NotNewer
      <4>5. \A r \in InFlight' : Sent.key = r.key => NotNewer(Sent, r)
        BY <3>1, <4>1, <4>2 DEF Taken, NotNewer
      <4>6. InTime'
        <5>1. \A u \in late' : \/ u \in late
                               \/ u = Sent
          BY <3>9
        <5> QED BY <2>1, <3>5, <3>6, <3>7, <3>9, <4>3, <4>4, <4>5, <5>1 DEF InTime, NotNewer
      <4> QED BY <4>6 DEF Times
    <3> QED BY <3>8, <3>9, LateStep
  <2> QED BY <2>2, <2>3, <2>4
<1> QED BY <1>1, <1>2 DEF Times

-----------------------------------------------------------------------------
(* The acknowledged hashes.                                                *)

\* The server is past the late upload u, or holds the very same.
Old(u) == server[u.key] # None /\ NotNewer(u, server[u.key])

\* The server holds what the hash of k says, and nothing late will replace it.
Matches(k) == server[k].content = sectionHash[k] /\ \A u \in late : u.key = k => Old(u)

\* What corrects a section whose hash the server does not match.
Corrected(k) ==
  \/ outbox[k] # None
  \/ watermark[Company(k)] = None
  \/ pc = "dropped" /\ sent.key = k

Hashes ==
  /\ pc \in {"acking", "acked"} => server[sent.key] = [content |-> sent.content, ts |-> sent.ts]
  /\ pc = "acked" => sectionHash[sent.key] = sent.content
  /\ \A k \in Keys : sectionHash[k] # None => server[k] # None /\ (Corrected(k) \/ Matches(k))

\* A crash between the two statements that abandon a row (orchestrator.ts:254).
DiesDropped == pc = "dropped" /\ pc' = "idle"

\* Nothing has been acknowledged in the initial state.
LEMMA InitHashes == Init => Hashes
BY DEF Init, Hashes

\* A step that takes no row from the outbox and writes no hash, no watermark and
\* nothing of the server's.
LEMMA HashesFrame ==
  ASSUME TypeOK, Hashes, UNCHANGED <<watermark, sectionHash, server, late>>,
         \A k \in Keys : outbox[k] # None => outbox'[k] # None,
         pc' \in {"acking", "acked"} \/ pc = "acked" => UNCHANGED <<pc, sent>>,
         pc = "dropped" => UNCHANGED <<pc, sent>>
  PROVE  Hashes'
<1>1. (\A k \in Keys : sectionHash[k] # None => server[k] # None /\ (Corrected(k) \/ Matches(k)))'
  <2> SUFFICES ASSUME NEW k \in Keys, sectionHash[k] # None
               PROVE  server[k] # None /\ (Corrected(k) \/ Matches(k))'
    OBVIOUS
  <2>1. Corrected(k) => Corrected(k)'
    BY DEF Corrected
  <2>2. Matches(k) => Matches(k)'
    BY DEF Matches, Old
  <2> QED BY <2>1, <2>2 DEF Hashes
<1>2. (pc \in {"acking", "acked"} => server[sent.key] = [content |-> sent.content, ts |-> sent.ts])'
  BY DEF Hashes
<1>3. (pc = "acked" => sectionHash[sent.key] = sent.content)'
  BY DEF Hashes
<1> QED BY <1>1, <1>2, <1>3 DEF Hashes

\* A late upload of a row in flight is no newer than it.
LEMMA LateNotNewer ==
  ASSUME Times, NEW u \in late, NEW r \in InFlight, u.key = r.key
  PROVE  NotNewer(u, r)
BY DEF Times, NothingLate, InTime

\* The upload an execution on the server replaces is older than the one it keeps.
LEMMA StoredKeepsOld ==
  ASSUME TypeOK, NEW w \in Upload, storeSnapshot(w), NEW u \in Upload, Old(u)
  PROVE  server'[u.key] # None /\ NotNewer(u, server'[u.key])
<1>1. u.key \in Keys /\ u.ts \in Nat /\ server[u.key] # None
  BY DEF Upload, Old
<1>2. /\ server'[u.key] # None
      /\ server'[u.key].ts >= server[u.key].ts
      /\ server'[u.key].ts = server[u.key].ts => server'[u.key] = server[u.key]
  BY <1>1, FreshnessFloor
<1>3. server[u.key].ts \in Nat /\ server'[u.key].ts \in Nat
  <2>1. server' \in [Keys -> OrNone(Stored)] /\ server \in [Keys -> OrNone(Stored)]
    BY StoredType DEF TypeOK, NetTypes
  <2> QED BY <1>1, <1>2, <2>1 DEF OrNone, Stored
<1> QED BY <1>1, <1>2, <1>3 DEF Old, NotNewer

\* An upload that is no newer changes nothing.
LEMMA OldChangesNothing ==
  ASSUME TypeOK, NEW u \in Upload, storeSnapshot(u), Old(u)
  PROVE  server' = server
<1>1. u.key \in Keys /\ u.ts \in Nat /\ u.content \in Nat
  BY DEF Upload
<1>2. server[u.key] \in Stored /\ server \in [Keys -> OrNone(Stored)]
  BY <1>1 DEF Old, TypeOK, NetTypes, OrNone
<1>3. CASE Fresh(u)
  <2>1. server[u.key].ts = u.ts /\ server[u.key].content = u.content
    BY <1>1, <1>2, <1>3 DEF Old, NotNewer, Fresh, Stored
  <2>2. server[u.key] = [content |-> u.content, ts |-> u.ts]
    BY <1>2, <2>1 DEF Stored
  <2> QED BY <1>1, <1>2, <1>3, <2>2 DEF storeSnapshot
<1>4. CASE ~Fresh(u)
  BY <1>1, <1>2, <1>4 DEF storeSnapshot
<1> QED BY <1>3, <1>4

\* An upload touches its own row of the server and empties none.
LEMMA StoredElsewhere ==
  ASSUME TypeOK, NEW u \in Upload, storeSnapshot(u)
  PROVE  /\ \A k \in Keys \ {u.key} : server'[k] = server[k]
         /\ \A k \in Keys : server[k] # None => server'[k] # None
         /\ Fresh(u) => server'[u.key] = [content |-> u.content, ts |-> u.ts]
<1>1. u.key \in Keys /\ server \in [Keys -> OrNone(Stored)]
  BY DEF Upload, TypeOK, NetTypes
<1>2. \A k \in Keys : server[k] # None => server'[k] # None
  BY FreshnessFloor
<1> QED BY <1>1, <1>2 DEF storeSnapshot

\* The steps of the environment and of the pull.
LEMMA HashesOutside ==
  ASSUME TypeOK, Stages, Linked, Hashes, Books \/ World \/ Elapse \/ Pull \/ UNCHANGED vars
  PROVE  Hashes'
<1> USE DEF Pulling, Uploading, Draining
<1>1. CASE Books \/ World \/ UNCHANGED vars
  <2>1. UNCHANGED <<watermark, sectionHash, server, late, outbox, pc, sent, rows, cur>>
    BY <1>1 DEF Books, VoucherEdit, MasterEdit, RevertEdit, DeleteVoucher, TakeBackup, RestoreBackup,
                World, CloseTally, OpenTally, Midnight, ClockStepsBack,
                vars, storeVars, netVars, loopVars, drainVars
  <2> QED BY <2>1, HashesFrame
<1>2. ASSUME NEW k \in Keys, BackoffElapses(k) PROVE Hashes'
  <2>1. UNCHANGED <<watermark, sectionHash, server, late, pc, sent, rows, cur>>
    BY <1>2 DEF BackoffElapses, netVars, loopVars, drainVars
  <2>2. outbox[k] \in Row /\ outbox \in [Keys -> OrNone(Row)]
    BY <1>2 DEF BackoffElapses, TypeOK, StoreTypes, OrNone
  <2>3. Rescheduled(outbox[k], outbox[k].attempts, TRUE) # None
    <3>1. Rescheduled(outbox[k], outbox[k].attempts, TRUE) \in Row
      BY <2>2 DEF Row, Rescheduled
    <3> QED BY <3>1, NoneAssumption
  <2>4. \A j \in Keys : outbox[j] # None => outbox'[j] # None
    BY <1>2, <2>2, <2>3 DEF BackoffElapses
  <2> QED BY <2>1, <2>4, HashesFrame
<1>3. CASE Pull
  <2>0. pc \notin Draining /\ pc # "dropped"
    BY <1>3 DEF Pull, StartCycle, Probe, GateSkips, GatePartial, GateFull, BeginPull, Extract, Extracted,
                ExtractThrows, SectionUnchanged, Capture, Enqueue, SetWatermark
  <2>1. pc' \notin Draining
    BY <1>3 DEF Pull, StartCycle, Probe, GateSkips, GatePartial, GateFull, BeginPull, Extract, Extracted,
                ExtractThrows, SectionUnchanged, Capture, Enqueue, SetWatermark, Handled, Unwind
  <2>2. CASE StartCycle \/ Probe \/ (\E c \in Companies : GateSkips(c)) \/ ExtractThrows
    <3>1. UNCHANGED <<watermark, sectionHash, server, late, outbox>>
      BY <2>2 DEF StartCycle, Probe, GateSkips, ExtractThrows, Unwind, storeVars, netVars
    <3> QED BY <2>0, <2>1, <3>1, HashesFrame
  <2>3. CASE Extract \/ Extracted \/ SectionUnchanged \/ Capture \/ Enqueue
    <3>1. UNCHANGED <<watermark, sectionHash, server, late>>
      BY <2>3 DEF Extract, Extracted, SectionUnchanged, Capture, Enqueue, storeVars, netVars
    <3>2. \A k \in Keys : outbox[k] # None => outbox'[k] # None
      <4>1. CASE Enqueue
        BY <4>1, Enqueued
      <4>2. CASE ~Enqueue
        BY <2>3, <4>2 DEF Extract, Extracted, SectionUnchanged, Capture, storeVars
      <4> QED BY <4>1, <4>2
    <3> QED BY <2>0, <2>1, <3>1, <3>2, HashesFrame
  <2>4. ASSUME NEW c \in Companies, GatePartial(c) PROVE Hashes'
    <3>1. UNCHANGED <<watermark, sectionHash, server, late, outbox>>
      BY <2>4 DEF GatePartial, BeginPull, netVars
    <3> QED BY <2>0, <2>1, <3>1, HashesFrame
  <2>5. ASSUME NEW c \in Companies, GateFull(c) PROVE Hashes'
    <3>1. /\ UNCHANGED <<server, late>> /\ pc' = "pulling" /\ cur' = c /\ pc = "gating"
          /\ \A k \in Keys : Company(k) = c => sectionHash'[k] = None
          /\ \A k \in Keys : Company(k) # c =>
               sectionHash'[k] = sectionHash[k] /\ outbox'[k] = outbox[k] /\ watermark'[Company(k)] = watermark[Company(k)]
      BY <2>5 DEF GateFull, BeginPull, netVars, Forget, TypeOK, StoreTypes
    <3>2. (\A k \in Keys : sectionHash[k] # None => server[k] # None /\ (Corrected(k) \/ Matches(k)))'
      BY <3>1 DEF Hashes, Corrected, Matches, Old
    <3> QED BY <2>1, <3>1, <3>2 DEF Hashes
  <2>6. CASE SetWatermark
    <3>1. /\ UNCHANGED <<sectionHash, server, late, outbox>> /\ pc' = "gating" /\ pc = "marking"
          /\ \A k \in Keys : Company(k) # cur => watermark'[Company(k)] = watermark[Company(k)]
      BY <2>6 DEF SetWatermark, netVars, TypeOK, StoreTypes
    <3>2. \A k \in Keys : sectionHash[k] # None /\ watermark[Company(k)] = None => Company(k) # cur
      BY <3>1 DEF Linked
    <3>3. (\A k \in Keys : sectionHash[k] # None => server[k] # None /\ (Corrected(k) \/ Matches(k)))'
      BY <3>1, <3>2 DEF Hashes, Corrected, Matches, Old
    <3> QED BY <2>1, <3>1, <3>3 DEF Hashes
  <2> QED BY <1>3, <2>2, <2>3, <2>4, <2>5, <2>6 DEF Pull
<1> QED BY <1>1, <1>2, <1>3 DEF Elapse

\* The steps of the drain.
LEMMA HashesDrain ==
  ASSUME TypeOK, Stages, Taken, Times, Linked, Hashes, Drain
  PROVE  Hashes'
<1>o. outbox \in [Keys -> OrNone(Row)] /\ sectionHash \in [Keys -> OrNone(Nat)]
  BY DEF TypeOK, StoreTypes
<1> USE DEF Pulling, Uploading, Draining
<1>1. CASE BeginDrain
  <2>1. UNCHANGED <<watermark, sectionHash, server, late, outbox>> /\ pc' = "draining" /\ pc = "gating"
    BY <1>1 DEF BeginDrain, storeVars, netVars
  <2> QED BY <2>1, HashesFrame
<1>2. CASE SendNext \/ UploadStale \/ EndCycle
  <2>1. UNCHANGED <<watermark, sectionHash, server, late, outbox>>
    BY <1>2 DEF SendNext, UploadStale, Answered, EndCycle, storeVars, netVars
  <2>2. pc \in {"draining", "sending"} /\ pc' \notin {"acking", "acked"}
    BY <1>2 DEF SendNext, UploadStale, Answered, EndCycle, Unwind
  <2> QED BY <2>1, <2>2, HashesFrame
<1>3. CASE UploadAccepted
  <2>1. UNCHANGED <<watermark, sectionHash, outbox, late, rows, sent>> /\ pc = "sending" /\ pc' = "acking"
        /\ storeSnapshot(Sent) /\ Fresh(Sent)
    BY <1>3 DEF UploadAccepted, Answered, storeVars, drainVars
  <2>2. server'[sent.key] = [content |-> sent.content, ts |-> sent.ts]
    BY <2>1, SentInFlight, StoredElsewhere
  <2>4. outbox[sent.key] # None \/ watermark[Company(sent.key)] = None
    BY <2>1, SentInFlight DEF Linked
  <2>5. (\A k \in Keys : sectionHash[k] # None => server[k] # None /\ (Corrected(k) \/ Matches(k)))'
    <3> SUFFICES ASSUME NEW k \in Keys, sectionHash[k] # None
                 PROVE  server'[k] # None /\ (Corrected(k) \/ Matches(k))'
      BY <2>1
    <3>1. server[k] # None /\ (Corrected(k) \/ Matches(k))
      BY DEF Hashes
    <3>2. server'[k] # None
      BY <3>1, <2>1, SentInFlight, StoredElsewhere
    <3>3. CASE k = sent.key
      BY <3>2, <3>3, <2>1, <2>4 DEF Corrected
    <3>4. CASE k # sent.key
      <4>1. server'[k] = server[k]
        BY <3>4, <2>1, SentInFlight, StoredElsewhere
      <4> QED BY <3>1, <3>2, <4>1, <2>1 DEF Corrected, Matches, Old
    <3> QED BY <3>3, <3>4
  <2> QED BY <2>1, <2>2, <2>5 DEF Hashes
<1>4. CASE ackSectionHash
  <2>1. UNCHANGED <<watermark, outbox, server, late, rows, sent>> /\ pc = "acking" /\ pc' = "acked"
        /\ sectionHash' = [sectionHash EXCEPT ![sent.key] = sent.content]
    BY <1>4 DEF ackSectionHash, netVars, drainVars
  <2>2. /\ sectionHash'[sent.key] = sent.content
        /\ \A k \in Keys : k # sent.key => sectionHash'[k] = sectionHash[k]
    BY <2>1, <1>o, SentInFlight
  <2>4. outbox[sent.key] # None \/ watermark[Company(sent.key)] = None
    BY <2>1, SentInFlight DEF Linked
  <2>5. server[sent.key] # None
    <3>1. server[sent.key] = [content |-> sent.content, ts |-> sent.ts]
      BY <2>1 DEF Hashes
    <3>2. server[sent.key] \in Stored
      BY <3>1, <2>1, SentInFlight DEF Stored, SentRow
    <3> QED BY <3>2, NoneAssumption
  <2>6. (\A k \in Keys : sectionHash[k] # None => server[k] # None /\ (Corrected(k) \/ Matches(k)))'
    <3> SUFFICES ASSUME NEW k \in Keys, sectionHash'[k] # None
                 PROVE  server[k] # None /\ (Corrected(k) \/ Matches(k))'
      BY <2>1
    <3>1. CASE k = sent.key
      BY <3>1, <2>1, <2>4, <2>5 DEF Corrected
    <3>2. CASE k # sent.key
      BY <3>2, <2>1, <2>2 DEF Hashes, Corrected, Matches, Old
    <3> QED BY <3>1, <3>2
  <2> QED BY <2>1, <2>2, <2>6 DEF Hashes
<1>5. CASE DequeueAcked \/ DropRow
  <2>1. UNCHANGED <<watermark, sectionHash, server, late, rows>> /\ dequeue /\ pc \in Uploading /\ pc' \in {"draining", "dropped"}
    BY <1>5 DEF DequeueAcked, DropRow, netVars, drainVars
  <2>3. sent.key \in Keys
    BY <2>1, SentInFlight
  <2>4. /\ \A k \in Keys : k # sent.key => outbox'[k] = outbox[k]
        /\ outbox'[sent.key] = IF StillSent(outbox[sent.key]) THEN None ELSE outbox[sent.key]
    BY <2>1, <2>3, <1>o DEF dequeue
  <2>6. (\A k \in Keys : sectionHash[k] # None => server[k] # None /\ (Corrected(k) \/ Matches(k)))'
    <3> SUFFICES ASSUME NEW k \in Keys, sectionHash[k] # None
                 PROVE  server[k] # None /\ (Corrected(k) \/ Matches(k))'
      BY <2>1
    <3>1. server[k] # None /\ (outbox[k] # None \/ watermark[Company(k)] = None \/ Matches(k))
      BY <2>1 DEF Hashes, Corrected
    <3>2. CASE k # sent.key
      BY <2>1, <2>4, <3>1, <3>2 DEF Corrected, Matches, Old
    <3>3. CASE k = sent.key /\ DropRow
      BY <3>1, <3>3 DEF DropRow, Corrected, drainVars
    <3>4. CASE k = sent.key /\ DequeueAcked
      <4>1. server[k] = [content |-> sent.content, ts |-> sent.ts] /\ sectionHash[k] = sent.content
        BY <3>4 DEF DequeueAcked, Hashes
      <4>2. \A u \in late : u.key = k => NotNewer(u, sent)
        BY <3>4, <2>1, SentInFlight, LateNotNewer
      <4>3. Matches(k)'
        BY <2>1, <3>1, <4>1, <4>2 DEF Matches, Old, NotNewer
      <4> QED BY <3>1, <4>3
    <3> QED BY <1>5, <3>2, <3>3, <3>4
  <2> QED BY <2>1, <2>6 DEF Hashes
<1>6. CASE deferAttempt
  <2>1. UNCHANGED <<watermark, sectionHash, server, late>> /\ pc = "deferring" /\ pc' = "draining"
    BY <1>6 DEF deferAttempt, netVars
  <2>2. \A k \in Keys : outbox[k] # None => outbox'[k] # None
    <3>1. sent.key \in Keys
      BY <2>1, SentInFlight
    <3>2. StillSent(outbox[sent.key]) =>
            Rescheduled(outbox[sent.key], outbox[sent.key].attempts + 1, FALSE) # None
      <4>1. SUFFICES ASSUME StillSent(outbox[sent.key])
                     PROVE  Rescheduled(outbox[sent.key], outbox[sent.key].attempts + 1, FALSE) # None
        OBVIOUS
      <4>2. outbox[sent.key] \in Row
        BY <1>o, <3>1, <4>1 DEF StillSent, OrNone
      <4>3. Rescheduled(outbox[sent.key], outbox[sent.key].attempts + 1, FALSE) \in Row
        BY <4>2 DEF Rescheduled, Row
      <4> QED BY <4>3, NoneAssumption
    <3> QED BY <1>6, <1>o, <3>1, <3>2 DEF deferAttempt
  <2> QED BY <2>1, <2>2, HashesFrame
<1>7. CASE invalidateWatermark
  <2>1. /\ UNCHANGED <<sectionHash, server, late, outbox, rows>> /\ pc = "dropped" /\ pc' = "draining"
        /\ watermark' = [watermark EXCEPT ![Company(sent.key)] = None]
    BY <1>7 DEF invalidateWatermark, netVars
  <2>2. sent.key \in Keys
    BY <2>1, SentType
  <2>3. /\ watermark'[Company(sent.key)] = None
        /\ \A c \in Companies : watermark[c] = None => watermark'[c] = None
        /\ \A k \in Keys : Company(k) \in Companies
    BY <2>1, <2>2 DEF TypeOK, StoreTypes, Company, Keys
  <2>5. (\A k \in Keys : sectionHash[k] # None => server[k] # None /\ (Corrected(k) \/ Matches(k)))'
    BY <2>1, <2>3 DEF Hashes, Corrected, Matches, Old
  <2> QED BY <2>1, <2>5 DEF Hashes
<1> QED BY <1>1, <1>2, <1>3, <1>4, <1>5, <1>6, <1>7 DEF Drain

\* The answers, the late uploads and the machine, but for a death between the two
\* statements that abandon a row.
LEMMA HashesNetwork ==
  ASSUME TypeOK, Stages, Taken, Times, Linked, Hashes, Network \/ Machine, ~DiesDropped
  PROVE  Hashes'
<1> USE DEF Pulling, Uploading, Draining
<1>1. CASE UploadRefused \/ UploadUnreachable \/ RebuildFails
  <2>1. UNCHANGED <<watermark, sectionHash, server, late, outbox>>
    BY <1>1 DEF UploadRefused, UploadUnreachable, RebuildFails, Answered, storeVars, netVars
  <2>2. \/ pc = "sending" /\ pc' \in {"dropping", "deferring"}
        \/ UNCHANGED <<pc, sent>>
    BY <1>1 DEF UploadRefused, UploadUnreachable, RebuildFails, Answered, Failed, drainVars
  <2> QED BY <2>1, <2>2, HashesFrame
<1>2. CASE AckLost
  <2>1. UNCHANGED <<watermark, sectionHash, outbox, late>> /\ pc = "sending" /\ pc' \in {"dropping", "deferring"}
        /\ storeSnapshot(Sent)
    BY <1>2 DEF AckLost, Answered, Failed, storeVars
  <2>2. outbox[sent.key] # None \/ watermark[Company(sent.key)] = None
    BY <2>1, SentInFlight DEF Linked
  <2>3. (\A k \in Keys : sectionHash[k] # None => server[k] # None /\ (Corrected(k) \/ Matches(k)))'
    <3> SUFFICES ASSUME NEW k \in Keys, sectionHash[k] # None
                 PROVE  server'[k] # None /\ (Corrected(k) \/ Matches(k))'
      BY <2>1
    <3>1. server[k] # None /\ (Corrected(k) \/ Matches(k))
      BY DEF Hashes
    <3>2. server'[k] # None
      BY <3>1, <2>1, SentInFlight, StoredElsewhere
    <3>3. CASE k = sent.key
      BY <3>2, <3>3, <2>1, <2>2 DEF Corrected
    <3>4. CASE k # sent.key
      <4>1. server'[k] = server[k]
        BY <3>4, <2>1, SentInFlight, StoredElsewhere
      <4> QED BY <3>1, <3>2, <4>1, <2>1 DEF Corrected, Matches, Old
    <3> QED BY <3>3, <3>4
  <2> QED BY <2>1, <2>3 DEF Hashes
<1>3. CASE UploadLate \/ Crash
  <2>1. UNCHANGED <<watermark, sectionHash, server, outbox>> /\ pc' \in {"idle", "dropping", "deferring"} /\ pc # "dropped"
    BY <1>3 DEF UploadLate, Crash, DiesDropped, Answered, Failed, Unwind, storeVars
  <2>2. late' = late \/ (pc = "sending" /\ late' = late \cup {Sent})
    BY <1>3 DEF UploadLate, Crash, Answered
  <2>4. (\A k \in Keys : sectionHash[k] # None => server[k] # None /\ (Corrected(k) \/ Matches(k)))'
    <3> SUFFICES ASSUME NEW k \in Keys, sectionHash[k] # None
                 PROVE  server[k] # None /\ (Corrected(k) \/ Matches(k))'
      BY <2>1
    <3>1. server[k] # None /\ (outbox[k] # None \/ watermark[Company(k)] = None \/ Matches(k))
      BY <2>1 DEF Hashes, Corrected
    <3>2. CASE pc = "sending" /\ late' = late \cup {Sent} /\ k = sent.key
      <4>1. outbox[k] # None \/ watermark[Company(k)] = None
        BY <3>2, SentInFlight DEF Linked
      <4> QED BY <2>1, <3>1, <4>1 DEF Corrected
    <3>3. CASE late' = late \/ (pc = "sending" /\ late' = late \cup {Sent} /\ k # sent.key)
      <4>1. pc = "sending" => Sent.key = sent.key
        BY SentInFlight
      <4> QED BY <2>1, <3>1, <3>3, <4>1 DEF Corrected, Matches, Old
    <3> QED BY <2>2, <3>2, <3>3
  <2> QED BY <2>1, <2>4 DEF Hashes
<1>4. CASE LateArrival
  <2>1. PICK u \in late : late' = late \ {u} /\ storeSnapshot(u)
    BY <1>4 DEF LateArrival
  <2>2. UNCHANGED <<watermark, sectionHash, outbox, pc, sent>> /\ u \in Upload /\ u.key \in Keys
    BY <1>4 DEF LateArrival, storeVars, drainVars, TypeOK, NetTypes, Upload
  <2>3. pc \in {"acking", "acked"} => server' [sent.key] = server[sent.key]
    <3>1. CASE pc \in {"acking", "acked"} /\ u.key = sent.key
      <4>1. NotNewer(u, sent)
        BY <3>1, SentInFlight, LateNotNewer
      <4>2. server[sent.key] = [content |-> sent.content, ts |-> sent.ts]
        BY <3>1 DEF Hashes
      <4>3. server[sent.key] \in Stored
        BY <3>1, <4>2, SentInFlight DEF Stored, SentRow
      <4>4. Old(u)
        BY <3>1, <4>1, <4>2, <4>3, NoneAssumption DEF Old, NotNewer
      <4> QED BY <2>1, <2>2, <4>4, OldChangesNothing
    <3>2. CASE pc \in {"acking", "acked"} /\ u.key # sent.key
      BY <2>1, <2>2, <3>2, SentInFlight, StoredElsewhere
    <3> QED BY <3>1, <3>2
  <2>4. (\A k \in Keys : sectionHash[k] # None => server[k] # None /\ (Corrected(k) \/ Matches(k)))'
    <3> SUFFICES ASSUME NEW k \in Keys, sectionHash[k] # None
                 PROVE  server'[k] # None /\ (Corrected(k) \/ Matches(k))'
      BY <2>2
    <3>1. server[k] # None /\ (Corrected(k) \/ Matches(k))
      BY DEF Hashes
    <3>2. server'[k] # None
      BY <2>1, <2>2, <3>1, StoredElsewhere
    <3>3. CASE Corrected(k)
      BY <2>2, <3>2, <3>3 DEF Corrected
    <3>4. CASE Matches(k)
      <4>1. server'[k] = server[k]
        <5>1. CASE u.key = k
          <6>1. Old(u) BY <3>4, <5>1 DEF Matches
          <6> QED BY <2>1, <2>2, <6>1, OldChangesNothing
        <5>2. CASE u.key # k
          BY <2>1, <2>2, <5>2, StoredElsewhere
        <5> QED BY <5>1, <5>2
      <4>2. Matches(k)'
        BY <2>1, <2>2, <3>2, <3>4, <4>1 DEF Matches, Old
      <4> QED BY <3>2, <4>2
    <3> QED BY <3>1, <3>3, <3>4
  <2> QED BY <2>2, <2>3, <2>4 DEF Hashes
<1>5. CASE rebuildFromTally
  <2>1. UNCHANGED <<server, late, pc>> /\ pc \in Awaits /\ sectionHash' = [k \in Keys |-> None]
    BY <1>5 DEF rebuildFromTally, netVars
  <2> QED BY <2>1 DEF Hashes, Awaits
<1> QED BY <1>1, <1>2, <1>3, <1>4, <1>5 DEF Network, Machine

\* Every step but that death leaves the hashes as they must be.
LEMMA HashesStep ==
  ASSUME TypeOK, Stages, Taken, Times, Linked, Hashes, [Next]_vars, ~DiesDropped
  PROVE  Hashes'
BY HashesOutside, HashesDrain, HashesNetwork DEF Next

\* The hash of a section is advanced on acknowledgement only, whatever becomes of
\* the answers, the late uploads, the process and the store, in any order: what it
\* says was uploaded is what the server holds, or something is left that corrects
\* it.  Two things are excepted: a clock set back while an upload is late, and a
\* death between the two statements that abandon a row.
THEOREM HashesHold ==
  ASSUME ClockOrLate
  PROVE  Spec /\ [][~DiesDropped]_vars => []HashNeverAheadOfServer
<1> DEFINE Inv == TypeOK /\ Stages /\ Taken /\ Times /\ Linked /\ Hashes
<1>1. Init => Inv
  BY TypeInit, InitStages, InitTaken, InitTimes, InitLinked, InitHashes
<1>2. Inv /\ [Next]_vars /\ [~DiesDropped]_vars => Inv'
  <2>1. UNCHANGED vars => ~DiesDropped
    BY DEF vars, DiesDropped
  <2> QED BY <2>1, TypeStep, StagesStep, TakenStep, TimesStep, LinkedStep, HashesStep
<1>3. Inv => HashNeverAheadOfServer
  BY DEF Hashes, Corrected, Matches, HashNeverAheadOfServer
<1> HIDE DEF Inv
<1> QED BY <1>1, <1>2, <1>3, PTL DEF Spec

-----------------------------------------------------------------------------
(* The gate, as arithmetic on the counters.                                *)

\* The gate's tables name every section an edit can change, and it is given counters.
GateSees ==
  /\ BlindCompanies = {}
  /\ VoucherShows \subseteq VOUCHER_SECTIONS
  /\ MasterShows \subseteq MASTER_SECTIONS

\* Between the counters of w and those of t, section s may have changed.
Moved(s, w, t) ==
  \/ Below(t, w)
  \/ w.mst < t.mst /\ s \in MASTER_SECTIONS
  \/ w.vch < t.vch /\ s \in VOUCHER_SECTIONS

\* A watermark and a probed state carry counters.
Counted(w) == w.mst \in Nat /\ w.vch \in Nat

\* Counters are numbers, in Tally, in the watermark and in the probe.
LEMMA CountedTypes ==
  ASSUME TypeOK, NEW c \in Companies
  PROVE  /\ Counted(tally[c]) /\ Counted(backup[c])
         /\ watermark[c] # None => Counted(watermark[c])
         /\ probed[c] # None => Counted(probed[c]) /\ probed[c] \in TallyState
         /\ tally[c] \in TallyState /\ backup[c] \in TallyState
BY DEF TypeOK, WorldTypes, StoreTypes, LoopTypes, OrNone, TallyState, Counted

\* What the gate asks for is what may have changed since the watermark.
LEMMA GateAsks ==
  ASSUME TypeOK, Stages, GateSees, NEW c \in Companies, probed[c] # None, watermark[c] # None
  PROVE  /\ Decision(c).sections \cap Sections = {s \in Sections : Moved(s, watermark[c], probed[c])}
         /\ Decision(c).action = "skip" =>
              watermark[c].mst = probed[c].mst /\ watermark[c].vch = probed[c].vch
         /\ Decision(c).action = "partial" => ~Below(probed[c], watermark[c])
<1> DEFINE w == watermark[c]
           p == probed[c]
<1>1. Counted(w) /\ Counted(p) /\ w.guid = c
  BY CountedTypes DEF Stages
<1>2. Ids(c, p) = [guid |-> c, mst |-> p.mst, vch |-> p.vch]
  BY DEF Ids, AlterId, GateSees
<1>3. \A m \in Nat : m # NaN /\ usable(m) /\ \A n \in Nat : Less(m, n) <=> m < n
  BY InstanceAssumption DEF usable, Less
<1>4. Void(w, Ids(c, p)) <=> Below(p, w)
  BY <1>1, <1>2, <1>3 DEF Void, Usable, Counted, Below
<1>5. \A s \in Sections : s \in SECTIONS /\ (s \in MASTER_SECTIONS \/ s \in VOUCHER_SECTIONS)
  BY InstanceAssumption DEF SECTIONS, MASTER_SECTIONS, VOUCHER_SECTIONS
<1>6. Decision(c) = decideGate(w, Ids(c, p))
  BY DEF Decision, getWatermark
<1>7. CASE Below(p, w)
  BY <1>4, <1>5, <1>6, <1>7 DEF decideGate, Full, Moved
<1>8. CASE ~Below(p, w)
  <2>1. p.mst \in Nat /\ p.vch \in Nat /\ w.mst \in Nat /\ w.vch \in Nat
    BY <1>1 DEF Counted
  <2>2. p.mst >= w.mst /\ p.vch >= w.vch
    BY <1>8, <2>1 DEF Below
  <2>3. (Less(w.mst, Ids(c, p).mst) <=> w.mst < p.mst) /\ (Less(w.vch, Ids(c, p).vch) <=> w.vch < p.vch)
    BY <1>2, <1>3, <2>1
  <2>4. Decision(c) = CASE w.mst < p.mst /\ w.vch < p.vch -> Full
                        [] w.mst < p.mst /\ ~(w.vch < p.vch) -> Partial(MASTER_SECTIONS)
                        [] ~(w.mst < p.mst) /\ w.vch < p.vch -> Partial(VOUCHER_SECTIONS)
                        [] OTHER -> Skip
    BY <1>4, <1>6, <1>8, <2>3 DEF decideGate
  <2>5. CASE w.mst < p.mst /\ w.vch < p.vch
    BY <1>5, <1>8, <2>4, <2>5 DEF Full, Moved
  <2>6. CASE w.mst < p.mst /\ ~(w.vch < p.vch)
    <3>1. Decision(c) = Partial(MASTER_SECTIONS)
      BY <2>4, <2>6
    <3>2. \A s \in Sections : Moved(s, w, p) <=> s \in MASTER_SECTIONS
      BY <1>8, <2>6 DEF Moved
    <3> QED BY <1>8, <3>1, <3>2 DEF Partial
  <2>7. CASE ~(w.mst < p.mst) /\ w.vch < p.vch
    <3>1. Decision(c) = Partial(VOUCHER_SECTIONS)
      BY <2>4, <2>7
    <3>2. \A s \in Sections : Moved(s, w, p) <=> s \in VOUCHER_SECTIONS
      BY <1>8, <2>7 DEF Moved
    <3> QED BY <1>8, <3>1, <3>2 DEF Partial
  <2>8. CASE ~(w.mst < p.mst) /\ ~(w.vch < p.vch)
    <3>1. Decision(c) = Skip
      BY <2>4, <2>8
    <3>2. \A s \in Sections : ~Moved(s, w, p)
      BY <1>8, <2>8 DEF Moved
    <3>3. w.mst = p.mst /\ w.vch = p.vch
      BY <2>1, <2>2, <2>8
    <3> QED BY <3>1, <3>2, <3>3 DEF Skip
  <2> QED BY <2>5, <2>6, <2>7, <2>8
<1> QED BY <1>7, <1>8

\* What moved since w but not between w and p has moved since p.
LEMMA MovedSince ==
  ASSUME NEW s, NEW w, NEW p, NEW t, Counted(w), Counted(p), Counted(t),
         ~Moved(s, w, p), Moved(s, w, t)
  PROVE  Moved(s, p, t)
BY DEF Moved, Below, Counted

\* What moved since p has moved since an earlier w, if a rewind shows at both.
LEMMA MovedBefore ==
  ASSUME NEW s, NEW w, NEW p, NEW t, Counted(w), Counted(p), Counted(t),
         ~Below(p, w), Below(t, p) => Below(t, w), Moved(s, p, t)
  PROVE  Moved(s, w, t)
BY DEF Moved, Below, Counted

-----------------------------------------------------------------------------
(* What happens to a company's books.                                      *)

\* An edit the gate can see: new content, and the counter that says so.
Edited(c) ==
  /\ ~Rewound(c)
  /\ stamp' = stamp + 1
  /\ \E S \in SUBSET Sections, m \in 0..1, v \in 0..1 :
       /\ Entered(c, m, v, S, stamp')
       /\ (S \subseteq MASTER_SECTIONS /\ m = 1) \/ (S \subseteq VOUCHER_SECTIONS /\ v = 1)

Restored(c) ==
  /\ stamp' = stamp
  /\ tally' = [tally EXCEPT ![c] = backup[c]]
  /\ \A w \in Seen(c) : Below(backup[c], w)

\* Behaviours in which every change moves Tally's counters, and none is undone.
Countable == budget["revert"] = 0 /\ budget["delete"] = 0

\* Without reverts and deletions these two are all that changes Tally's books.
LEMMA BooksStep ==
  ASSUME TypeOK, GateSees, Countable, [Next]_vars
  PROVE  \/ UNCHANGED <<tally, backup, stamp>>
         \/ /\ Books /\ UNCHANGED <<storeVars, netVars, pc, loopVars, drainVars>>
            /\ \/ \E c \in Companies : (Edited(c) \/ Restored(c)) /\ UNCHANGED backup
               \/ UNCHANGED <<tally, stamp>> /\ \E c \in Companies : backup' = [backup EXCEPT ![c] = tally[c]]
<1>1. CASE Books
  <2>1. PICK c \in Companies : VoucherEdit(c) \/ MasterEdit(c) \/ RevertEdit(c) \/ DeleteVoucher(c)
                               \/ TakeBackup(c) \/ RestoreBackup(c)
    BY <1>1 DEF Books
  <2>2. UNCHANGED <<storeVars, netVars, pc, loopVars, drainVars>>
    BY <2>1 DEF VoucherEdit, MasterEdit, RevertEdit, DeleteVoucher, TakeBackup, RestoreBackup
  <2>3. CASE VoucherEdit(c)
    <3>1. PICK S \in (SUBSET VoucherShows) \ {{}} : Entered(c, 0, 1, S, stamp')
      BY <2>3 DEF VoucherEdit
    <3>2. S \in SUBSET Sections /\ S \subseteq VOUCHER_SECTIONS
      BY InstanceAssumption DEF GateSees
    <3>3. Edited(c)
      BY <2>3, <3>1, <3>2 DEF VoucherEdit, Edited
    <3> QED BY <1>1, <2>2, <2>3, <3>3 DEF VoucherEdit
  <2>4. CASE MasterEdit(c)
    <3>1. PICK S \in (SUBSET MasterShows) \ {{}} : Entered(c, 1, 0, S, stamp')
      BY <2>4 DEF MasterEdit
    <3>2. S \in SUBSET Sections /\ S \subseteq MASTER_SECTIONS
      BY InstanceAssumption DEF GateSees
    <3>3. \E m \in 0..1, v \in 0..1 :
            /\ Entered(c, m, v, S, stamp')
            /\ (S \subseteq MASTER_SECTIONS /\ m = 1) \/ (S \subseteq VOUCHER_SECTIONS /\ v = 1)
      <4>1. (S \subseteq MASTER_SECTIONS /\ 1 = 1) \/ (S \subseteq VOUCHER_SECTIONS /\ 0 = 1)
        BY <3>2
      <4> WITNESS 1 \in 0..1, 0 \in 0..1
      <4> QED BY <3>1, <4>1
    <3>4. Edited(c)
      BY <2>4, <3>2, <3>3 DEF MasterEdit, Edited
    <3> QED BY <1>1, <2>2, <2>4, <3>4 DEF MasterEdit
  <2>5. ~RevertEdit(c) /\ ~DeleteVoucher(c)
    BY DEF RevertEdit, DeleteVoucher, Spend, Countable
  <2>6. CASE TakeBackup(c)
    BY <1>1, <2>2, <2>6 DEF TakeBackup
  <2>7. CASE RestoreBackup(c)
    BY <1>1, <2>2, <2>7 DEF RestoreBackup, Restored
  <2> QED BY <2>1, <2>3, <2>4, <2>5, <2>6, <2>7
<1>2. CASE World
  BY <1>2 DEF World, CloseTally, OpenTally, Midnight, ClockStepsBack, tallyVars
<1>3. CASE Pull
  BY <1>3 DEF Pull, StartCycle, Probe, GateSkips, GatePartial, GateFull, BeginPull, Extract,
              Extracted, ExtractThrows, SectionUnchanged, Capture, Enqueue, SetWatermark, tallyVars
<1>4. CASE Drain \/ Elapse
  BY <1>4 DEF Drain, BeginDrain, SendNext, UploadAccepted, UploadStale, Answered, ackSectionHash, DequeueAcked,
              deferAttempt, DropRow, invalidateWatermark, EndCycle, Elapse, BackoffElapses, tallyVars
<1>5. CASE Network \/ Machine
  BY <1>5 DEF Network, UploadRefused, UploadUnreachable, AckLost, UploadLate, LateArrival, Answered,
              Machine, Crash, rebuildFromTally, RebuildFails, tallyVars
<1>6. CASE UNCHANGED vars
  BY <1>6 DEF vars, tallyVars
<1> QED BY <1>1, <1>2, <1>3, <1>4, <1>5, <1>6 DEF Next

\* An edit raises the counters and gives the sections it changes the newest stamp.
LEMMA EditedFacts ==
  ASSUME TypeOK, NEW c \in Companies, Edited(c)
  PROVE  /\ \A d \in Companies \ {c} : tally'[d] = tally[d]
         /\ tally'[c].mst >= tally[c].mst /\ tally'[c].vch >= tally[c].vch
         /\ \A s \in Sections :
              \/ tally'[c].book[s] = tally[c].book[s]
              \/ /\ tally'[c].book[s] = stamp + 1
                 /\ \/ s \in MASTER_SECTIONS /\ tally'[c].mst > tally[c].mst
                    \/ s \in VOUCHER_SECTIONS /\ tally'[c].vch > tally[c].vch
<1>1. PICK S \in SUBSET Sections, m \in 0..1, v \in 0..1 :
        /\ Entered(c, m, v, S, stamp')
        /\ (S \subseteq MASTER_SECTIONS /\ m = 1) \/ (S \subseteq VOUCHER_SECTIONS /\ v = 1)
  BY DEF Edited
<1>2. tally[c] \in TallyState /\ tally \in [Companies -> TallyState]
  BY DEF TypeOK, WorldTypes
<1>3. /\ \A d \in Companies \ {c} : tally'[d] = tally[d]
      /\ tally'[c] = [mst |-> tally[c].mst + m, vch |-> tally[c].vch + v, book |-> Rebook(c, S, stamp')]
  BY <1>1, <1>2 DEF Entered
<1>4. \A s \in Sections : tally'[c].book[s] = IF s \in S THEN stamp' ELSE tally[c].book[s]
  BY <1>3 DEF Rebook
<1>5. tally'[c].mst = tally[c].mst + m /\ tally'[c].vch = tally[c].vch + v
      /\ tally[c].mst \in Nat /\ tally[c].vch \in Nat
  BY <1>2, <1>3 DEF TallyState
<1>6. stamp' = stamp + 1
  BY DEF Edited
<1> QED BY <1>1, <1>3, <1>4, <1>5, <1>6

\* What had moved has still moved after an edit, and what the edit changes has moved.
LEMMA EditMoves ==
  ASSUME TypeOK, TypeOK', NEW c \in Companies, Edited(c), NEW w \in Seen(c), Counted(w), NEW s \in Sections
  PROVE  /\ Moved(s, w, tally[c]) => Moved(s, w, tally'[c])
         /\ tally'[c].book[s] = tally[c].book[s] \/ Moved(s, w, tally'[c])
         /\ ~Below(tally'[c], w)
<1>1. ~Below(tally[c], w)
  BY DEF Edited, Rewound
<1>2. Counted(tally[c]) /\ Counted(tally'[c])
  BY DEF TypeOK, WorldTypes, TallyState, Counted
<1>3. /\ tally'[c].mst >= tally[c].mst /\ tally'[c].vch >= tally[c].vch
      /\ \/ tally'[c].book[s] = tally[c].book[s]
         \/ s \in MASTER_SECTIONS /\ tally'[c].mst > tally[c].mst
         \/ s \in VOUCHER_SECTIONS /\ tally'[c].vch > tally[c].vch
  BY EditedFacts
<1> QED BY <1>1, <1>2, <1>3 DEF Moved, Below, Counted

\* Neither budget is ever refilled.
LEMMA CountableStep ==
  ASSUME TypeOK, Countable, [Next]_vars
  PROVE  Countable'
<1>1. TypeOK'
  BY TypeStep
<1>2. {"revert", "delete"} \subseteq Disturbances
  BY DEF Disturbances
<1>3. \A j \in {"revert", "delete"} : budget[j] = 0 /\ budget'[j] \in Nat /\ budget'[j] <= budget[j]
  BY <1>1, <1>2, BudgetStep DEF Countable, TypeOK, WorldTypes
<1> QED BY <1>3 DEF Countable

\* What was probed is kept until it is dropped.
LEMMA ProbedStep ==
  ASSUME TypeOK, [Next]_vars, NEW c \in Companies
  PROVE  \/ probed'[c] \in {probed[c], None}
         \/ Probe /\ probed'[c] = tally[c] /\ UNCHANGED <<tallyVars, watermark>> /\ pc = "probing" /\ pc' = "gating"
<1>1. CASE Books \/ World \/ UNCHANGED vars \/ Elapse
  BY <1>1 DEF Books, VoucherEdit, MasterEdit, RevertEdit, DeleteVoucher, TakeBackup, RestoreBackup,
              World, CloseTally, OpenTally, Midnight, ClockStepsBack, Elapse, BackoffElapses, vars, loopVars
<1>2. CASE Probe
  BY <1>2 DEF Probe, storeVars
<1>3. CASE Pull /\ ~Probe
  BY <1>3 DEF Pull, StartCycle, GateSkips, GatePartial, GateFull, BeginPull, Extract, Unwind, TypeOK, LoopTypes,
              Extracted, ExtractThrows, SectionUnchanged, Capture, Enqueue, SetWatermark, loopVars
<1>4. CASE Drain
  BY <1>4 DEF Drain, BeginDrain, SendNext, UploadAccepted, UploadStale, Answered, ackSectionHash, DequeueAcked,
              deferAttempt, DropRow, invalidateWatermark, EndCycle, Unwind, loopVars
<1>5. CASE Network \/ Machine
  BY <1>5 DEF Network, UploadRefused, UploadUnreachable, AckLost, UploadLate, LateArrival, Answered,
              Machine, Crash, Unwind, rebuildFromTally, RebuildFails, loopVars
<1> QED BY <1>1, <1>2, <1>3, <1>4, <1>5 DEF Next

-----------------------------------------------------------------------------
(* The probe, next to Tally.                                               *)

\* What was probed is what Tally has, or its counters tell the difference; a counter
\* below the probe is below the watermark too; a pull goes forward.
Probes ==
  /\ \A c \in Companies, s \in Sections : tally[c].book[s] <= stamp /\ backup[c].book[s] <= stamp
  /\ \A c \in Companies : probed[c] # None =>
       /\ \A s \in Sections : probed[c].book[s] = tally[c].book[s] \/ Moved(s, probed[c], tally[c])
       /\ ~Below(tally[c], probed[c]) => \A s \in Sections : probed[c].book[s] <= tally[c].book[s]
       /\ watermark[c] # None /\ Below(tally[c], probed[c]) => Below(tally[c], watermark[c])
  /\ pc \in Pulling /\ watermark[cur] # None => ~Below(probed[cur], watermark[cur])

\* Nothing has been probed in the initial state.
LEMMA InitProbes == Init => Probes
BY DEF Init, Probes, Pulling

\* A step of the books.
LEMMA ProbesBooks ==
  ASSUME TypeOK, TypeOK', Stages, Probes, UNCHANGED <<storeVars, pc, loopVars>>,
         NEW c \in Companies, Edited(c) \/ Restored(c), UNCHANGED backup
  PROVE  Probes'
<1> USE DEF storeVars, loopVars
<1>t. /\ \A d \in Companies : tally[d] \in TallyState /\ tally'[d] \in TallyState /\ backup[d] \in TallyState
      /\ stamp \in Nat /\ tally \in [Companies -> TallyState]
  BY DEF TypeOK, WorldTypes
<1>1. \A d \in Companies \ {c} : tally'[d] = tally[d]
  BY <1>t, EditedFacts DEF Restored
<1>2. stamp' >= stamp /\ stamp' \in Nat
  BY <1>t DEF Edited, Restored
<1>3. \A s \in Sections : tally'[c].book[s] <= stamp'
  <2> SUFFICES ASSUME NEW s \in Sections PROVE tally'[c].book[s] <= stamp'
    OBVIOUS
  <2>0. tally[c].book[s] <= stamp /\ backup[c].book[s] <= stamp /\ tally[c].book[s] \in Nat /\ backup[c].book[s] \in Nat
    BY <1>t DEF Probes, TallyState
  <2>1. CASE Edited(c)
    <3>1. tally'[c].book[s] = tally[c].book[s] \/ tally'[c].book[s] = stamp + 1
      BY <2>1, EditedFacts
    <3>2. stamp' = stamp + 1
      BY <2>1 DEF Edited
    <3> QED BY <1>t, <2>0, <3>1, <3>2
  <2>2. CASE Restored(c)
    BY <1>t, <2>0, <2>2 DEF Restored
  <2> QED BY <2>1, <2>2
<1>4. \A d \in Companies, s \in Sections : tally'[d].book[s] <= stamp' /\ backup'[d].book[s] <= stamp'
  <2> SUFFICES ASSUME NEW d \in Companies, NEW s \in Sections
               PROVE  tally'[d].book[s] <= stamp' /\ backup'[d].book[s] <= stamp'
    OBVIOUS
  <2>1. tally[d].book[s] <= stamp /\ backup[d].book[s] <= stamp /\ tally[d].book[s] \in Nat /\ backup[d].book[s] \in Nat
    BY <1>t DEF Probes, TallyState
  <2> QED BY <1>t, <1>1, <1>2, <1>3, <2>1
<1>5. ASSUME probed[c] # None
      PROVE  /\ \A s \in Sections : probed[c].book[s] = tally'[c].book[s] \/ Moved(s, probed[c], tally'[c])
             /\ ~Below(tally'[c], probed[c]) => \A s \in Sections : probed[c].book[s] <= tally'[c].book[s]
             /\ watermark[c] # None /\ Below(tally'[c], probed[c]) => Below(tally'[c], watermark[c])
  <2>1. probed[c] \in Seen(c) /\ Counted(probed[c]) /\ probed[c] \in TallyState
    BY <1>5, CountedTypes DEF Seen
  <2>2. CASE Edited(c)
    <3>1. ~Below(tally[c], probed[c]) /\ ~Below(tally'[c], probed[c])
      BY <2>1, <2>2, EditMoves, InstanceAssumption DEF Edited, Rewound
    <3>2. \A s \in Sections : probed[c].book[s] <= tally'[c].book[s]
      <4> SUFFICES ASSUME NEW s \in Sections PROVE probed[c].book[s] <= tally'[c].book[s]
        OBVIOUS
      <4>1. probed[c].book[s] <= tally[c].book[s] /\ tally[c].book[s] <= stamp
        BY <1>5, <3>1 DEF Probes
      <4>2. probed[c].book[s] \in Nat /\ tally[c].book[s] \in Nat
        BY <1>t, <2>1 DEF TallyState
      <4>3. tally'[c].book[s] = tally[c].book[s] \/ tally'[c].book[s] = stamp + 1
        BY <2>2, EditedFacts
      <4> QED BY <1>t, <4>1, <4>2, <4>3
    <3>3. \A s \in Sections : probed[c].book[s] = tally'[c].book[s] \/ Moved(s, probed[c], tally'[c])
      <4> SUFFICES ASSUME NEW s \in Sections
                   PROVE  probed[c].book[s] = tally'[c].book[s] \/ Moved(s, probed[c], tally'[c])
        OBVIOUS
      <4>1. probed[c].book[s] = tally[c].book[s] \/ Moved(s, probed[c], tally[c])
        BY <1>5 DEF Probes
      <4>2. /\ Moved(s, probed[c], tally[c]) => Moved(s, probed[c], tally'[c])
            /\ tally'[c].book[s] = tally[c].book[s] \/ Moved(s, probed[c], tally'[c])
        BY <2>1, <2>2, EditMoves
      <4> QED BY <4>1, <4>2
    <3> QED BY <3>1, <3>2, <3>3
  <2>3. CASE Restored(c)
    <3>1. tally'[c] = backup[c]
      BY <1>t, <2>3 DEF Restored
    <3>2. Below(tally'[c], probed[c]) /\ (watermark[c] # None => Below(tally'[c], watermark[c]))
      BY <1>5, <2>3, <3>1 DEF Restored, Seen
    <3> QED BY <3>2 DEF Moved
  <2> QED BY <2>2, <2>3
<1>6. \A d \in Companies : probed[d] # None =>
        /\ \A s \in Sections : probed[d].book[s] = tally'[d].book[s] \/ Moved(s, probed[d], tally'[d])
        /\ ~Below(tally'[d], probed[d]) => \A s \in Sections : probed[d].book[s] <= tally'[d].book[s]
        /\ watermark[d] # None /\ Below(tally'[d], probed[d]) => Below(tally'[d], watermark[d])
  <2> SUFFICES ASSUME NEW d \in Companies, d # c, probed[d] # None
               PROVE  /\ \A s \in Sections : probed[d].book[s] = tally'[d].book[s] \/ Moved(s, probed[d], tally'[d])
                      /\ ~Below(tally'[d], probed[d]) => \A s \in Sections : probed[d].book[s] <= tally'[d].book[s]
                      /\ watermark[d] # None /\ Below(tally'[d], probed[d]) => Below(tally'[d], watermark[d])
    BY <1>5
  <2>1. tally'[d] = tally[d]
    BY <1>1
  <2> QED BY <2>1 DEF Probes
<1> QED BY <1>4, <1>6 DEF Probes

\* Every step leaves the probe as the pull relies on it.
LEMMA ProbesStep ==
  ASSUME TypeOK, Stages, GateSees, Countable, Probes, [Next]_vars
  PROVE  Probes'
<1>t. TypeOK'
  BY TypeStep
<1>1. ASSUME NEW c \in Companies, Edited(c) \/ Restored(c), UNCHANGED <<backup, storeVars, pc, loopVars>>
      PROVE  Probes'
  BY <1>1, <1>t, ProbesBooks
<1>2. ASSUME NEW c \in Companies, backup' = [backup EXCEPT ![c] = tally[c]],
             UNCHANGED <<tally, stamp, storeVars, pc, loopVars>>
      PROVE  Probes'
  <2>1. \A d \in Companies : backup'[d] \in {backup[d], tally[d]}
    BY <1>2 DEF TypeOK, WorldTypes
  <2> QED BY <1>2, <2>1 DEF Probes, storeVars, loopVars
<1>3. CASE UNCHANGED <<tally, backup, stamp>>
  <2>1. (\A c \in Companies : probed[c] # None =>
           /\ \A s \in Sections : probed[c].book[s] = tally[c].book[s] \/ Moved(s, probed[c], tally[c])
           /\ ~Below(tally[c], probed[c]) => \A s \in Sections : probed[c].book[s] <= tally[c].book[s]
           /\ watermark[c] # None /\ Below(tally[c], probed[c]) => Below(tally[c], watermark[c]))'
    <3> SUFFICES ASSUME NEW c \in Companies, probed'[c] # None
                 PROVE  /\ \A s \in Sections : probed'[c].book[s] = tally[c].book[s] \/ Moved(s, probed'[c], tally[c])
                        /\ ~Below(tally[c], probed'[c]) => \A s \in Sections : probed'[c].book[s] <= tally[c].book[s]
                        /\ watermark'[c] # None /\ Below(tally[c], probed'[c]) => Below(tally[c], watermark'[c])
      BY <1>3
    <3>1. CASE probed'[c] = probed[c]
      <4>1. watermark'[c] \in {watermark[c], None}
        BY <3>1, WatermarkStep
      <4> QED BY <3>1, <4>1 DEF Probes
    <3>2. CASE probed'[c] = tally[c]
      <4>1. ~Below(tally[c], tally[c])
        BY CountedTypes DEF Counted, Below
      <4>2. \A s \in Sections : tally[c].book[s] <= tally[c].book[s]
        BY CountedTypes DEF TallyState
      <4> QED BY <3>2, <4>1, <4>2
    <3> QED BY <3>1, <3>2, ProbedStep
  <2>2. (pc \in Pulling /\ watermark[cur] # None => ~Below(probed[cur], watermark[cur]))'
    <3> SUFFICES ASSUME pc' \in Pulling, watermark'[cur'] # None PROVE ~Below(probed'[cur'], watermark'[cur'])
      OBVIOUS
    <3>1. CASE pc \in Pulling /\ cur' = cur /\ probed' = probed /\ watermark'[cur] \in {watermark[cur], None}
      BY <3>1 DEF Probes
    <3>2. ASSUME NEW c \in Companies, GatePartial(c), cur' = c, probed' = probed
          PROVE  ~Below(probed'[cur'], watermark'[cur'])
      <4>1. watermark' = watermark /\ probed[c] # None /\ Decision(c).action = "partial"
        BY <3>2 DEF GatePartial, BeginPull
      <4> QED BY <3>2, <4>1, GateAsks
    <3>3. ASSUME NEW c \in Companies, GateFull(c), cur' = c PROVE FALSE
      BY <3>3 DEF GateFull, TypeOK, StoreTypes
    <3> QED BY <3>1, <3>2, <3>3, PullingStep
  <2> QED BY <1>3, <2>1, <2>2 DEF Probes
<1> QED BY <1>1, <1>2, <1>3, BooksStep

-----------------------------------------------------------------------------
(* Days: nothing anywhere is of a later day than the cycle's.              *)

\* There is something of key k: queued, stored, late or in flight.
Trace(k) ==
  \/ outbox[k] # None \/ server[k] # None
  \/ \E u \in late : u.key = k
  \/ \E r \in InFlight : r.key = k

DaysInOrder == \A k \in Keys : Trace(k) => k[3] <= today /\ (pc # "idle" => k[3] <= asOf)

\* There is nothing of any day in the initial state.
LEMMA InitDays == Init => DaysInOrder
BY DEF Init, DaysInOrder, Trace, InFlight, Uploading

\* Only Enqueue leaves something of a key of which there was nothing.
LEMMA TraceStep ==
  ASSUME TypeOK, Stages, Taken, [Next]_vars, NEW k \in Keys, Trace(k)'
  PROVE  Trace(k) \/ (Enqueue /\ k = KeyOf(NextPulled))
<1>1. CASE outbox'[k] # None
  BY <1>1, OutboxStep, Enqueued DEF OutboxKeeps, Trace
<1>2. CASE server'[k] # None
  <2>1. CASE UNCHANGED server
    BY <1>2, <2>1 DEF Trace
  <2>2. CASE pc = "sending" /\ storeSnapshot(Sent)
    BY <1>2, <2>2, SentInFlight, StoredElsewhere DEF Trace, Uploading
  <2>3. ASSUME NEW u \in late, storeSnapshot(u) PROVE Trace(k)
    <3>1. u \in Upload
      BY DEF TypeOK, NetTypes
    <3> QED BY <1>2, <2>3, <3>1, StoredElsewhere DEF Trace
  <2> QED BY <2>1, <2>2, <2>3, ServerStep
<1>3. CASE \E u \in late' : u.key = k
  <2>1. CASE late' \subseteq late
    BY <1>3, <2>1 DEF Trace
  <2>2. CASE pc = "sending" /\ late' = late \cup {Sent}
    BY <1>3, <2>2, SentInFlight DEF Trace, Uploading
  <2> QED BY <2>1, <2>2, LateStep
<1>4. CASE \E r \in InFlight' : r.key = k
  <2>1. CASE InFlight' \subseteq InFlight
    BY <1>4, <2>1 DEF Trace
  <2>2. CASE BeginDrain
    <3>1. PICK R \in SUBSET DueKeys : rows' = {RowAt(j) : j \in R}
      BY <2>2 DEF BeginDrain
    <3>2. InFlight' = {RowAt(j) : j \in R}
      BY <2>2, <3>1 DEF BeginDrain, InFlight, Uploading
    <3>3. \A j \in R : RowAt(j).key = j /\ outbox[j] # None
      BY DEF RowAt, DueKeys
    <3> QED BY <1>4, <3>2, <3>3 DEF Trace
  <2> QED BY <2>1, <2>2, InFlightStep
<1> QED BY <1>1, <1>2, <1>3, <1>4 DEF Trace

\* The day of the cycle is the day it began on, and days only go forward.
LEMMA DayStep ==
  ASSUME TypeOK, Stages, [Next]_vars
  PROVE  /\ today' >= today
         /\ pc' # "idle" => (asOf' = asOf /\ pc # "idle") \/ asOf' = today
<1>t. today \in Int
  BY DEF TypeOK, WorldTypes, Days
<1>1. CASE Midnight
  BY <1>t, <1>1 DEF Midnight, loopVars
<1>2. CASE StartCycle
  BY <1>t, <1>2 DEF StartCycle, tallyVars
<1>3. CASE ~Midnight /\ ~StartCycle
  <2>1. today' = today /\ (pc' # "idle" => asOf' = asOf /\ pc # "idle")
    <3>1. CASE Books \/ World \/ Elapse \/ UNCHANGED vars
      BY <1>3, <3>1 DEF Books, VoucherEdit, MasterEdit, RevertEdit, DeleteVoucher, TakeBackup, RestoreBackup,
              World, CloseTally, OpenTally, ClockStepsBack, Elapse, BackoffElapses, vars, loopVars, tallyVars
    <3>2. CASE Pull
      BY <1>3, <3>2 DEF Pull, Probe, GateSkips, GatePartial, GateFull, BeginPull, Extract, Unwind,
              Extracted, ExtractThrows, SectionUnchanged, Capture, Enqueue, SetWatermark, loopVars, tallyVars
    <3>3. CASE Drain
      BY <3>3 DEF Drain, BeginDrain, SendNext, UploadAccepted, UploadStale, Answered, ackSectionHash, DequeueAcked,
              deferAttempt, DropRow, invalidateWatermark, EndCycle, Unwind, loopVars, tallyVars
    <3>4. CASE Network \/ Machine
      BY <3>4 DEF Network, UploadRefused, UploadUnreachable, AckLost, UploadLate, LateArrival, Answered,
              Machine, Crash, Unwind, rebuildFromTally, RebuildFails, loopVars, tallyVars
    <3> QED BY <3>1, <3>2, <3>3, <3>4 DEF Next
  <2> QED BY <1>t, <2>1
<1> QED BY <1>1, <1>2, <1>3

\* Every step leaves the days in order.
LEMMA DaysStep ==
  ASSUME TypeOK, Stages, Taken, DaysInOrder, [Next]_vars
  PROVE  DaysInOrder'
<1> SUFFICES ASSUME NEW k \in Keys, Trace(k)'
             PROVE  k[3] <= today' /\ (pc' # "idle" => k[3] <= asOf')
  BY DEF DaysInOrder
<1>t. /\ k[3] \in Int /\ today \in Int /\ today' \in Int /\ asOf \in Int /\ asOf <= today
  <2>1. TypeOK'
    BY TypeStep
  <2> QED BY <2>1 DEF TypeOK, WorldTypes, LoopTypes, Days, Keys, Stages
<1>1. CASE Trace(k)
  <2>1. k[3] <= today /\ (pc # "idle" => k[3] <= asOf)
    BY <1>1 DEF DaysInOrder
  <2> QED BY <1>t, <2>1, DayStep
<1>2. CASE Enqueue /\ k = KeyOf(NextPulled)
  <2>1. k[3] = asOf /\ asOf' = asOf /\ today' = today
    BY <1>2 DEF Enqueue, KeyOf, tallyVars
  <2> QED BY <1>t, <2>1
<1> QED BY <1>1, <1>2, TraceStep

-----------------------------------------------------------------------------
(* The stamps of a section grow from its hash to Tally's book.             *)

\* Tally is not behind anything the Bridge remembers of the company.
Trusted(c) == (watermark[c] # None \/ cur = c) /\ ~Rewound(c)

\* The queued row of key k is no newer than what it was, or will be, pulled from.
RowOrdered(k) ==
  LET c == k[1]
      s == k[2]
  IN  outbox[k] # None =>
        /\ outbox[k].content <= tally[c].book[s]
        /\ probed[c] # None /\ (cur # c \/ s \in todo) => outbox[k].content <= probed[c].book[s]
        /\ cur = c /\ pulled[s] # None => outbox[k].content <= pulled[s]

\* Nor is what was acknowledged.
HashOrdered(k) ==
  LET c == k[1]
      s == k[2]
  IN  sectionHash[k] # None =>
        /\ sectionHash[k] <= tally[c].book[s]
        /\ outbox[k] # None => sectionHash[k] <= outbox[k].content
        /\ probed[c] # None => sectionHash[k] <= probed[c].book[s]

\* What is pulled is no older than the probe.
PulledOrdered(c, s) ==
  cur = c /\ pulled[s] # None => probed[c].book[s] <= pulled[s] /\ pulled[s] <= tally[c].book[s]

Ordered(c) ==
  /\ \A k \in Keys : k[1] = c => RowOrdered(k) /\ HashOrdered(k)
  /\ \A s \in Sections : PulledOrdered(c, s)

Order == \A c \in Companies : Trusted(c) => Ordered(c)

\* All stamps are equal in the initial state.
LEMMA InitOrder == Init => Order
<1> SUFFICES ASSUME Init, NEW c \in Companies, Trusted(c) PROVE FALSE
  BY DEF Order
<1>1. watermark[c] = None /\ cur = None
  BY DEF Init
<1> QED BY <1>1, NoneAssumption DEF Trusted

\* Trust is gained by forgetting only.
LEMMA TrustedStep ==
  ASSUME TypeOK, Stages, GateSees, Countable, Probes, [Next]_vars, NEW c \in Companies, Trusted(c)'
  PROVE  /\ Trusted(c) \/ GateFull(c)
         /\ \A s \in Sections : tally[c].book[s] <= tally'[c].book[s]
<1>t. /\ tally[c] \in TallyState /\ tally'[c] \in TallyState /\ tally \in [Companies -> TallyState]
      /\ stamp \in Nat /\ pc \in PCs
  <2>1. TypeOK'
    BY TypeStep
  <2> QED BY <2>1 DEF TypeOK, WorldTypes, Control
<1>c. cur = c => pc \in Pulling /\ probed[c] # None
  <2>1. cur = c => pc \in Pulling
    BY NoneAssumption DEF Stages
  <2> QED BY <2>1 DEF TypeOK, Control, Pulling
<1>1. ASSUME NEW d \in Companies, Edited(d) \/ Restored(d), UNCHANGED <<storeVars, loopVars>>
      PROVE  Trusted(c) /\ \A s \in Sections : tally[c].book[s] <= tally'[c].book[s]
  <2>1. UNCHANGED <<watermark, cur, probed>>
    BY <1>1 DEF storeVars, loopVars
  <2>2. CASE c # d
    <3>1. tally'[c] = tally[c]
      BY <1>1, <1>t, <2>2, EditedFacts DEF Restored
    <3>2. Trusted(c)
      BY <2>1, <3>1 DEF Trusted, Rewound, Seen
    <3> QED BY <1>t, <3>1, <3>2 DEF TallyState
  <2>3. CASE c = d /\ Edited(d)
    <3>1. Trusted(c)
      BY <2>1, <2>3 DEF Trusted, Edited
    <3>2. ASSUME NEW s \in Sections PROVE tally[c].book[s] <= tally'[c].book[s]
      <4>1. tally[c].book[s] <= stamp /\ tally[c].book[s] \in Nat
        BY <1>t DEF Probes, TallyState
      <4>2. tally'[c].book[s] = tally[c].book[s] \/ tally'[c].book[s] = stamp + 1
        BY <2>3, EditedFacts
      <4> QED BY <1>t, <4>1, <4>2
    <3> QED BY <3>1, <3>2
  <2>4. CASE c = d /\ Restored(d)
    <3>1. tally'[c] = backup[c]
      BY <1>t, <2>4 DEF Restored
    <3>2. Seen(c)' = Seen(c)
      BY <2>1 DEF Seen
    <3>3. Seen(c) # {}
      BY <1>c, <2>1 DEF Trusted, Seen
    <3>4. Rewound(c)'
      BY <2>4, <3>1, <3>2, <3>3 DEF Rewound, Restored
    <3> QED BY <3>4 DEF Trusted
  <2> QED BY <1>1, <2>2, <2>3, <2>4
<1>2. CASE UNCHANGED tally
  <2>1. \A s \in Sections : tally[c].book[s] <= tally'[c].book[s]
    BY <1>2, <1>t DEF TallyState
  <2>2. Trusted(c) \/ GateFull(c)
    <3>1. CASE watermark'[c] # None /\ watermark'[c] = watermark[c]
      <4>1. ~Below(tally[c], watermark[c])
        BY <1>2, <3>1 DEF Trusted, Rewound, Seen
      <4>2. probed[c] # None => ~Below(tally[c], probed[c])
        BY <3>1, <4>1 DEF Probes
      <4> QED BY <3>1, <4>1, <4>2 DEF Trusted, Rewound, Seen
    <3>2. CASE watermark'[c] # None /\ watermark'[c] # watermark[c]
      <4>1. c = cur /\ watermark'[c] = Ids(c, probed[c]) /\ pc = "marking"
        BY <3>2, WatermarkStep
      <4>2. watermark'[c].mst = probed[c].mst /\ watermark'[c].vch = probed[c].vch
        BY <4>1 DEF Ids, AlterId, GateSees
      <4>3. ~Below(tally[c], probed[c])
        BY <1>2, <3>2, <4>2 DEF Trusted, Rewound, Seen, Below
      <4>4. watermark[c] # None => ~Below(tally[c], watermark[c])
        <5>1. watermark[c] # None => ~Below(probed[c], watermark[c])
          BY <4>1 DEF Probes, Pulling
        <5> QED BY <1>c, <4>1, <4>3, <5>1, CountedTypes DEF Below, Counted
      <4> QED BY <4>1, <4>3, <4>4 DEF Trusted, Rewound, Seen
    <3>3. CASE watermark'[c] = None
      <4>1. cur' = c /\ pc' \in Pulling
        <5>1. Stages' /\ cur' = c
          BY <3>3, StagesStep DEF Trusted
        <5> QED BY <5>1, NoneAssumption DEF Stages
      <4>2. CASE pc \in Pulling /\ cur' = cur /\ probed' = probed
        <5>1. cur = c /\ probed'[c] = probed[c] /\ probed[c] # None
          BY <1>c, <4>1, <4>2
        <5>2. ~Below(tally[c], probed[c])
          BY <1>2, <5>1 DEF Trusted, Rewound, Seen
        <5>3. watermark[c] # None => ~Below(tally[c], watermark[c])
          <6>1. watermark[c] # None => ~Below(probed[c], watermark[c])
            BY <4>2, <5>1 DEF Probes
          <6> QED BY <5>1, <5>2, <6>1, CountedTypes DEF Below, Counted
        <5> QED BY <5>1, <5>2, <5>3 DEF Trusted, Rewound, Seen
      <4>3. ASSUME NEW d \in Companies, GatePartial(d), cur' = d PROVE FALSE
        <5>1. watermark' = watermark /\ watermark[d] # None
          BY <4>3 DEF GatePartial, Decision, decideGate, getWatermark, Void, Full
        <5> QED BY <3>3, <4>1, <4>3, <5>1
      <4>4. ASSUME NEW d \in Companies, GateFull(d), cur' = d PROVE GateFull(c)
        BY <4>1, <4>4
      <4> QED BY <4>1, <4>2, <4>3, <4>4, PullingStep
    <3> QED BY <3>1, <3>2, <3>3
  <2> QED BY <2>1, <2>2
<1> QED BY <1>1, <1>2, BooksStep

\* But for Extract, the loop only drops what it had pulled and had still to pull.
LEMMA LoopStep ==
  ASSUME TypeOK, Stages, [Next]_vars, ~Extract, NEW c \in Companies, NEW s \in Sections
  PROVE  /\ cur' = c /\ pulled'[s] # None => cur = c /\ pulled'[s] = pulled[s] /\ probed'[c] = probed[c]
         /\ probed'[c] # None /\ (cur' # c \/ s \in todo') => cur # c \/ s \in todo
<1>c. cur \notin Companies \/ pc \in Pulling
  BY NoneAssumption DEF Stages, TypeOK, LoopTypes, OrNone
<1>1. CASE UNCHANGED loopVars
  BY <1>1 DEF loopVars
<1>2. CASE Unwind
  BY <1>2, NoneAssumption DEF Unwind
<1>3. CASE StartCycle
  BY <1>3 DEF StartCycle
<1>4. CASE Probe
  BY <1>c, <1>4 DEF Probe, Pulling
<1>5. ASSUME NEW d \in Companies, GateSkips(d)
      PROVE  /\ cur' = c /\ pulled'[s] # None => cur = c /\ pulled'[s] = pulled[s] /\ probed'[c] = probed[c]
             /\ probed'[c] # None /\ (cur' # c \/ s \in todo') => cur # c \/ s \in todo
  BY <1>c, <1>5 DEF GateSkips, Pulling
<1>6. ASSUME NEW d \in Companies, BeginPull(d)
      PROVE  /\ cur' = c /\ pulled'[s] # None => cur = c /\ pulled'[s] = pulled[s] /\ probed'[c] = probed[c]
             /\ probed'[c] # None /\ (cur' # c \/ s \in todo') => cur # c \/ s \in todo
  BY <1>c, <1>6 DEF BeginPull, Pulling, Stages
<1>7. CASE SectionUnchanged \/ Enqueue
  <2>1. UNCHANGED <<cur, todo, probed>> /\ pulled' = [pulled EXCEPT ![NextPulled] = None]
    BY <1>7 DEF SectionUnchanged, Enqueue, Handled
  <2>2. pulled'[s] \in {pulled[s], None}
    BY <2>1 DEF TypeOK, LoopTypes
  <2> QED BY <2>1, <2>2
<1>8. CASE SetWatermark
  <2>1. cur' = None /\ pulled' = pulled /\ probed' = [probed EXCEPT ![cur] = None]
    BY <1>8 DEF SetWatermark
  <2>2. cur = c => probed'[c] = None
    BY <2>1 DEF TypeOK, LoopTypes
  <2> QED BY <2>1, <2>2, NoneAssumption
<1>9. \/ UNCHANGED loopVars \/ Unwind \/ StartCycle \/ Probe \/ \E d \in Companies : GateSkips(d) \/ BeginPull(d)
      \/ SectionUnchanged \/ Enqueue \/ SetWatermark
  <2>1. CASE Books \/ World \/ UNCHANGED vars \/ Elapse
    BY <2>1 DEF Books, VoucherEdit, MasterEdit, RevertEdit, DeleteVoucher, TakeBackup, RestoreBackup,
              World, CloseTally, OpenTally, Midnight, ClockStepsBack, Elapse, BackoffElapses, vars
  <2>2. CASE Pull
    BY <2>2 DEF Pull, GatePartial, GateFull, Extracted, ExtractThrows, Capture
  <2>3. CASE Drain
    BY <2>3 DEF Drain, BeginDrain, SendNext, UploadAccepted, UploadStale, Answered, ackSectionHash, DequeueAcked,
              deferAttempt, DropRow, invalidateWatermark, EndCycle
  <2>4. CASE Network \/ Machine
    BY <2>4 DEF Network, UploadRefused, UploadUnreachable, AckLost, UploadLate, LateArrival, Answered,
              Machine, Crash, rebuildFromTally, RebuildFails
  <2> QED BY <2>1, <2>2, <2>3, <2>4 DEF Next
<1> QED BY <1>1, <1>2, <1>3, <1>4, <1>5, <1>6, <1>7, <1>8, <1>9

\* The stamps are numbers.
LEMMA StampTypes ==
  ASSUME TypeOK
  PROVE  /\ \A c \in Companies, s \in Sections :
              /\ tally[c].book[s] \in Nat
              /\ probed[c] # None => probed[c].book[s] \in Nat
              /\ pulled[s] # None => pulled[s] \in Nat
         /\ \A k \in Keys : /\ k[1] \in Companies /\ k[2] \in Sections /\ k[3] \in Days
                            /\ outbox[k] # None => outbox[k] \in Row /\ outbox[k].content \in Nat
                            /\ sectionHash[k] # None => sectionHash[k] \in Nat
                            /\ k = <<k[1], k[2], k[3]>>
BY DEF TypeOK, WorldTypes, LoopTypes, StoreTypes, OrNone, TallyState, Row, Keys

\* A step that pulls nothing, queues nothing and acknowledges nothing.
LEMMA OrderedKeeps ==
  ASSUME TypeOK, TypeOK', Stages, [Next]_vars, ~Extract, ~Enqueue, ~ackSectionHash, ~Probe,
         NEW c \in Companies, Ordered(c), \A s \in Sections : tally[c].book[s] <= tally'[c].book[s]
  PROVE  Ordered(c)'
<1>1. ASSUME NEW k \in Keys, k[1] = c PROVE RowOrdered(k)' /\ HashOrdered(k)'
  <2> DEFINE s == k[2]
  <2>s. s \in Sections
    BY StampTypes
  <2>b. tally[c].book[s] <= tally'[c].book[s] /\ tally[c].book[s] \in Nat /\ tally'[c].book[s] \in Nat
    <3>1. tally'[c].book[s] \in Nat
      BY <2>s DEF TypeOK, WorldTypes, TallyState
    <3> QED BY <2>s, <3>1, StampTypes
  <2>p. probed'[c] # None => probed[c] # None /\ probed'[c] = probed[c]
    BY ProbedStep
  <2>o. outbox'[k] # None => outbox[k] # None /\ outbox'[k].content = outbox[k].content /\ outbox[k].content \in Nat
    BY OutboxStep, StampTypes DEF OutboxKeeps
  <2>h. sectionHash'[k] # None => sectionHash'[k] = sectionHash[k] /\ sectionHash[k] \in Nat
    BY HashStep, StampTypes
  <2>l. /\ cur' = c /\ pulled'[s] # None => cur = c /\ pulled'[s] = pulled[s]
        /\ probed'[c] # None /\ (cur' # c \/ s \in todo') => cur # c \/ s \in todo
    BY <2>s, LoopStep
  <2>1. RowOrdered(k) /\ HashOrdered(k)
    BY <1>1 DEF Ordered
  <2>2. RowOrdered(k)'
    BY <1>1, <2>1, <2>b, <2>p, <2>o, <2>l DEF RowOrdered
  <2>3. HashOrdered(k)'
    BY <1>1, <2>1, <2>b, <2>p, <2>o, <2>h DEF HashOrdered
  <2> QED BY <2>2, <2>3
<1>2. ASSUME NEW s \in Sections PROVE PulledOrdered(c, s)'
  <2>1. SUFFICES ASSUME cur' = c, pulled'[s] # None
                 PROVE  probed'[c].book[s] <= pulled'[s] /\ pulled'[s] <= tally'[c].book[s]
    BY DEF PulledOrdered
  <2>2. cur = c /\ pulled'[s] = pulled[s] /\ probed'[c] = probed[c]
    BY <2>1, LoopStep
  <2>3. probed[c].book[s] <= pulled[s] /\ pulled[s] <= tally[c].book[s]
    BY <2>1, <2>2 DEF Ordered, PulledOrdered
  <2>4. pulled[s] \in Nat /\ tally[c].book[s] \in Nat /\ tally'[c].book[s] \in Nat
    BY <2>1, <2>2, StampTypes DEF TypeOK, WorldTypes, TallyState
  <2> QED BY <2>2, <2>3, <2>4
<1> QED BY <1>1, <1>2 DEF Ordered

\* The probe is Tally's book.
LEMMA OrderedProbe ==
  ASSUME TypeOK, Stages, Probe, NEW c \in Companies, Ordered(c)
  PROVE  Ordered(c)'
<1>1. UNCHANGED <<tally, outbox, sectionHash, cur, todo, pulled>> /\ pc = "probing"
  BY DEF Probe, tallyVars, storeVars
<1>2. cur = None /\ cur # c /\ probed'[c] \in {probed[c], tally[c]} /\ probed[c] = None
  BY <1>1, NoneAssumption DEF Probe, Stages, Pulling
<1>3. ASSUME NEW k \in Keys, k[1] = c PROVE RowOrdered(k)' /\ HashOrdered(k)'
  BY <1>1, <1>2, <1>3 DEF Ordered, RowOrdered, HashOrdered
<1> QED BY <1>1, <1>2, <1>3 DEF Ordered, PulledOrdered

\* An extraction is no older than the probe, and no newer than Tally.
LEMMA OrderedExtract ==
  ASSUME TypeOK, Stages, Probes, Extract, NEW c \in Companies, Trusted(c), Ordered(c)
  PROVE  Ordered(c)'
<1> DEFINE x == CHOOSE y \in todo : TRUE
           book == IF x = "company" THEN probed[cur].book ELSE tally[cur].book
<1>1. /\ UNCHANGED <<tally, outbox, sectionHash, cur, probed>> /\ pc = "pulling" /\ cur \in Companies /\ probed[cur] # None
      /\ pulled' = [pulled EXCEPT ![x] = book[x]] /\ todo' = todo \ {x}
  BY DEF Extract, tallyVars, storeVars, TypeOK, Control
<1>2. x \in todo /\ x \in Sections
  BY DEF Extract, TypeOK, LoopTypes
<1>3. \A s \in Sections : pulled'[s] = IF s = x THEN book[x] ELSE pulled[s]
  BY <1>1, <1>2 DEF TypeOK, LoopTypes
<1> HIDE DEF x
<1>4. CASE c # cur
  <2>1. ASSUME NEW k \in Keys, k[1] = c PROVE RowOrdered(k)' /\ HashOrdered(k)'
    BY <1>1, <1>4, <2>1 DEF Ordered, RowOrdered, HashOrdered
  <2> QED BY <1>1, <1>4, <2>1 DEF Ordered, PulledOrdered
<1>5. CASE c = cur
  <2>1. ~Below(tally[c], probed[c])
    BY <1>1, <1>5 DEF Trusted, Rewound, Seen
  <2>2. \A s \in Sections : probed[c].book[s] <= tally[c].book[s] /\ probed[c].book[s] \in Nat /\ tally[c].book[s] \in Nat
    BY <1>1, <1>5, <2>1, StampTypes DEF Probes
  <2>3. probed[c].book[x] <= book[x] /\ book[x] <= tally[c].book[x]
    BY <1>2, <1>5, <2>2
  <2>4. ASSUME NEW k \in Keys, k[1] = c PROVE RowOrdered(k)' /\ HashOrdered(k)'
    <3>1. RowOrdered(k) /\ HashOrdered(k) /\ k[2] \in Sections
      BY <2>4, StampTypes DEF Ordered
    <3>2. HashOrdered(k)'
      BY <1>1, <3>1 DEF HashOrdered
    <3>3. RowOrdered(k)'
      <4>1. CASE k[2] # x
        BY <1>1, <1>3, <3>1, <4>1 DEF RowOrdered
      <4>2. CASE k[2] = x /\ outbox[k] # None
        <5>1. outbox[k].content <= tally[c].book[x] /\ outbox[k].content <= probed[c].book[x] /\ outbox[k].content \in Nat
          BY <1>1, <1>2, <1>5, <2>4, <3>1, <4>2, StampTypes DEF RowOrdered
        <5>2. outbox[k].content <= pulled'[x]
          BY <1>2, <1>3, <1>5, <5>1
        <5> QED BY <1>1, <1>5, <2>4, <4>2, <5>1, <5>2 DEF RowOrdered
      <4>3. CASE outbox[k] = None
        BY <1>1, <4>3 DEF RowOrdered
      <4> QED BY <4>1, <4>2, <4>3
    <3> QED BY <3>2, <3>3
  <2>5. ASSUME NEW s \in Sections PROVE PulledOrdered(c, s)'
    BY <1>1, <1>3, <2>3, <2>5 DEF Ordered, PulledOrdered
  <2> QED BY <2>4, <2>5 DEF Ordered
<1> QED BY <1>4, <1>5

\* What is queued is what was pulled.
LEMMA OrderedEnqueue ==
  ASSUME TypeOK, Stages, Enqueue, NEW c \in Companies, Ordered(c)
  PROVE  Ordered(c)'
<1> DEFINE n == NextPulled
<1>1. /\ UNCHANGED <<tally, sectionHash, cur, todo, probed>> /\ pc = "captured" /\ cur \in Companies /\ probed[cur] # None
      /\ pulled' = [pulled EXCEPT ![n] = None] /\ n \in Sections /\ pulled[n] \in Nat /\ pulled[n] # None /\ todo = {}
  BY NextPulledType, NoneAssumption DEF Enqueue, Handled, tallyVars, Stages
<1>2. \A s \in Sections : pulled'[s] = IF s = n THEN None ELSE pulled[s]
  BY <1>1 DEF TypeOK, LoopTypes
<1>3. \A k \in Keys : IF k = KeyOf(n) THEN outbox'[k] # None /\ outbox'[k].content = pulled[n] ELSE outbox'[k] = outbox[k]
  BY Enqueued
<1>4. KeyOf(n)[1] = cur /\ KeyOf(n)[2] = n
  BY DEF KeyOf
<1> HIDE DEF n
<1>5. ASSUME NEW k \in Keys, k[1] = c PROVE RowOrdered(k)' /\ HashOrdered(k)'
  <2>1. RowOrdered(k) /\ HashOrdered(k) /\ k[2] \in Sections
    BY <1>5, StampTypes DEF Ordered
  <2>2. CASE k # KeyOf(n)
    BY <1>1, <1>2, <1>3, <2>1, <2>2 DEF RowOrdered, HashOrdered
  <2>3. CASE k = KeyOf(n)
    <3>1. cur = c /\ k[2] = n /\ outbox'[k] # None /\ outbox'[k].content = pulled[n]
      BY <1>3, <1>4, <1>5, <2>3
    <3>2. probed[c].book[n] <= pulled[n] /\ pulled[n] <= tally[c].book[n]
      BY <1>1, <3>1 DEF Ordered, PulledOrdered
    <3>3. RowOrdered(k)'
      BY <1>1, <1>2, <1>5, <3>1, <3>2 DEF RowOrdered
    <3>4. HashOrdered(k)'
      <4>1. SUFFICES ASSUME sectionHash[k] # None PROVE HashOrdered(k)'
        BY <1>1 DEF HashOrdered
      <4>2. sectionHash[k] <= probed[c].book[n] /\ sectionHash[k] <= tally[c].book[n]
        BY <1>1, <1>5, <2>1, <3>1, <4>1 DEF HashOrdered
      <4>3. sectionHash[k] \in Nat /\ probed[c].book[n] \in Nat
        BY <1>1, <3>1, <4>1, StampTypes
      <4>4. sectionHash[k] <= pulled[n]
        BY <1>1, <3>2, <4>2, <4>3
      <4> QED BY <1>1, <1>5, <3>1, <4>2, <4>4 DEF HashOrdered
    <3> QED BY <3>3, <3>4
  <2> QED BY <2>2, <2>3
<1>6. ASSUME NEW s \in Sections PROVE PulledOrdered(c, s)'
  BY <1>1, <1>2, <1>6 DEF Ordered, PulledOrdered
<1> QED BY <1>5, <1>6 DEF Ordered

\* What is acknowledged is what is queued, or belongs to a company that was forgotten.
LEMMA OrderedAck ==
  ASSUME TypeOK, Stages, Taken, Linked, ackSectionHash, NEW c \in Companies, Trusted(c), Ordered(c)
  PROVE  Ordered(c)'
<1>1. UNCHANGED <<tally, outbox, cur, todo, pulled, probed>> /\ pc = "acking"
  BY DEF ackSectionHash, tallyVars, loopVars
<1>2. sent.key \in Keys /\ sent \in InFlight
  BY <1>1, SentInFlight DEF Uploading
<1>3. \A k \in Keys : sectionHash'[k] = IF k = sent.key THEN sent.content ELSE sectionHash[k]
  BY <1>2 DEF ackSectionHash, TypeOK, StoreTypes
<1>4. cur = None /\ probed[c] = None /\ cur # c
  BY <1>1, NoneAssumption DEF Stages, Pulling
<1>5. ASSUME NEW k \in Keys, k[1] = c PROVE RowOrdered(k)' /\ HashOrdered(k)'
  <2>1. RowOrdered(k) /\ HashOrdered(k) /\ k[2] \in Sections
    BY <1>5, StampTypes DEF Ordered
  <2>2. CASE k # sent.key
    BY <1>1, <1>3, <2>1, <2>2 DEF RowOrdered, HashOrdered
  <2>3. CASE k = sent.key
    <3>1. watermark[c] # None
      BY <1>4 DEF Trusted
    <3>2. outbox[k] # None
      BY <1>1, <1>2, <1>5, <2>3, <3>1 DEF Linked, Company
    <3>3. outbox[k].content = sent.content /\ outbox[k].content \in Nat
      BY <1>2, <2>3, <3>2, StampTypes DEF Taken
    <3>4. RowOrdered(k)'
      BY <1>1, <2>1 DEF RowOrdered
    <3>5. HashOrdered(k)'
      BY <1>1, <1>3, <1>4, <1>5, <2>1, <2>3, <3>2, <3>3 DEF RowOrdered, HashOrdered
    <3> QED BY <3>4, <3>5
  <2> QED BY <2>2, <2>3
<1> QED BY <1>1, <1>5 DEF Ordered, PulledOrdered

\* Every step leaves the stamps of a trusted company in order.
LEMMA OrderStep ==
  ASSUME TypeOK, Stages, Taken, Linked, GateSees, Countable, Probes, Order, [Next]_vars
  PROVE  Order'
<1> SUFFICES ASSUME NEW c \in Companies, Trusted(c)' PROVE Ordered(c)'
  BY DEF Order
<1>t. TypeOK'
  BY TypeStep
<1>1. Trusted(c) \/ GateFull(c)
  BY TrustedStep
<1>2. \A s \in Sections : tally[c].book[s] <= tally'[c].book[s]
  BY TrustedStep
<1>3. CASE GateFull(c)
  <2>1. /\ pc = "gating" /\ pulled' = pulled
        /\ \A k \in Keys : k[1] = c => outbox'[k] = None /\ sectionHash'[k] = None
    BY <1>3 DEF GateFull, BeginPull, Forget, Company
  <2>2. \A s \in Sections : pulled'[s] = None
    BY <2>1 DEF Stages
  <2> QED BY <2>1, <2>2 DEF Ordered, RowOrdered, HashOrdered, PulledOrdered
<1>4. CASE Trusted(c)
  <2>1. Ordered(c)
    BY <1>4 DEF Order
  <2>2. CASE Probe BY <2>1, <2>2, OrderedProbe
  <2>3. CASE Extract BY <1>4, <2>1, <2>3, OrderedExtract
  <2>4. CASE Enqueue BY <2>1, <2>4, OrderedEnqueue
  <2>5. CASE ackSectionHash BY <1>4, <2>1, <2>5, OrderedAck
  <2>6. CASE ~Probe /\ ~Extract /\ ~Enqueue /\ ~ackSectionHash
    BY <1>t, <1>2, <2>1, <2>6, OrderedKeeps
  <2> QED BY <2>2, <2>3, <2>4, <2>5, <2>6
<1> QED BY <1>1, <1>3, <1>4

-----------------------------------------------------------------------------
(* What a section holds, queued or stored, and what may still replace it.  *)

\* What the owner reads of key k once the outbox is empty.
Content(k) == IF outbox[k] # None THEN outbox[k].content ELSE server[k].content

\* The newest day of the section is as Tally has it.
Current(c, s) ==
  \E d \in Days :
    /\ Holds(c, s, d)
    /\ \A e \in Days : Holds(c, s, e) => e <= d
    /\ Content(<<c, s, d>>) = tally[c].book[s]

\* The late upload u changes nothing that is read: its row is queued again, the
\* server is past it, or there is a newer day.
Harmless(u) ==
  \/ outbox[u.key] # None
  \/ Old(u)
  \/ \E d \in Days : d > u.key[3] /\ Holds(u.key[1], u.key[2], d)

OfSlot(u, c, s) == u.key[1] = c /\ u.key[2] = s

\* A step empties no day of the section, and neither fills nor changes the newest.
Keeps(c, s) ==
  \A d \in Days :
    /\ Holds(c, s, d) => Holds(c, s, d)'
    /\ \/ \E e \in Days : e > d /\ Holds(c, s, e)
       \/ (Holds(c, s, d)' => Holds(c, s, d)) /\ Content(<<c, s, d>>)' = Content(<<c, s, d>>)

\* Such a step leaves a current section current.
LEMMA CurrentKept ==
  ASSUME NEW c, NEW s, Keeps(c, s), Current(c, s), tally'[c].book[s] = tally[c].book[s], MaxDay \in Nat
  PROVE  Current(c, s)'
<1>1. PICK d \in Days : /\ Holds(c, s, d)
                        /\ \A e \in Days : Holds(c, s, e) => e <= d
                        /\ Content(<<c, s, d>>) = tally[c].book[s]
  BY DEF Current
<1>d. Days \subseteq Int
  BY DEF Days
<1>2. ~ \E e \in Days : e > d /\ Holds(c, s, e)
  BY <1>1, <1>d
<1>3. Holds(c, s, d)' /\ Content(<<c, s, d>>)' = tally'[c].book[s]
  BY <1>1, <1>2 DEF Keeps
<1>4. ASSUME NEW e \in Days, Holds(c, s, e)' PROVE e <= d
  <2>1. Holds(c, s, e) \/ \E f \in Days : f > e /\ Holds(c, s, f)
    BY <1>4 DEF Keeps
  <2> QED BY <2>1, <1>1, <1>d
<1> QED BY <1>3, <1>4 DEF Current

\* What is queued of a company that keeps its watermark, or is being synced, stays
\* queued, or is acknowledged.
LEMMA RowStays ==
  ASSUME TypeOK, Stages, Hashes, [Next]_vars, NEW k \in Keys, outbox[k] # None,
         ~GateFull(k[1]), ~rebuildFromTally, ~(pc' = "dropped" /\ Company(sent'.key) = k[1])
  PROVE  \/ /\ outbox'[k] # None
            /\ outbox'[k].content = outbox[k].content \/ (Enqueue /\ k = KeyOf(NextPulled))
         \/ /\ DequeueAcked /\ k = sent.key /\ outbox[k].content = sent.content /\ outbox'[k] = None
            /\ server[k] = [content |-> sent.content, ts |-> sent.ts] /\ UNCHANGED <<server, late>>
<1>t. outbox[k] \in Row /\ outbox \in [Keys -> OrNone(Row)] /\ (\A r \in Row : r # None) /\ k[1] \in Companies
  BY NoneAssumption DEF TypeOK, StoreTypes, OrNone, Keys
<1>1. CASE UNCHANGED outbox
  BY <1>1
<1>2. ASSUME NEW c \in Companies, GateFull(c) PROVE outbox'[k] = outbox[k]
  BY <1>2 DEF GateFull, Forget, Company
<1>3. CASE Enqueue
  <2>1. k # KeyOf(NextPulled) => outbox'[k] = outbox[k]
    BY <1>3, Enqueued
  <2>2. k = KeyOf(NextPulled) => outbox'[k] # None
    BY <1>3, Enqueued
  <2> QED BY <1>3, <2>1, <2>2
<1>4. CASE deferAttempt
  <2>1. outbox'[k] = outbox[k] \/ outbox'[k] = Rescheduled(outbox[k], outbox[k].attempts + 1, FALSE)
    BY <1>4, <1>t DEF deferAttempt
  <2>2. Rescheduled(outbox[k], outbox[k].attempts + 1, FALSE) \in Row
    BY <1>t DEF Rescheduled, Row
  <2>3. Rescheduled(outbox[k], outbox[k].attempts + 1, FALSE).content = outbox[k].content
    BY DEF Rescheduled
  <2> QED BY <1>t, <2>1, <2>2, <2>3
<1>5. CASE Elapse
  <2>1. outbox'[k] = outbox[k] \/ outbox'[k] = Rescheduled(outbox[k], outbox[k].attempts, TRUE)
    BY <1>5, <1>t DEF Elapse, BackoffElapses
  <2>2. Rescheduled(outbox[k], outbox[k].attempts, TRUE) \in Row
    BY <1>t DEF Rescheduled, Row
  <2>3. Rescheduled(outbox[k], outbox[k].attempts, TRUE).content = outbox[k].content
    BY DEF Rescheduled
  <2> QED BY <1>t, <2>1, <2>2, <2>3
<1>6. CASE DequeueAcked
  <2>1. pc = "acked" /\ UNCHANGED <<server, late>>
    BY <1>6 DEF DequeueAcked, netVars
  <2>2. server[sent.key] = [content |-> sent.content, ts |-> sent.ts]
    BY <2>1 DEF Hashes
  <2>3. k # sent.key => outbox'[k] = outbox[k]
    BY <1>6, <1>t DEF DequeueAcked, dequeue
  <2>4. k = sent.key => outbox'[k] = outbox[k] \/ (outbox'[k] = None /\ outbox[k].content = sent.content)
    BY <1>6, <1>t DEF DequeueAcked, dequeue, StillSent
  <2> QED BY <1>6, <2>1, <2>2, <2>3, <2>4
<1>7. CASE DropRow
  <2>1. pc' = "dropped" /\ sent' = sent
    BY <1>7 DEF DropRow, drainVars
  <2>2. k # sent.key
    BY <2>1 DEF Company
  <2> QED BY <1>7, <1>t, <2>2 DEF DropRow, dequeue
<1> QED BY <1>1, <1>2, <1>3, <1>4, <1>5, <1>6, <1>7, OutboxWrites

\* What the server keeps of a company that keeps its watermark, or is being synced,
\* goes on holding what is read of the section.
LEMMA KeepsStep ==
  ASSUME TypeOK, Stages, Taken, Linked, Hashes, [Next]_vars, NEW c \in Companies, NEW s \in Sections,
         watermark[c] # None \/ pc \in Pulling,
         ~GateFull(c), ~rebuildFromTally, ~(pc' = "dropped" /\ Company(sent'.key) = c),
         ~(Enqueue /\ c = cur /\ s = NextPulled),
         \A u \in late : OfSlot(u, c, s) => Harmless(u)
  PROVE  Keeps(c, s)
<1> SUFFICES ASSUME NEW d \in Days
             PROVE  /\ Holds(c, s, d) => Holds(c, s, d)'
                    /\ \/ \E e \in Days : e > d /\ Holds(c, s, e)
                       \/ (Holds(c, s, d)' => Holds(c, s, d)) /\ Content(<<c, s, d>>)' = Content(<<c, s, d>>)
  BY DEF Keeps
<1> DEFINE k == <<c, s, d>>
<1>k. k \in Keys /\ k[1] = c /\ k[2] = s /\ k[3] = d /\ Company(k) = c
  BY DEF Keys, Company
<1>h. /\ Holds(c, s, d) <=> outbox[k] # None \/ server[k] # None
      /\ Holds(c, s, d)' <=> outbox'[k] # None \/ server'[k] # None
      /\ Content(k) = IF outbox[k] # None THEN outbox[k].content ELSE server[k].content
      /\ Content(k)' = IF outbox'[k] # None THEN outbox'[k].content ELSE server'[k].content
  BY DEF Holds, Content
<1> HIDE DEF k
<1>s. late \subseteq Upload /\ (\A w \in Stored : w # None)
  BY NoneAssumption DEF TypeOK, NetTypes
<1>1. CASE UNCHANGED server
  <2>1. CASE outbox[k] = None
    <3>1. ~(Enqueue /\ k = KeyOf(NextPulled))
      BY <1>k DEF KeyOf
    <3>2. outbox'[k] = None
      BY <2>1, <3>1, <1>k, OutboxStep, Enqueued DEF OutboxKeeps
    <3> QED BY <1>1, <1>h, <2>1, <3>2 DEF k
  <2>2. CASE outbox[k] # None
    <3>1. ~(Enqueue /\ k = KeyOf(NextPulled))
      BY <1>k DEF KeyOf
    <3>2. CASE outbox'[k] # None /\ outbox'[k].content = outbox[k].content
      BY <1>1, <1>h, <2>2, <3>2 DEF k
    <3>3. CASE /\ outbox[k].content = sent.content /\ outbox'[k] = None
               /\ server[k] = [content |-> sent.content, ts |-> sent.ts]
      <4>2. pc = "acked" /\ sent \in SentRow
        BY <3>1, <3>2, <3>3, <2>2, <1>k, RowStays DEF DequeueAcked, TypeOK, Control
      <4>3. server[k] \in Stored
        BY <3>3, <4>2 DEF Stored, SentRow
      <4> QED BY <1>1, <1>h, <1>s, <2>2, <3>3, <4>3 DEF k
    <3> QED BY <2>2, <3>1, <3>2, <3>3, <1>k, RowStays
  <2> QED BY <2>1, <2>2
<1>2. CASE pc = "sending" /\ storeSnapshot(Sent) /\ (UploadAccepted \/ AckLost)
  <2>1. UNCHANGED outbox
    BY <1>2 DEF UploadAccepted, AckLost, Answered, storeVars
  <2>2. sent \in InFlight /\ Sent \in Upload /\ Sent.key = sent.key
    BY <1>2, SentInFlight DEF Uploading
  <2>3. CASE k # sent.key
    BY <1>2, <1>h, <1>k, <2>1, <2>2, <2>3, StoredElsewhere DEF k
  <2>4. CASE k = sent.key
    <3>1. outbox[k] # None
      BY <1>2, <1>k, <2>2, <2>4 DEF Linked, Pulling
    <3> QED BY <1>h, <2>1, <3>1 DEF k
  <2> QED BY <2>3, <2>4
<1>3. CASE LateArrival
  <2>1. UNCHANGED outbox
    BY <1>3 DEF LateArrival, storeVars
  <2>2. PICK u \in late : storeSnapshot(u)
    BY <1>3 DEF LateArrival
  <2>3. u \in Upload
    BY <1>s
  <2>4. CASE k # u.key
    BY <1>h, <1>k, <2>1, <2>2, <2>3, <2>4, StoredElsewhere DEF k
  <2>5. CASE k = u.key
    <3>1. Harmless(u)
      BY <1>k, <2>5 DEF OfSlot
    <3>2. server[k] # None => server'[k] # None
      BY <1>k, <2>2, <2>3, StoredElsewhere
    <3>3. CASE outbox[k] # None
      BY <1>h, <2>1, <3>3 DEF k
    <3>4. CASE Old(u)
      <4>1. server' = server
        BY <2>2, <2>3, <3>4, OldChangesNothing
      <4> QED BY <1>1, <4>1
    <3>5. CASE \E e \in Days : e > d /\ Holds(c, s, e)
      BY <1>h, <2>1, <3>2, <3>5
    <3> QED BY <1>k, <2>5, <3>1, <3>3, <3>4, <3>5 DEF Harmless
  <2> QED BY <2>4, <2>5
<1> QED BY <1>1, <1>2, <1>3, ServerStep

\* Nor does what is late of it become harmful.
LEMMA HarmlessStep ==
  ASSUME TypeOK, Stages, Taken, Times, Linked, Hashes, [Next]_vars, NEW c \in Companies, NEW s \in Sections,
         watermark[c] # None \/ pc \in Pulling,
         ~GateFull(c), ~rebuildFromTally, ~(pc' = "dropped" /\ Company(sent'.key) = c),
         \A u \in late : OfSlot(u, c, s) => Harmless(u),
         NEW u \in late', OfSlot(u, c, s)
  PROVE  Harmless(u)'
<1>s. late \subseteq Upload /\ (\A w \in Stored : w # None)
  BY NoneAssumption DEF TypeOK, NetTypes
<1>1. CASE u \in late
  <2>0. Harmless(u) /\ u \in Upload /\ u.key \in Keys /\ u.key[1] = c /\ u.key[2] = s
    BY <1>1, <1>s DEF OfSlot, Upload
  <2>n. \A e \in Days : Holds(c, s, e) => Holds(c, s, e)' \/ (Enqueue /\ s = NextPulled)
    <3>1. CASE ~(Enqueue /\ c = cur /\ s = NextPulled)
      <4>1. Keeps(c, s)
        BY <3>1, KeepsStep
      <4> QED BY <4>1 DEF Keeps
    <3>2. CASE Enqueue /\ c = cur /\ s = NextPulled
      BY <3>2
    <3> QED BY <3>1, <3>2
  <2>1. CASE outbox[u.key] # None
    <3>1. CASE outbox'[u.key] # None
      BY <3>1 DEF Harmless
    <3>2. CASE /\ DequeueAcked /\ u.key = sent.key
               /\ server[u.key] = [content |-> sent.content, ts |-> sent.ts] /\ UNCHANGED <<server, late>>
      <4>1. sent \in InFlight /\ sent \in SentRow
        BY <3>2, SentInFlight DEF DequeueAcked, Uploading
      <4>2. NotNewer(u, sent)
        BY <1>1, <3>2, <4>1, LateNotNewer
      <4>3. server'[u.key] \in Stored
        BY <3>2, <4>1 DEF Stored, SentRow
      <4>4. server'[u.key] # None
        BY <4>3, <1>s
      <4>5. NotNewer(u, server'[u.key])
        BY <3>2, <4>2 DEF NotNewer
      <4>6. Old(u)'
        BY <4>4, <4>5 DEF Old
      <4> QED BY <4>6 DEF Harmless
    <3> QED BY <2>0, <2>1, <3>1, <3>2, RowStays
  <2>2. CASE Old(u)
    <3>1. Old(u)'
      <4>1. CASE UNCHANGED server
        BY <2>2, <4>1 DEF Old
      <4>2. CASE pc = "sending" /\ storeSnapshot(Sent)
        <5>1. Sent \in Upload
          BY <4>2, SentInFlight DEF Uploading
        <5> QED BY <2>0, <2>2, <4>2, <5>1, StoredKeepsOld DEF Old
      <4>3. ASSUME NEW w \in late, storeSnapshot(w) PROVE Old(u)'
        BY <1>s, <2>0, <2>2, <4>3, StoredKeepsOld DEF Old
      <4> QED BY <4>1, <4>2, <4>3, ServerStep
    <3> QED BY <3>1 DEF Harmless
  <2>3. CASE \E e \in Days : e > u.key[3] /\ Holds(u.key[1], u.key[2], e)
    <3>1. PICK e \in Days : e > u.key[3] /\ Holds(c, s, e)
      BY <2>0, <2>3
    <3>2. Holds(c, s, e)'
      <4>1. CASE Enqueue /\ s = NextPulled
        <5>1. \A k \in Keys : outbox[k] # None => outbox'[k] # None
          BY <4>1, Enqueued
        <5>2. UNCHANGED server
          BY <4>1 DEF Enqueue, netVars
        <5>3. <<c, s, e>> \in Keys
          BY DEF Keys
        <5> QED BY <3>1, <5>1, <5>2, <5>3 DEF Holds
      <4> QED BY <2>n, <3>1, <4>1
    <3>3. \E f \in Days : f > u.key[3] /\ Holds(u.key[1], u.key[2], f)'
      BY <2>0, <3>1, <3>2
    <3> QED BY <3>3 DEF Harmless
  <2> QED BY <2>0, <2>1, <2>2, <2>3 DEF Harmless
<1>2. CASE u \notin late
  <2>1. pc = "sending" /\ u = Sent /\ UNCHANGED outbox
    BY <1>2, LateStep
  <2>2. sent \in InFlight /\ sent.key \in Keys /\ Sent.key = sent.key
    BY <2>1, SentInFlight DEF Uploading
  <2>3. outbox[sent.key] # None
    BY <2>1, <2>2 DEF Linked, Pulling, OfSlot, Company
  <2> QED BY <2>1, <2>2, <2>3 DEF Harmless
<1> QED BY <1>1, <1>2

-----------------------------------------------------------------------------
(* A company with a watermark, and one being synced.                        *)

\* A watermark is in force, and no step is pending that voids it.
Kept(c) == watermark[c] # None /\ ~(pc = "dropped" /\ Company(sent.key) = c)

\* What has not moved since the watermark is current, and nothing late undoes it.
Watermarked ==
  \A c \in Companies : Kept(c) =>
    /\ \A s \in Sections : Moved(s, watermark[c], tally[c]) \/ Current(c, s)
    /\ \A u \in late : u.key[1] = c => Harmless(u)

\* In a pull, nor is a section done with, unless it has moved since the probe.
PulledSoFar ==
  pc \in Pulling =>
    /\ \A s \in Sections :
         \/ s \in todo
         \/ Moved(s, probed[cur], tally[cur])
         \/ IF pulled[s] = None THEN Current(cur, s) ELSE pulled[s] = tally[cur].book[s]
    /\ \A u \in late : u.key[1] = cur =>
         Harmless(u) \/ u.key[2] \in todo \/ pulled[u.key[2]] # None

\* No company has a watermark in the initial state.
LEMMA InitKept == Init => Watermarked /\ PulledSoFar
BY DEF Init, Watermarked, PulledSoFar, Kept, Pulling

\* What has moved since the watermark or the probe goes on having moved, and what
\* changes in the books has moved.
LEMMA MovedStep ==
  ASSUME TypeOK, GateSees, Countable, [Next]_vars, NEW c \in Companies, NEW s \in Sections,
         NEW w \in Seen(c)
  PROVE  /\ Moved(s, w, tally[c]) => Moved(s, w, tally'[c])
         /\ tally'[c].book[s] = tally[c].book[s] \/ Moved(s, w, tally'[c])
<1>t. TypeOK' /\ Counted(w) /\ tally \in [Companies -> TallyState]
  BY TypeStep, CountedTypes DEF Seen, TypeOK, WorldTypes
<1>1. CASE UNCHANGED tally
  BY <1>1
<1>2. ASSUME NEW d \in Companies, Edited(d)
      PROVE  /\ Moved(s, w, tally[c]) => Moved(s, w, tally'[c])
             /\ tally'[c].book[s] = tally[c].book[s] \/ Moved(s, w, tally'[c])
  <2>1. CASE d = c
    BY <1>t, <1>2, <2>1, EditMoves
  <2>2. CASE d # c
    BY <1>2, <2>2, EditedFacts
  <2> QED BY <2>1, <2>2
<1>3. ASSUME NEW d \in Companies, Restored(d)
      PROVE  /\ Moved(s, w, tally[c]) => Moved(s, w, tally'[c])
             /\ tally'[c].book[s] = tally[c].book[s] \/ Moved(s, w, tally'[c])
  <2>1. CASE d = c
    <3>1. tally'[c] = backup[c] /\ Below(backup[c], w)
      BY <1>t, <1>3, <2>1 DEF Restored
    <3> QED BY <3>1 DEF Moved
  <2>2. CASE d # c
    BY <1>t, <1>3, <2>2 DEF Restored
  <2> QED BY <2>1, <2>2
<1> QED BY <1>1, <1>2, <1>3, BooksStep

\* Nothing of the section being enqueued or skipped is of a later day than the cycle's.
LEMMA NoLaterDay ==
  ASSUME DaysInOrder, pc # "idle", NEW c \in Companies, NEW s \in Sections
  PROVE  /\ \A d \in Days : Holds(c, s, d) => d <= asOf
         /\ \A u \in late : u \in Upload /\ OfSlot(u, c, s) => u.key = <<c, s, u.key[3]>> /\ u.key[3] \in Days /\ u.key[3] <= asOf
<1>1. ASSUME NEW d \in Days, Holds(c, s, d) PROVE d <= asOf
  <2>1. <<c, s, d>> \in Keys /\ <<c, s, d>>[3] = d
    BY DEF Keys
  <2>2. Trace(<<c, s, d>>)
    BY <1>1 DEF Trace, Holds
  <2> QED BY <2>1, <2>2 DEF DaysInOrder
<1>2. ASSUME NEW u \in late, u \in Upload, OfSlot(u, c, s)
      PROVE  u.key = <<c, s, u.key[3]>> /\ u.key[3] \in Days /\ u.key[3] <= asOf
  <2>1. u.key \in Keys
    BY <1>2 DEF Upload
  <2>2. Trace(u.key)
    BY DEF Trace
  <2> QED BY <1>2, <2>1, <2>2 DEF DaysInOrder, OfSlot, Keys
<1> QED BY <1>1, <1>2

\* The section enqueued is then current, unless it moved since the probe.
LEMMA EnqueuedCurrent ==
  ASSUME TypeOK, Stages, DaysInOrder, PulledSoFar, Enqueue, NEW s \in Sections, s = NextPulled
  PROVE  /\ Moved(s, probed[cur], tally[cur]) \/ Current(cur, s)'
         /\ \A u \in late : OfSlot(u, cur, s) => Harmless(u)'
<1> DEFINE k == <<cur, s, asOf>>
<1>1. /\ pc = "captured" /\ cur \in Companies /\ asOf \in Days /\ todo = {} /\ pulled[s] # None
      /\ UNCHANGED <<tally, server, late, cur, asOf, probed>>
  BY DEF Enqueue, TypeOK, Control, LoopTypes, Stages, NextPulled, netVars, tallyVars
<1>2. k \in Keys /\ k = KeyOf(NextPulled)
  BY <1>1 DEF Keys, KeyOf
<1>3. outbox'[k] # None /\ outbox'[k].content = pulled[s] /\ \A j \in Keys : j # k => outbox'[j] = outbox[j]
  BY <1>2, Enqueued
<1>4. Holds(cur, s, asOf)' /\ Content(<<cur, s, asOf>>)' = pulled[s]
  BY <1>1, <1>3 DEF Holds, Content
<1>5. \A e \in Days : Holds(cur, s, e)' => e <= asOf
  <2> SUFFICES ASSUME NEW e \in Days, Holds(cur, s, e)', e # asOf PROVE e <= asOf
    BY <1>1, InstanceAssumption DEF Days
  <2>1. <<cur, s, e>> \in Keys /\ <<cur, s, e>> # k
    BY <1>1 DEF Keys
  <2>2. Holds(cur, s, e)
    BY <1>1, <1>3, <2>1 DEF Holds
  <2> QED BY <1>1, <2>2, NoLaterDay
<1>6. Moved(s, probed[cur], tally[cur]) \/ Current(cur, s)'
  <2>1. Moved(s, probed[cur], tally[cur]) \/ pulled[s] = tally[cur].book[s]
    BY <1>1 DEF PulledSoFar, Pulling
  <2>2. ASSUME pulled[s] = tally[cur].book[s] PROVE Current(cur, s)'
    BY <1>1, <1>4, <1>5, <2>2 DEF Current
  <2> QED BY <2>1, <2>2
<1>7. ASSUME NEW u \in late, OfSlot(u, cur, s) PROVE Harmless(u)'
  <2>0. u \in Upload
    BY DEF TypeOK, NetTypes
  <2>1. u.key = <<cur, s, u.key[3]>> /\ u.key[3] \in Days /\ u.key[3] <= asOf
    BY <1>1, <1>7, <2>0, NoLaterDay
  <2>2. CASE u.key[3] = asOf
    BY <1>3, <2>1, <2>2 DEF Harmless
  <2>3. CASE u.key[3] < asOf
    <3>1. asOf \in Days /\ asOf > u.key[3]
      BY <1>1, <2>1, <2>3, InstanceAssumption DEF Days
    <3>2. Holds(u.key[1], u.key[2], asOf)'
      BY <1>1, <1>4, <1>7 DEF OfSlot, Holds
    <3> QED BY <1>1, <3>1, <3>2 DEF Harmless
  <2> QED BY <1>1, <2>1, <2>2, <2>3, InstanceAssumption DEF Days
<1> QED BY <1>6, <1>7

\* A section the hash gate passes over is current already.
LEMMA UnchangedCurrent ==
  ASSUME TypeOK, Stages, Linked, Hashes, GateSees, Probes, DaysInOrder, Order, PulledSoFar, SectionUnchanged,
         NEW s \in Sections, s = NextPulled
  PROVE  /\ Moved(s, probed[cur], tally[cur]) \/ Current(cur, s)
         /\ \A u \in late : OfSlot(u, cur, s) => Harmless(u)
<1> DEFINE k == <<cur, s, asOf>>
<1>1. /\ pc = "sealing" /\ cur \in Companies /\ probed[cur] # None /\ asOf \in Days /\ todo = {} /\ pulled[s] # None
      /\ sectionHash[k] = pulled[s]
  BY DEF SectionUnchanged, TypeOK, Control, LoopTypes, Stages, NextPulled, shouldUpload, KeyOf
<1>2. k \in Keys /\ k[1] = cur /\ k[2] = s /\ Company(k) = cur
  BY <1>1 DEF Keys, Company
<1>3. watermark[cur] # None
  BY <1>1, <1>2 DEF Linked, Pulling
<1>4. server[k] # None /\ (outbox[k] # None \/ Matches(k))
  BY <1>1, <1>2, <1>3 DEF Hashes, Corrected
<1>5. Holds(cur, s, asOf) /\ \A e \in Days : Holds(cur, s, e) => e <= asOf
  BY <1>1, <1>4, NoLaterDay DEF Holds
<1>6. ASSUME ~Moved(s, probed[cur], tally[cur]) PROVE Content(k) = pulled[s]
  <2>1. CASE outbox[k] = None
    BY <1>1, <1>4, <2>1 DEF Content, Matches
  <2>2. CASE outbox[k] # None
    <3>1. ~Below(tally[cur], probed[cur])
      BY <1>6 DEF Moved
    <3>2. ~Below(probed[cur], watermark[cur])
      BY <1>1, <1>3 DEF Probes, Pulling
    <3>3. ~Below(tally[cur], watermark[cur])
      BY <1>1, <1>3, <3>1, <3>2, CountedTypes DEF Below, Counted
    <3>4. Trusted(cur)
      BY <1>3, <3>1, <3>3 DEF Trusted, Rewound, Seen
    <3>5. RowOrdered(k) /\ HashOrdered(k)
      BY <1>1, <1>2, <3>4 DEF Order, Ordered
    <3>6. outbox[k].content <= pulled[s]
      BY <1>1, <1>2, <2>2, <3>5 DEF RowOrdered
    <3>7. sectionHash[k] <= outbox[k].content /\ sectionHash[k] # None
      BY <1>1, <1>2, <2>2, <3>5, StampTypes DEF HashOrdered
    <3>8. outbox[k].content \in Nat /\ pulled[s] \in Nat
      BY <1>1, <1>2, <2>2, StampTypes
    <3>9. outbox[k].content = pulled[s]
      BY <1>1, <3>6, <3>7, <3>8
    <3> QED BY <2>2, <3>9 DEF Content
  <2> QED BY <2>1, <2>2
<1>7. Moved(s, probed[cur], tally[cur]) \/ Current(cur, s)
  <2>1. Moved(s, probed[cur], tally[cur]) \/ pulled[s] = tally[cur].book[s]
    BY <1>1 DEF PulledSoFar, Pulling
  <2> QED BY <1>1, <1>5, <1>6, <2>1 DEF Current
<1>8. ASSUME NEW u \in late, OfSlot(u, cur, s) PROVE Harmless(u)
  <2>0. u \in Upload
    BY DEF TypeOK, NetTypes
  <2>1. u.key = <<cur, s, u.key[3]>> /\ u.key[3] \in Days /\ u.key[3] <= asOf
    BY <1>1, <1>8, <2>0, NoLaterDay
  <2>2. CASE u.key[3] = asOf
    BY <1>4, <2>1, <2>2 DEF Harmless, Matches
  <2>3. CASE u.key[3] < asOf
    <3>1. \E d \in Days : d > u.key[3] /\ Holds(u.key[1], u.key[2], d)
      BY <1>1, <1>5, <1>8, <2>3, InstanceAssumption DEF Days, OfSlot
    <3> QED BY <3>1 DEF Harmless
  <2> QED BY <1>1, <2>1, <2>2, <2>3, InstanceAssumption DEF Days
<1> QED BY <1>7, <1>8

\* A company keeps the watermark it had, or is given the one of its pull.
LEMMA KeptStep ==
  ASSUME TypeOK, [Next]_vars, ~DiesDropped, NEW c \in Companies, Kept(c)'
  PROVE  \/ Kept(c) /\ watermark'[c] = watermark[c]
         \/ SetWatermark /\ c = cur
<1>1. watermark'[c] # None
  BY DEF Kept
<1>2. CASE watermark'[c] = watermark[c]
  <2>1. ASSUME pc = "dropped", Company(sent.key) = c PROVE FALSE
    <3>1. (pc' = "dropped" /\ sent' = sent) \/ invalidateWatermark
      BY <2>1 DEF DiesDropped, Next, Books, VoucherEdit, MasterEdit, RevertEdit, DeleteVoucher, TakeBackup,
         RestoreBackup, World, CloseTally, OpenTally, Midnight, ClockStepsBack, Pull, StartCycle, Probe, GateSkips,
         GatePartial, GateFull, BeginPull, Extract, Extracted, ExtractThrows, SectionUnchanged, Capture, Enqueue,
         SetWatermark, Drain, BeginDrain, SendNext, UploadAccepted, UploadStale, ackSectionHash, DequeueAcked,
         deferAttempt, DropRow, EndCycle, Network, UploadRefused, UploadUnreachable, AckLost, UploadLate,
         LateArrival, Answered, Machine, Crash, Unwind, rebuildFromTally, RebuildFails, Elapse, BackoffElapses,
         vars, drainVars, Awaits
    <3>2. CASE invalidateWatermark
      BY <1>1, <2>1, <3>2 DEF invalidateWatermark, TypeOK, StoreTypes
    <3> QED BY <2>1, <3>1, <3>2 DEF Kept
  <2> QED BY <1>1, <1>2, <2>1 DEF Kept
<1>3. CASE SetWatermark /\ c = cur
  BY <1>3
<1> QED BY <1>1, <1>2, <1>3, WatermarkStep

\* A section of a company the step neither forgets nor gives up on stays current, or
\* moves.
LEMMA CurrentStep ==
  ASSUME TypeOK, Stages, Taken, Times, Linked, Hashes, GateSees, Countable, [Next]_vars, NEW c \in Companies,
         NEW s \in Sections, NEW w \in Seen(c),
         watermark[c] # None \/ pc \in Pulling,
         ~GateFull(c), ~rebuildFromTally, ~(pc' = "dropped" /\ Company(sent'.key) = c),
         ~(Enqueue /\ c = cur /\ s = NextPulled),
         \A u \in late : OfSlot(u, c, s) => Harmless(u),
         Moved(s, w, tally[c]) \/ Current(c, s)
  PROVE  Moved(s, w, tally'[c]) \/ Current(c, s)'
<1>1. /\ Moved(s, w, tally[c]) => Moved(s, w, tally'[c])
      /\ tally'[c].book[s] = tally[c].book[s] \/ Moved(s, w, tally'[c])
  BY MovedStep
<1>2. Keeps(c, s)
  BY KeepsStep
<1>3. ASSUME Current(c, s), tally'[c].book[s] = tally[c].book[s] PROVE Current(c, s)'
  BY <1>2, <1>3, CurrentKept, InstanceAssumption
<1> QED BY <1>1, <1>3

\* The watermark stands for what is current.
LEMMA WatermarkedStep ==
  ASSUME TypeOK, Stages, Taken, Times, Linked, Hashes, GateSees, Countable, Probes, DaysInOrder,
         Watermarked, PulledSoFar, [Next]_vars, ~DiesDropped
  PROVE  Watermarked'
<1> SUFFICES ASSUME NEW c \in Companies, Kept(c)'
             PROVE  /\ \A s \in Sections : Moved(s, watermark'[c], tally'[c]) \/ Current(c, s)'
                    /\ \A u \in late' : u.key[1] = c => Harmless(u)'
  BY DEF Watermarked
<1>n. watermark'[c] # None /\ ~(pc' = "dropped" /\ Company(sent'.key) = c)
  BY DEF Kept
<1>g. ~GateFull(c) /\ ~rebuildFromTally
  BY <1>n DEF GateFull, rebuildFromTally, TypeOK, StoreTypes
<1>u. late \subseteq Upload /\ late' \subseteq Upload /\ \A u \in Upload : u.key[2] \in Sections
  BY TypeStep DEF TypeOK, NetTypes, Upload, Keys
<1>1. CASE Kept(c) /\ watermark'[c] = watermark[c]
  <2>1. /\ watermark[c] # None /\ watermark[c] \in Seen(c)
        /\ \A s \in Sections : Moved(s, watermark[c], tally[c]) \/ Current(c, s)
        /\ \A u \in late : u.key[1] = c => Harmless(u)
    BY <1>1 DEF Watermarked, Kept, Seen
  <2>2. ASSUME NEW s \in Sections PROVE Moved(s, watermark[c], tally'[c]) \/ Current(c, s)'
    <3>1. CASE ~(Enqueue /\ c = cur /\ s = NextPulled)
      BY <1>n, <1>g, <2>1, <3>1, CurrentStep DEF OfSlot
    <3>2. CASE Enqueue /\ c = cur /\ s = NextPulled
      <4>1. Moved(s, probed[c], tally[c]) \/ Current(c, s)'
        <5>1. Moved(s, probed[cur], tally[cur]) \/ Current(cur, s)'
          BY <3>2, EnqueuedCurrent
        <5>2. cur' = cur
          BY <3>2 DEF Enqueue
        <5> QED BY <3>2, <5>1, <5>2
      <4>2. pc = "captured" /\ UNCHANGED tally /\ probed[c] # None
        BY <3>2 DEF Enqueue, tallyVars, TypeOK, Control
      <4>3. /\ ~Below(probed[c], watermark[c])
            /\ Below(tally[c], probed[c]) => Below(tally[c], watermark[c])
        BY <2>1, <3>2, <4>2 DEF Probes, Pulling
      <4>4. Moved(s, probed[c], tally[c]) => Moved(s, watermark[c], tally[c])
        BY <2>1, <4>2, <4>3, CountedTypes, MovedBefore
      <4> QED BY <4>1, <4>2, <4>4
    <3> QED BY <3>1, <3>2
  <2>3. ASSUME NEW u \in late', u.key[1] = c PROVE Harmless(u)'
    <3>1. u.key[2] \in Sections /\ OfSlot(u, c, u.key[2])
      BY <1>u, <2>3 DEF OfSlot
    <3> QED BY <1>n, <1>g, <2>1, <3>1, HarmlessStep DEF OfSlot
  <2> QED BY <1>1, <2>2, <2>3
<1>2. CASE SetWatermark /\ c = cur
  <2>1. /\ pc = "marking" /\ probed[c] # None /\ UNCHANGED <<tally, outbox, server, late>>
        /\ watermark'[c] = Ids(c, probed[c])
    BY <1>2 DEF SetWatermark, tallyVars, netVars, TypeOK, Control, StoreTypes
  <2>2. /\ \A s \in Sections : Moved(s, probed[c], tally[c]) \/ Current(c, s)
        /\ \A u \in late : u.key[1] = c => Harmless(u)
    BY <1>2, <1>u, <2>1 DEF PulledSoFar, Stages, Pulling
  <2>3. watermark'[c].mst = probed[c].mst /\ watermark'[c].vch = probed[c].vch
    BY <2>1 DEF Ids, AlterId, GateSees
  <2>4. \A s \in Sections : Moved(s, probed[c], tally[c]) => Moved(s, watermark'[c], tally[c])
    BY <2>3 DEF Moved, Below
  <2>5. \A s \in Sections : Current(c, s) => Current(c, s)'
    BY <2>1 DEF Current, Holds, Content
  <2>6. \A u \in late : Harmless(u) => Harmless(u)'
    BY <2>1 DEF Harmless, Old, Holds
  <2> QED BY <2>1, <2>2, <2>4, <2>5, <2>6
<1> QED BY <1>1, <1>2, KeptStep

\* A full pull asks for every section.
LEMMA FullAsksAll ==
  ASSUME NEW c, Decision(c).action = "full"
  PROVE  Decision(c).sections = SECTIONS
BY DEF Decision, decideGate, Full, Skip, Partial

\* What a pull does to a section: nothing, or it extracts it, or it is done with it.
LEMMA SectionStep ==
  ASSUME TypeOK, Stages, [Next]_vars, pc \in Pulling, pc' \in Pulling, NEW s \in Sections
  PROVE  \/ pulled'[s] = pulled[s] /\ (s \in todo' <=> s \in todo)
         \/ /\ Extract /\ s \in todo /\ UNCHANGED tally
            /\ pulled'[s] = IF s = "company" THEN probed[cur].book[s] ELSE tally[cur].book[s]
         \/ /\ SectionUnchanged \/ Enqueue
            /\ s = NextPulled /\ pulled'[s] = None
<1>t. pulled \in [Sections -> OrNone(Nat)]
  BY DEF TypeOK, LoopTypes
<1>1. CASE Books
  BY <1>1 DEF Books, VoucherEdit, MasterEdit, RevertEdit, DeleteVoucher, TakeBackup, RestoreBackup, loopVars
<1>2. CASE World
  BY <1>2 DEF World, CloseTally, OpenTally, Midnight, ClockStepsBack, loopVars
<1>3. CASE Extract
  <2> DEFINE x == CHOOSE y \in todo : TRUE
  <2>1. /\ pulled' = [pulled EXCEPT ![x] = IF x = "company" THEN probed[cur].book[x] ELSE tally[cur].book[x]]
        /\ todo' = todo \ {x} /\ x \in todo /\ UNCHANGED tally
    BY <1>3 DEF Extract, tallyVars
  <2> HIDE DEF x
  <2>2. CASE s = x
    BY <1>t, <1>3, <2>1, <2>2
  <2>3. CASE s # x
    BY <1>t, <2>1, <2>3
  <2> QED BY <2>2, <2>3
<1>4. CASE SectionUnchanged \/ Enqueue
  <2> DEFINE x == NextPulled
  <2>1. pulled' = [pulled EXCEPT ![x] = None] /\ todo' = todo
    BY <1>4 DEF SectionUnchanged, Enqueue, Handled
  <2> HIDE DEF x
  <2>2. CASE s = x
    BY <1>t, <1>4, <2>1, <2>2 DEF x
  <2>3. CASE s # x
    BY <1>t, <2>1, <2>3
  <2> QED BY <2>2, <2>3
<1>5. CASE Pull /\ ~Extract /\ ~SectionUnchanged /\ ~Enqueue
  BY <1>5 DEF Pull, StartCycle, Probe, GateSkips, GatePartial, GateFull, BeginPull, Extracted,
     ExtractThrows, Unwind, Capture, SetWatermark, loopVars, Pulling
<1>6. CASE Drain
  BY <1>6 DEF Drain, BeginDrain, SendNext, UploadAccepted, UploadStale, ackSectionHash, DequeueAcked,
     deferAttempt, DropRow, invalidateWatermark, EndCycle, Answered, Pulling
<1>7. CASE Network
  BY <1>7 DEF Network, UploadRefused, UploadUnreachable, AckLost, UploadLate, LateArrival, Answered, loopVars
<1>8. CASE Machine
  BY <1>8 DEF Machine, Crash, Unwind, rebuildFromTally, RebuildFails, loopVars, Pulling
<1>9. CASE Elapse
  BY <1>9 DEF Elapse, BackoffElapses, loopVars
<1>10. CASE UNCHANGED vars
  BY <1>10 DEF vars, loopVars
<1> QED BY <1>1, <1>2, <1>3, <1>4, <1>5, <1>6, <1>7, <1>8, <1>9, <1>10 DEF Next

\* A rebuild that falls into a pull (main/index.ts:625).
RebuildsInPull == rebuildFromTally /\ pc \in Pulling

\* Such a rebuild is no stutter.
LEMMA RebuildIsAStep == TypeOK /\ RebuildsInPull => ~UNCHANGED vars
<1>1. {"rebuild", "midRebuild"} \subseteq Disturbances
  BY DEF Disturbances
<1> QED BY <1>1 DEF RebuildsInPull, rebuildFromTally, Spend, vars, TypeOK, WorldTypes

\* A pull begins with nothing done but what has not moved since the watermark.
LEMMA PullBegins ==
  ASSUME TypeOK, Stages, GateSees, Watermarked, NEW c \in Companies, GatePartial(c) \/ GateFull(c)
  PROVE  PulledSoFar'
<1>1. /\ pc = "gating" /\ probed[c] # None /\ cur' = c /\ pulled' = pulled
      /\ todo' = Decision(c).sections \cap Sections /\ UNCHANGED <<tally, server, late, probed>>
  BY DEF GatePartial, GateFull, BeginPull, tallyVars, netVars
<1>2. \A s \in Sections : pulled'[s] = None
  BY <1>1 DEF Stages
<1>u. \A u \in late : u.key[2] \in Sections
  BY DEF TypeOK, NetTypes, Upload, Keys
<1>3. CASE GateFull(c)
  <2>1. Sections \subseteq todo'
    BY <1>1, <1>3, FullAsksAll, InstanceAssumption DEF GateFull
  <2> QED BY <1>1, <1>u, <2>1 DEF PulledSoFar
<1>4. CASE GatePartial(c)
  <2>1. UNCHANGED outbox /\ watermark[c] # None
    BY <1>4 DEF GatePartial, Decision, getWatermark, decideGate, Void, Full
  <2>2. /\ \A s \in Sections : Moved(s, watermark[c], tally[c]) \/ Current(c, s)
        /\ \A u \in late : u.key[1] = c => Harmless(u)
    BY <1>1, <2>1 DEF Watermarked, Kept
  <2>3. ASSUME NEW s \in Sections, s \notin todo' PROVE Moved(s, probed[c], tally[c]) \/ Current(c, s)'
    <3>1. ~Moved(s, watermark[c], probed[c])
      BY <1>1, <2>1, <2>3, GateAsks
    <3>2. Moved(s, watermark[c], tally[c]) => Moved(s, probed[c], tally[c])
      BY <1>1, <2>1, <3>1, CountedTypes, MovedSince
    <3>3. Current(c, s) => Current(c, s)'
      BY <1>1, <2>1 DEF Current, Holds, Content
    <3> QED BY <2>2, <3>2, <3>3
  <2>4. \A u \in late : Harmless(u) => Harmless(u)'
    BY <1>1, <2>1 DEF Harmless, Old, Holds
  <2> QED BY <1>1, <1>2, <2>2, <2>3, <2>4 DEF PulledSoFar
<1> QED BY <1>3, <1>4

\* A pull that goes on has done with a section what it had, or does it.
LEMMA PullGoesOn ==
  ASSUME TypeOK, Stages, Taken, Times, Linked, Hashes, GateSees, Countable, Probes, DaysInOrder, Order,
         PulledSoFar, [Next]_vars, ~RebuildsInPull, pc \in Pulling, pc' \in Pulling, cur' = cur, probed' = probed
  PROVE  PulledSoFar'
<1>t. /\ cur \in Companies /\ probed[cur] # None /\ probed[cur] \in Seen(cur)
      /\ TypeOK' /\ (\A n \in Nat : n # None)
  BY TypeStep, NoneAssumption DEF TypeOK, Control, Pulling, Seen
<1>g. ~GateFull(cur) /\ ~rebuildFromTally /\ pc' # "dropped"
  BY DEF GateFull, BeginPull, RebuildsInPull, Pulling
<1>u. late \subseteq Upload /\ late' \subseteq Upload /\ \A u \in Upload : u.key[2] \in Sections
  BY <1>t DEF TypeOK, NetTypes, Upload, Keys
<1>n. pc \in {"sealing", "captured"} => pulled[NextPulled] # None
  BY DEF TypeOK, Control, NextPulled
<1>1. ASSUME NEW s \in Sections
      PROVE  /\ \/ s \in todo'
                \/ Moved(s, probed[cur], tally'[cur])
                \/ IF pulled'[s] = None THEN Current(cur, s)' ELSE pulled'[s] = tally'[cur].book[s]
             /\ \A u \in late' : OfSlot(u, cur, s) => Harmless(u)' \/ s \in todo' \/ pulled'[s] # None
  <2>0. /\ s \in todo \/ Moved(s, probed[cur], tally[cur])
                \/ IF pulled[s] = None THEN Current(cur, s) ELSE pulled[s] = tally[cur].book[s]
        /\ \A u \in late : OfSlot(u, cur, s) => Harmless(u) \/ s \in todo \/ pulled[s] # None
    BY DEF PulledSoFar, OfSlot
  <2>m. /\ Moved(s, probed[cur], tally[cur]) => Moved(s, probed[cur], tally'[cur])
        /\ tally'[cur].book[s] = tally[cur].book[s] \/ Moved(s, probed[cur], tally'[cur])
    BY <1>t, MovedStep
  <2>1. CASE pulled'[s] = pulled[s] /\ (s \in todo' <=> s \in todo)
    <3>1. CASE s \in todo
      BY <2>1, <3>1
    <3>2. CASE pulled[s] # None
      BY <2>0, <2>m, <2>1, <3>2
    <3>3. CASE s \notin todo /\ pulled[s] = None
      <4>1. ~(Enqueue /\ cur = cur /\ s = NextPulled)
        BY <1>n, <3>3 DEF Enqueue
      <4>2. Moved(s, probed[cur], tally[cur]) \/ Current(cur, s)
        BY <2>0, <3>3
      <4>3. \A u \in late : OfSlot(u, cur, s) => Harmless(u)
        BY <2>0, <3>3
      <4>4. \A c \in Companies : c = cur => Moved(s, probed[cur], tally'[c]) \/ Current(c, s)'
        BY <1>t, <1>g, <4>1, <4>2, <4>3, CurrentStep
      <4>5. \A u \in late' : OfSlot(u, cur, s) => Harmless(u)'
        BY <1>t, <1>g, <4>3, HarmlessStep
      <4>6. Moved(s, probed[cur], tally'[cur]) \/ Current(cur, s)'
        BY <1>t, <4>4 DEF Current
      <4> QED BY <2>1, <3>3, <4>5, <4>6
    <3> QED BY <3>1, <3>2, <3>3
  <2>2. CASE /\ Extract /\ s \in todo /\ UNCHANGED tally
             /\ pulled'[s] = IF s = "company" THEN probed[cur].book[s] ELSE tally[cur].book[s]
    <3>1. pulled'[s] # None
      BY <1>t, <2>2, StampTypes
    <3>2. probed[cur].book[s] = tally[cur].book[s] \/ Moved(s, probed[cur], tally[cur])
      BY <1>t DEF Probes
    <3> QED BY <2>2, <3>1, <3>2
  <2>3. CASE SectionUnchanged /\ s = NextPulled /\ pulled'[s] = None
    <3>1. UNCHANGED <<tally, outbox, server, late>>
      BY <2>3 DEF SectionUnchanged, tallyVars, storeVars, netVars
    <3>2. Current(cur, s) => Current(cur, s)'
      BY <3>1 DEF Current, Holds, Content
    <3>3. \A u \in late : Harmless(u) => Harmless(u)'
      BY <3>1 DEF Harmless, Old, Holds
    <3> QED BY <2>3, <3>1, <3>2, <3>3, UnchangedCurrent
  <2>4. CASE Enqueue /\ s = NextPulled /\ pulled'[s] = None
    <3>1. UNCHANGED <<tally, late>>
      BY <2>4 DEF Enqueue, tallyVars, netVars
    <3> QED BY <2>4, <3>1, EnqueuedCurrent
  <2> QED BY <2>1, <2>2, <2>3, <2>4, SectionStep
<1>2. \A u \in late' : u.key[1] = cur => Harmless(u)' \/ u.key[2] \in todo' \/ pulled'[u.key[2]] # None
  BY <1>1, <1>u DEF OfSlot
<1> QED BY <1>1, <1>2 DEF PulledSoFar

\* Every step but a repair leaves a pull with what it has done.
LEMMA PulledStep ==
  ASSUME TypeOK, Stages, Taken, Times, Linked, Hashes, GateSees, Countable, Probes, DaysInOrder, Order,
         Watermarked, PulledSoFar, [Next]_vars, ~RebuildsInPull
  PROVE  PulledSoFar'
<1>1. CASE pc' \notin Pulling
  BY <1>1 DEF PulledSoFar
<1>2. CASE pc' \in Pulling
  <2>1. CASE pc \in Pulling /\ cur' = cur /\ probed' = probed
    BY <1>2, <2>1, PullGoesOn
  <2>2. ASSUME NEW c \in Companies, GatePartial(c) \/ GateFull(c) PROVE PulledSoFar'
    BY <2>2, PullBegins
  <2> QED BY <1>2, <2>1, <2>2, PullingStep
<1> QED BY <1>1, <1>2

\* A company the gate would skip has a watermark, and nothing has moved since.
LEMMA SettledHasNotMoved ==
  ASSUME TypeOK, GateSees, NEW c \in Companies, Settled(c), NEW s \in Sections
  PROVE  watermark[c] # None /\ ~Moved(s, watermark[c], tally[c])
<1>1. tally[c].mst \in Nat /\ tally[c].vch \in Nat /\ Ids(c, tally[c]) = [guid |-> c, mst |-> tally[c].mst, vch |-> tally[c].vch]
  BY CountedTypes DEF Counted, Ids, AlterId, GateSees
<1>2. watermark[c] = [guid |-> c, mst |-> tally[c].mst, vch |-> tally[c].vch]
  BY <1>1 DEF Settled
<1>3. watermark[c] # None /\ watermark[c].mst = tally[c].mst /\ watermark[c].vch = tally[c].vch
  BY <1>1, <1>2, NoneAssumption
<1> QED BY <1>1, <1>3 DEF Moved, Below

\* Reverted and deleted vouchers move no counter the gate could go by.
OnlyCounted == \A b \in Budgets : b["revert"] = 0 /\ b["delete"] = 0

\* The owner is never shown a stale number under a green checkmark: when the gate
\* would skip a company, each of its sections as Tally has it is on the server or on
\* its way there, whatever edits, restores, lost answers, late uploads, refusals,
\* crashes and repairs went before, for every number of companies, sections and days.
\* The hypotheses are what the code does not answer for: a change no counter shows, a
\* clock set back while an upload is late, a death between the two statements that
\* abandon a row, and a repair that falls into a pull.
THEOREM StalenessIsNeverSilent ==
  ASSUME ClockOrLate, OnlyCounted, GateSees
  PROVE  Spec /\ [][~DiesDropped /\ ~RebuildsInPull]_vars => []NoSilentStaleness
<1> DEFINE Base == TypeOK /\ Stages /\ Taken /\ Times /\ Linked /\ Hashes /\ Countable
           Inv == Base /\ Probes /\ DaysInOrder /\ Order /\ Watermarked /\ PulledSoFar
<1>1. Init => Inv
  <2>1. Init => Countable
    BY DEF Init, OnlyCounted, Countable
  <2> QED BY <2>1, TypeInit, InitStages, InitTaken, InitTimes, InitLinked, InitHashes, InitProbes, InitDays, InitOrder, InitKept
<1>2. Inv /\ [Next]_vars /\ [~DiesDropped /\ ~RebuildsInPull]_vars => Inv'
  <2> SUFFICES ASSUME Inv, [Next]_vars, [~DiesDropped /\ ~RebuildsInPull]_vars PROVE Inv'
    OBVIOUS
  <2>1. ~DiesDropped
    BY DEF vars, DiesDropped
  <2>2. ~RebuildsInPull
    BY RebuildIsAStep
  <2> QED BY <2>1, <2>2, TypeStep, StagesStep, TakenStep, TimesStep, LinkedStep, HashesStep, CountableStep, ProbesStep,
             DaysStep, OrderStep, WatermarkedStep, PulledStep
<1>3. Inv => NoSilentStaleness
  <2> SUFFICES ASSUME Inv, NEW c \in Companies, Settled(c), NEW s \in Sections
               PROVE  (\E d \in Days : Holds(c, s, d)) /\ Destined(c, s) = tally[c].book[s]
    BY DEF NoSilentStaleness
  <2>1. PICK d \in Days : /\ Holds(c, s, d)
                          /\ \A e \in Days : Holds(c, s, e) => e <= d
                          /\ Content(<<c, s, d>>) = tally[c].book[s]
    BY SettledHasNotMoved DEF Watermarked, Kept, Settled, Current
  <2>2. NewestDay(c, s) = d
    <3>1. \A e \in Days : (Holds(c, s, e) /\ \A f \in Days : Holds(c, s, f) => f <= e) <=> e = d
      BY <2>1, InstanceAssumption DEF Days
    <3> QED BY <2>1, <3>1 DEF NewestDay
  <2> QED BY <2>1, <2>2 DEF Destined, Content
<1> HIDE DEF Inv
<1> QED BY <1>1, <1>2, <1>3, PTL DEF Spec

-----------------------------------------------------------------------------
(* The snapshots on this machine.                                          *)

\* The snapshot of the section is as Tally has it.
Shown(c, s) ==
  /\ snapshots[<<c, s>>] # None
  /\ snapshots[<<c, s>>].content = tally[c].book[s]

\* What has not moved since the watermark is shown; so is, in a pull, a section done
\* with and not moved since the probe.
Displayed ==
  /\ \A c \in Companies : watermark[c] # None =>
       \A s \in Sections : Moved(s, watermark[c], tally[c]) \/ Shown(c, s)
  /\ pc \in Pulling =>
       \A s \in Sections :
         \/ s \in todo
         \/ Moved(s, probed[cur], tally[cur])
         \/ IF pulled[s] = None THEN Shown(cur, s) ELSE pulled[s] = tally[cur].book[s]
  /\ pc = "captured" =>
       /\ snapshots[<<cur, NextPulled>>] # None
       /\ snapshots[<<cur, NextPulled>>].content = pulled[NextPulled]

\* What is queued or acknowledged at k is shown, or something newer is.
Captured(k, content) ==
  LET held == snapshots[<<k[1], k[2]>>]
  IN  held # None /\ content <= held.content /\ held.content <= tally[k[1]].book[k[2]]

CapturedFirst ==
  \A k \in Keys : Trusted(k[1]) =>
    /\ outbox[k] # None => Captured(k, outbox[k].content)
    /\ sectionHash[k] # None => Captured(k, sectionHash[k])

\* Nothing is shown in the initial state, and nothing needs to be.
LEMMA InitDisplayed == Init => Displayed /\ CapturedFirst
BY DEF Init, Displayed, CapturedFirst, Pulling

\* A snapshot is written by a capture, and the directory cleared by the owner.
LEMMA SnapshotStep ==
  ASSUME TypeOK, [Next]_vars, budget["halfRebuild"] = 0
  PROVE  UNCHANGED snapshots \/ Capture \/ rebuildFromTally
<1>1. CASE Books
  BY <1>1 DEF Books, VoucherEdit, MasterEdit, RevertEdit, DeleteVoucher, TakeBackup, RestoreBackup, storeVars
<1>2. CASE World
  BY <1>2 DEF World, CloseTally, OpenTally, Midnight, ClockStepsBack, storeVars
<1>3. CASE Pull
  BY <1>3 DEF Pull, StartCycle, Probe, GateSkips, GatePartial, GateFull, BeginPull, Extract, Extracted,
     ExtractThrows, SectionUnchanged, Enqueue, SetWatermark, storeVars
<1>4. CASE Drain
  BY <1>4 DEF Drain, BeginDrain, SendNext, UploadAccepted, UploadStale, ackSectionHash, DequeueAcked,
     deferAttempt, DropRow, invalidateWatermark, EndCycle, Answered, storeVars
<1>5. CASE Network
  BY <1>5 DEF Network, UploadRefused, UploadUnreachable, AckLost, UploadLate, LateArrival, Answered, storeVars
<1>6. CASE Crash
  BY <1>6 DEF Crash, storeVars
<1>7. CASE RebuildFails
  BY <1>7 DEF RebuildFails, Spend, TypeOK, WorldTypes, Disturbances
<1>8. CASE Elapse
  BY <1>8 DEF Elapse, BackoffElapses
<1>9. CASE UNCHANGED vars
  BY <1>9 DEF vars, storeVars
<1> QED BY <1>1, <1>2, <1>3, <1>4, <1>5, <1>6, <1>7, <1>8, <1>9 DEF Next, Machine

\* What a capture writes.
LEMMA CaptureFacts ==
  ASSUME TypeOK, Capture
  PROVE  /\ pc = "sealing" /\ pc' = "captured" /\ cur \in Companies /\ probed[cur] # None
         /\ NextPulled \in Sections /\ pulled[NextPulled] # None
         /\ UNCHANGED <<tallyVars, watermark, sectionHash, outbox, loopVars>>
         /\ snapshots'[<<cur, NextPulled>>] # None
         /\ snapshots'[<<cur, NextPulled>>].content = pulled[NextPulled]
         /\ \A p \in Slots : p # <<cur, NextPulled>> => snapshots'[p] = snapshots[p]
<1> DEFINE x == NextPulled
<1>1. /\ pc = "sealing" /\ pc' = "captured" /\ cur \in Companies /\ probed[cur] # None /\ asOf \in Days
      /\ snapshots \in [Slots -> OrNone([asOf : Days, content : Nat])] /\ pulled \in [Sections -> OrNone(Nat)]
      /\ UNCHANGED <<tallyVars, watermark, sectionHash, outbox, loopVars>>
      /\ snapshots' = [snapshots EXCEPT ![<<cur, x>>] = [asOf |-> asOf, content |-> pulled[x]]]
  BY DEF Capture, TypeOK, Control, LoopTypes, StoreTypes
<1>2. x \in Sections /\ pulled[x] # None
  BY <1>1 DEF TypeOK, Control, NextPulled
<1> HIDE DEF x
<1>3. <<cur, x>> \in Slots
  BY <1>1, <1>2 DEF Slots
<1>4. [asOf |-> asOf, content |-> pulled[x]] \in [asOf : Days, content : Nat]
  BY <1>1, <1>2 DEF OrNone
<1>5. [asOf |-> asOf, content |-> pulled[x]] # None
  BY <1>4, NoneAssumption
<1>6. snapshots'[<<cur, x>>] = [asOf |-> asOf, content |-> pulled[x]]
  BY <1>1, <1>3
<1> QED BY <1>1, <1>2, <1>5, <1>6 DEF x

\* The watermark stands for what is shown.
LEMMA ShownStep ==
  ASSUME TypeOK, Stages, GateSees, Countable, budget["halfRebuild"] = 0, Probes, Displayed, [Next]_vars,
         NEW c \in Companies, watermark'[c] # None, NEW s \in Sections
  PROVE  Moved(s, watermark'[c], tally'[c]) \/ Shown(c, s)'
<1>0. /\ <<c, s>> \in Slots
      /\ ~rebuildFromTally
  BY DEF Slots, rebuildFromTally
<1>1. CASE watermark'[c] = watermark[c]
  <2>1. watermark[c] \in Seen(c) /\ (Moved(s, watermark[c], tally[c]) \/ Shown(c, s))
    BY <1>1 DEF Displayed, Seen
  <2>2. /\ Moved(s, watermark[c], tally[c]) => Moved(s, watermark[c], tally'[c])
        /\ tally'[c].book[s] = tally[c].book[s] \/ Moved(s, watermark[c], tally'[c])
    BY <2>1, MovedStep
  <2>3. CASE snapshots'[<<c, s>>] = snapshots[<<c, s>>]
    BY <1>1, <2>1, <2>2, <2>3 DEF Shown
  <2>4. CASE Capture /\ c = cur /\ s = NextPulled
    <3>1. /\ pc = "sealing" /\ probed[c] # None /\ pulled[s] # None /\ UNCHANGED tally
          /\ snapshots'[<<c, s>>] # None /\ snapshots'[<<c, s>>].content = pulled[s]
      BY <2>4, CaptureFacts DEF tallyVars
    <3>2. Moved(s, probed[c], tally[c]) \/ pulled[s] = tally[c].book[s]
      BY <2>4, <3>1 DEF Displayed, Pulling, Stages
    <3>3. /\ ~Below(probed[c], watermark[c])
          /\ Below(tally[c], probed[c]) => Below(tally[c], watermark[c])
      BY <1>1, <2>4, <3>1 DEF Probes, Pulling
    <3>4. Moved(s, probed[c], tally[c]) => Moved(s, watermark[c], tally[c])
      BY <1>1, <3>1, <3>3, CountedTypes, MovedBefore
    <3> QED BY <1>1, <3>1, <3>2, <3>4 DEF Shown
  <2> QED BY <1>0, <2>3, <2>4, SnapshotStep, CaptureFacts
<1>2. CASE SetWatermark /\ c = cur
  <2>1. /\ pc = "marking" /\ UNCHANGED <<tally, snapshots>> /\ watermark'[c] = Ids(c, probed[c])
    BY <1>2 DEF SetWatermark, tallyVars, TypeOK, StoreTypes
  <2>2. Moved(s, probed[c], tally[c]) \/ Shown(c, s)
    BY <1>2, <2>1 DEF Displayed, Stages, Pulling
  <2>3. watermark'[c].mst = probed[c].mst /\ watermark'[c].vch = probed[c].vch
    BY <2>1 DEF Ids, AlterId, GateSees
  <2>4. Moved(s, probed[c], tally[c]) => Moved(s, watermark'[c], tally[c])
    BY <2>3 DEF Moved, Below
  <2> QED BY <2>1, <2>2, <2>4 DEF Shown
<1> QED BY <1>1, <1>2, WatermarkStep

\* A section the hash gate passes over is shown already.
LEMMA UnchangedShown ==
  ASSUME TypeOK, Stages, Linked, GateSees, Probes, Displayed, CapturedFirst, SectionUnchanged,
         NEW s \in Sections, s = NextPulled
  PROVE  Moved(s, probed[cur], tally[cur]) \/ Shown(cur, s)
<1> DEFINE k == <<cur, s, asOf>>
<1>1. /\ pc = "sealing" /\ cur \in Companies /\ probed[cur] # None /\ asOf \in Days /\ todo = {} /\ pulled[s] # None
      /\ sectionHash[k] = pulled[s]
  BY DEF SectionUnchanged, TypeOK, Control, LoopTypes, Stages, NextPulled, shouldUpload, KeyOf
<1>2. k \in Keys /\ k[1] = cur /\ k[2] = s /\ Company(k) = cur
  BY <1>1 DEF Keys, Company
<1>3. watermark[cur] # None
  BY <1>1, <1>2 DEF Linked, Pulling
<1>4. SUFFICES ASSUME ~Moved(s, probed[cur], tally[cur]) PROVE Shown(cur, s)
  OBVIOUS
<1>5. ~Below(tally[cur], probed[cur]) /\ ~Below(probed[cur], watermark[cur])
  BY <1>1, <1>3, <1>4 DEF Probes, Pulling, Moved
<1>6. ~Below(tally[cur], watermark[cur])
  BY <1>1, <1>3, <1>5, CountedTypes DEF Below, Counted
<1>7. Trusted(cur)
  BY <1>3, <1>5, <1>6 DEF Trusted, Rewound, Seen
<1>8. Captured(k, sectionHash[k])
  BY <1>1, <1>2, <1>7, StampTypes DEF CapturedFirst
<1>9. pulled[s] = tally[cur].book[s]
  BY <1>1, <1>4 DEF Displayed, Pulling
<1>10. /\ snapshots[<<cur, s>>] # None
       /\ pulled[s] <= snapshots[<<cur, s>>].content /\ snapshots[<<cur, s>>].content <= pulled[s]
  BY <1>1, <1>2, <1>8, <1>9 DEF Captured
<1>11. snapshots[<<cur, s>>].content \in Nat /\ pulled[s] \in Nat
  BY <1>1, <1>10, StampTypes DEF TypeOK, StoreTypes, OrNone, Slots
<1> QED BY <1>9, <1>10, <1>11 DEF Shown

\* A pull shows what it has done with.
LEMMA ShownSoFar ==
  ASSUME TypeOK, Stages, Linked, GateSees, Countable, budget["halfRebuild"] = 0, Probes, Displayed, CapturedFirst,
         [Next]_vars, ~RebuildsInPull, pc' \in Pulling, NEW s \in Sections
  PROVE  \/ s \in todo'
         \/ Moved(s, probed'[cur'], tally'[cur'])
         \/ IF pulled'[s] = None THEN Shown(cur, s)' ELSE pulled'[s] = tally'[cur'].book[s]
<1>1. CASE pc \in Pulling /\ cur' = cur /\ probed' = probed
  <2>t. /\ cur \in Companies /\ probed[cur] # None /\ probed[cur] \in Seen(cur) /\ <<cur, s>> \in Slots
        /\ (\A n \in Nat : n # None)
    BY <1>1, NoneAssumption DEF TypeOK, Control, Pulling, Seen, Slots
  <2>0. s \in todo \/ Moved(s, probed[cur], tally[cur])
                \/ IF pulled[s] = None THEN Shown(cur, s) ELSE pulled[s] = tally[cur].book[s]
    BY <1>1 DEF Displayed
  <2>m. /\ Moved(s, probed[cur], tally[cur]) => Moved(s, probed[cur], tally'[cur])
        /\ tally'[cur].book[s] = tally[cur].book[s] \/ Moved(s, probed[cur], tally'[cur])
    BY <2>t, MovedStep
  <2>1. CASE pulled'[s] = pulled[s] /\ (s \in todo' <=> s \in todo)
    <3>1. CASE s \in todo \/ pulled[s] # None
      BY <1>1, <2>0, <2>m, <2>1, <3>1
    <3>2. CASE s \notin todo /\ pulled[s] = None
      <4>1. snapshots'[<<cur, s>>] = snapshots[<<cur, s>>]
        BY <1>1, <2>t, <3>2, SnapshotStep, CaptureFacts DEF RebuildsInPull
      <4>2. Moved(s, probed[cur], tally'[cur]) \/ Shown(cur, s)'
        BY <1>1, <2>0, <2>m, <3>2, <4>1 DEF Shown
      <4> QED BY <1>1, <2>1, <3>2, <4>2
    <3> QED BY <3>1, <3>2
  <2>2. CASE /\ Extract /\ s \in todo /\ UNCHANGED tally
             /\ pulled'[s] = IF s = "company" THEN probed[cur].book[s] ELSE tally[cur].book[s]
    <3>1. pulled'[s] # None
      BY <2>t, <2>2, StampTypes
    <3>2. probed[cur].book[s] = tally[cur].book[s] \/ Moved(s, probed[cur], tally[cur])
      BY <2>t DEF Probes
    <3> QED BY <1>1, <2>2, <3>1, <3>2
  <2>3. CASE SectionUnchanged /\ s = NextPulled /\ pulled'[s] = None
    <3>1. UNCHANGED <<tally, snapshots>>
      BY <2>3 DEF SectionUnchanged, tallyVars, storeVars
    <3>2. Moved(s, probed[cur], tally[cur]) \/ Shown(cur, s)
      BY <2>3, UnchangedShown
    <3> QED BY <1>1, <2>3, <3>1, <3>2 DEF Shown
  <2>4. CASE Enqueue /\ s = NextPulled /\ pulled'[s] = None
    <3>1. UNCHANGED <<tally, snapshots>> /\ pc = "captured"
      BY <2>4 DEF Enqueue, tallyVars
    <3>2. s \notin todo /\ pulled[s] # None /\ snapshots[<<cur, s>>] # None /\ snapshots[<<cur, s>>].content = pulled[s]
      BY <2>4, <3>1 DEF Displayed, Stages, TypeOK, Control, NextPulled
    <3> QED BY <1>1, <2>0, <2>4, <3>1, <3>2 DEF Shown
  <2> QED BY <1>1, <2>1, <2>2, <2>3, <2>4, SectionStep
<1>2. ASSUME NEW c \in Companies, GatePartial(c) \/ GateFull(c), s \notin todo'
      PROVE  \/ Moved(s, probed'[cur'], tally'[cur'])
             \/ IF pulled'[s] = None THEN Shown(cur, s)' ELSE pulled'[s] = tally'[cur'].book[s]
  <2>1. /\ pc = "gating" /\ probed[c] # None /\ cur' = c /\ pulled' = pulled
        /\ todo' = Decision(c).sections \cap Sections /\ UNCHANGED <<tally, snapshots, probed>>
    BY <1>2 DEF GatePartial, GateFull, BeginPull, tallyVars
  <2>2. pulled'[s] = None
    BY <2>1 DEF Stages
  <2>3. GatePartial(c)
    BY <1>2, <2>1, FullAsksAll, InstanceAssumption DEF GateFull
  <2>4. watermark[c] # None
    BY <2>3 DEF GatePartial, Decision, getWatermark, decideGate, Void, Full
  <2>5. Moved(s, watermark[c], tally[c]) \/ Shown(c, s)
    BY <2>4 DEF Displayed
  <2>6. ~Moved(s, watermark[c], probed[c])
    BY <1>2, <2>1, <2>4, GateAsks
  <2>7. Moved(s, watermark[c], tally[c]) => Moved(s, probed[c], tally[c])
    BY <2>1, <2>4, <2>6, CountedTypes, MovedSince
  <2> QED BY <2>1, <2>2, <2>5, <2>7 DEF Shown
<1> QED BY <1>1, <1>2, PullingStep

\* What has just been captured is in its file until it is queued.
LEMMA CapturedStays ==
  ASSUME TypeOK, [Next]_vars, pc' = "captured"
  PROVE  Capture \/ (pc = "captured" /\ UNCHANGED <<cur, pulled, snapshots>>)
BY DEF Next, Books, VoucherEdit, MasterEdit, RevertEdit, DeleteVoucher, TakeBackup,
   RestoreBackup, World, CloseTally, OpenTally, Midnight, ClockStepsBack, Pull, StartCycle, Probe, GateSkips,
   GatePartial, GateFull, BeginPull, Extract, Extracted, ExtractThrows, SectionUnchanged, Enqueue, Handled,
   SetWatermark, Drain, BeginDrain, SendNext, UploadAccepted, UploadStale, ackSectionHash, DequeueAcked,
   deferAttempt, DropRow, invalidateWatermark, EndCycle, Network, UploadRefused, UploadUnreachable, AckLost,
   UploadLate, LateArrival, Answered, Failed, Machine, Crash, Unwind, rebuildFromTally, RebuildFails, Elapse,
   BackoffElapses, vars, loopVars, storeVars, Awaits

\* Every step but a repair in a pull leaves what is shown fit for the watermark.
LEMMA DisplayedStep ==
  ASSUME TypeOK, Stages, Linked, GateSees, Countable, budget["halfRebuild"] = 0, Probes, Displayed, CapturedFirst,
         [Next]_vars, ~RebuildsInPull
  PROVE  Displayed'
<1>1. pc' = "captured" =>
        /\ snapshots'[<<cur', NextPulled'>>] # None
        /\ snapshots'[<<cur', NextPulled'>>].content = pulled'[NextPulled']
  <2> SUFFICES ASSUME pc' = "captured"
               PROVE  /\ snapshots'[<<cur', NextPulled'>>] # None
                      /\ snapshots'[<<cur', NextPulled'>>].content = pulled'[NextPulled']
    OBVIOUS
  <2>1. CASE Capture
    <3>1. UNCHANGED <<cur, pulled>>
      BY <2>1 DEF Capture, loopVars
    <3>2. NextPulled' = NextPulled
      BY <3>1 DEF NextPulled
    <3> QED BY <2>1, <3>1, <3>2, CaptureFacts
  <2>2. CASE pc = "captured" /\ UNCHANGED <<cur, pulled, snapshots>>
    <3>2. NextPulled' = NextPulled
      BY <2>2 DEF NextPulled
    <3> QED BY <2>2, <3>2 DEF Displayed
  <2> QED BY <2>1, <2>2, CapturedStays
<1>2. \A c \in Companies : watermark'[c] # None =>
        \A s \in Sections : Moved(s, watermark'[c], tally'[c]) \/ Shown(c, s)'
  BY ShownStep
<1>3. pc' \in Pulling =>
        \A s \in Sections :
          \/ s \in todo'
          \/ Moved(s, probed'[cur'], tally'[cur'])
          \/ IF pulled'[s] = None THEN Shown(cur, s)' ELSE pulled'[s] = tally'[cur'].book[s]
  BY ShownSoFar
<1> QED BY <1>1, <1>2, <1>3 DEF Displayed

\* What is shown of a trusted company is no older than what is queued or acknowledged.
LEMMA CapturedFirstStep ==
  ASSUME TypeOK, Stages, Taken, Linked, GateSees, Countable, budget["halfRebuild"] = 0, Probes, Order, Displayed,
         CapturedFirst, [Next]_vars
  PROVE  CapturedFirst'
<1> SUFFICES ASSUME NEW k \in Keys, Trusted(k[1])'
             PROVE  /\ outbox'[k] # None => Captured(k, outbox[k].content)'
                    /\ sectionHash'[k] # None => Captured(k, sectionHash[k])'
  BY DEF CapturedFirst
<1> DEFINE c == k[1]
           s == k[2]
           After(n) == /\ snapshots'[<<c, s>>] # None /\ n <= snapshots'[<<c, s>>].content
                       /\ snapshots'[<<c, s>>].content <= tally'[c].book[s]
<1>a. /\ Captured(k, outbox[k].content)' <=> After(outbox'[k].content)
      /\ Captured(k, sectionHash[k])' <=> After(sectionHash'[k])
  BY DEF Captured
<1>k. c \in Companies /\ s \in Sections /\ <<c, s>> \in Slots /\ k = <<k[1], k[2], k[3]>> /\ Company(k) = c
  BY StampTypes DEF Slots, Company
<1>t. TypeOK' /\ tally[c].book[s] \in Nat /\ tally'[c].book[s] \in Nat
  BY <1>k, TypeStep DEF TypeOK, WorldTypes, TallyState
<1>p. /\ snapshots[<<c, s>>] # None => snapshots[<<c, s>>].content \in Nat
      /\ snapshots'[<<c, s>>] # None => snapshots'[<<c, s>>].content \in Nat
  BY <1>k, <1>t DEF TypeOK, StoreTypes, OrNone
<1>b. tally[c].book[s] <= tally'[c].book[s] /\ (Trusted(c) \/ GateFull(c))
  BY <1>k, TrustedStep
<1> HIDE DEF c, s, After
<1>c. \A n : Captured(k, n) <=> /\ snapshots[<<c, s>>] # None /\ n <= snapshots[<<c, s>>].content
                                /\ snapshots[<<c, s>>].content <= tally[c].book[s]
  BY DEF Captured, c, s
<1>1. CASE GateFull(c) \/ rebuildFromTally
  <2>1. outbox'[k] = None /\ sectionHash'[k] = None
    BY <1>1, <1>k DEF GateFull, rebuildFromTally, Forget
  <2> QED BY <2>1
<1>2. CASE Trusted(c) /\ ~GateFull(c) /\ ~rebuildFromTally
  <2>o. /\ \A x \in Sections : PulledOrdered(c, x)
        /\ RowOrdered(k) /\ HashOrdered(k)
        /\ outbox[k] # None => Captured(k, outbox[k].content)
        /\ sectionHash[k] # None => Captured(k, sectionHash[k])
    BY <1>2, <1>k DEF Order, Ordered, CapturedFirst, c
  <2>n. /\ outbox[k] # None => outbox[k].content \in Nat
        /\ sectionHash[k] # None => sectionHash[k] \in Nat
    BY StampTypes
  <2>1. ASSUME NEW n \in Nat, Captured(k, n),
               Capture /\ c = cur /\ s = NextPulled => n <= pulled[s]
        PROVE  After(n)
    <3>1. CASE snapshots'[<<c, s>>] = snapshots[<<c, s>>]
      BY <1>b, <1>c, <1>t, <1>p, <2>1, <3>1 DEF After
    <3>2. CASE Capture /\ c = cur /\ s = NextPulled
      <4>1. /\ pulled[s] # None /\ snapshots'[<<c, s>>] # None /\ snapshots'[<<c, s>>].content = pulled[s]
        BY <3>2, CaptureFacts
      <4>2. pulled[s] <= tally[c].book[s]
        BY <1>k, <2>o, <3>2, <4>1 DEF PulledOrdered
      <4>3. pulled[s] \in Nat
        BY <1>k, <4>1, StampTypes
      <4> QED BY <1>b, <1>t, <2>1, <3>2, <4>1, <4>2, <4>3 DEF After
    <3> QED BY <1>2, <1>k, <3>1, <3>2, SnapshotStep, CaptureFacts
  <2>2. outbox[k] # None => After(outbox[k].content)
    <3> SUFFICES ASSUME outbox[k] # None PROVE After(outbox[k].content)
      OBVIOUS
    <3>1. Capture /\ c = cur /\ s = NextPulled => outbox[k].content <= pulled[s]
      BY <1>k, <2>o, CaptureFacts DEF RowOrdered, c, s
    <3> QED BY <2>1, <2>n, <2>o, <3>1
  <2>3. sectionHash[k] # None => After(sectionHash[k])
    <3> SUFFICES ASSUME sectionHash[k] # None PROVE After(sectionHash[k])
      OBVIOUS
    <3>1. Capture /\ c = cur /\ s = NextPulled => sectionHash[k] <= pulled[s]
      <4> SUFFICES ASSUME Capture, c = cur, s = NextPulled PROVE sectionHash[k] <= pulled[s]
        OBVIOUS
      <4>1. probed[c] # None /\ pulled[s] # None
        BY CaptureFacts
      <4>2. sectionHash[k] <= probed[c].book[s] /\ probed[c].book[s] <= pulled[s]
        BY <1>k, <2>o, <4>1 DEF HashOrdered, PulledOrdered, c, s
      <4>3. probed[c].book[s] \in Nat /\ pulled[s] \in Nat
        BY <1>k, <4>1, StampTypes
      <4> QED BY <2>n, <4>2, <4>3
    <3> QED BY <2>1, <2>n, <2>o, <3>1
  <2>4. outbox'[k] # None => After(outbox'[k].content)
    <3>1. CASE OutboxKeeps
      BY <2>2, <3>1 DEF OutboxKeeps
    <3>2. CASE Enqueue /\ k # KeyOf(NextPulled)
      <4>1. outbox'[k] = outbox[k]
        BY <3>2, Enqueued
      <4> QED BY <2>2, <4>1
    <3>3. CASE Enqueue /\ k = KeyOf(NextPulled)
      <4>1. c = cur /\ s = NextPulled
        BY <3>3 DEF KeyOf, c, s
      <4>2. /\ pc = "captured" /\ UNCHANGED <<tally, snapshots>> /\ pulled[s] # None
        BY <3>3, <4>1 DEF Enqueue, tallyVars, TypeOK, Control, NextPulled
      <4>3. outbox'[k].content = pulled[s]
        BY <3>3, <4>1, Enqueued
      <4>4. snapshots[<<c, s>>] # None /\ snapshots[<<c, s>>].content = pulled[s]
        BY <4>1, <4>2 DEF Displayed
      <4>5. pulled[s] <= tally[c].book[s] /\ pulled[s] \in Nat
        BY <1>k, <2>o, <4>1, <4>2, StampTypes DEF PulledOrdered
      <4> QED BY <4>2, <4>3, <4>4, <4>5 DEF After
    <3> QED BY <3>1, <3>2, <3>3, OutboxStep
  <2>5. sectionHash'[k] # None => After(sectionHash'[k])
    <3>1. CASE sectionHash'[k] \in {sectionHash[k], None}
      BY <2>3, <3>1
    <3>2. CASE ackSectionHash /\ k = sent.key /\ sectionHash'[k] = sent.content
      <4>1. pc = "acking" /\ sent \in InFlight
        BY <3>2, SentInFlight DEF ackSectionHash, Uploading
      <4>2. watermark[c] # None
        BY <1>2, <1>k, <4>1, NoneAssumption DEF Trusted, Stages, Pulling
      <4>3. outbox[k] # None
        BY <1>k, <3>2, <4>1, <4>2 DEF Linked
      <4>4. outbox[k].content = sent.content
        BY <3>2, <4>1, <4>3 DEF Taken
      <4> QED BY <2>2, <3>2, <4>3, <4>4
    <3> QED BY <3>1, <3>2, HashStep
  <2> QED BY <1>a, <2>4, <2>5
<1> QED BY <1>b, <1>1, <1>2

\* No repair stops half way through the snapshot directory (a file held open).
NoHalfRebuild == \A b \in Budgets : b["halfRebuild"] = 0

\* That budget is not refilled either.
LEMMA NoHalfStep ==
  ASSUME TypeOK, budget["halfRebuild"] = 0, [Next]_vars
  PROVE  budget'["halfRebuild"] = 0
BY TypeStep, BudgetStep DEF TypeOK, WorldTypes, Disturbances

\* The dashboard on this machine is not stale either, and needs less for it: it does
\* not depend on clocks, on the server, or on how a row is abandoned.
THEOREM DashboardStaysFresh ==
  ASSUME OnlyCounted, NoHalfRebuild, GateSees
  PROVE  Spec /\ [][~RebuildsInPull]_vars => []LocalDashboardFresh
<1> DEFINE Base == TypeOK /\ Stages /\ Taken /\ Linked /\ Countable /\ budget["halfRebuild"] = 0
           Inv == Base /\ Probes /\ Order /\ Displayed /\ CapturedFirst
<1>1. Init => Inv
  <2>1. Init => Countable /\ budget["halfRebuild"] = 0
    BY DEF Init, OnlyCounted, Countable, NoHalfRebuild
  <2> QED BY <2>1, TypeInit, InitStages, InitTaken, InitLinked, InitProbes, InitOrder, InitDisplayed
<1>2. Inv /\ [Next]_vars /\ [~RebuildsInPull]_vars => Inv'
  <2> SUFFICES ASSUME Inv, [Next]_vars, [~RebuildsInPull]_vars PROVE Inv'
    OBVIOUS
  <2>1. ~RebuildsInPull
    BY RebuildIsAStep
  <2> QED BY <2>1, TypeStep, StagesStep, TakenStep, LinkedStep, CountableStep, NoHalfStep, ProbesStep, OrderStep,
             DisplayedStep, CapturedFirstStep
<1>3. Inv => LocalDashboardFresh
  <2> SUFFICES ASSUME Inv, NEW c \in Companies, Settled(c), NEW s \in Sections PROVE Shown(c, s)
    BY DEF LocalDashboardFresh, Shown
  <2>1. watermark[c] # None /\ ~Moved(s, watermark[c], tally[c])
    BY SettledHasNotMoved
  <2> QED BY <2>1 DEF Displayed
<1> HIDE DEF Inv
<1> QED BY <1>1, <1>2, <1>3, PTL DEF Spec
=============================================================================
