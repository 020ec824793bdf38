----------------------------- MODULE SyncCycle -----------------------------
(***************************************************************************)
(* The Bridge's sync cycle: Tally, the probe and the AlterID gate, the     *)
(* extraction, the local store (watermarks, acknowledged hashes, outbox,   *)
(* sealed snapshots), the drain of the outbox over an unreliable network   *)
(* and the server's table of snapshots.                                    *)
(*                                                                         *)
(* One action is one stretch of synchronous code between two awaits, cut   *)
(* further wherever a crash between two durable writes is observable: each *)
(* SQLite statement (or transaction) commits by itself.                    *)
(*                                                                         *)
(* The content of a section is a stamp: every edit in Tally gives a stamp  *)
(* never used before to the sections it changes, and equality of stamps is *)
(* equality of content hashes.  What Tally, the owner, the network and the *)
(* machine may do to the cycle, and how often, is Budgets.                 *)
(***************************************************************************)
EXTENDS SyncGate, FiniteSets

CONSTANTS
  Companies,        \* the companies open in Tally
  Sections,         \* the sections of the instance
  VoucherShows,     \* sections whose content a voucher edit can change
  MasterShows,      \* sections whose content a master edit can change
  BrokenCompanies,  \* companies whose extraction throws every time
  BlindCompanies,   \* companies whose probe rows carry no AlterIDs
  MaxDay,           \* last calendar day
  MAX_ATTEMPTS,     \* orchestrator.ts: attempts before a row is abandoned
  DrainLimit,       \* store.ts due(): rows taken by one drain
  Budgets           \* how many times each kind of disturbance may happen: one choice per behaviour

Days == 0 .. MaxDay
Keys == Companies \X Sections \X Days
Slots == Companies \X Sections

Disturbances ==
  {"voucher", "master", "revert", "delete", "backup", "restore", "close",
   "midnight", "clockBack", "unreachable", "ackLost", "late", "refuse",
   "crash", "rebuild", "midRebuild", "halfRebuild"}

ASSUME BudgetAssumption == Budgets \subseteq [Disturbances -> Nat]

ASSUME InstanceAssumption ==
  /\ Sections \subseteq SECTIONS /\ Sections # {}
  /\ VoucherShows \subseteq Sections
  /\ MasterShows \subseteq Sections
  /\ BrokenCompanies \subseteq Companies
  /\ BlindCompanies \subseteq Companies
  /\ MaxDay \in Nat
  /\ MAX_ATTEMPTS \in Nat
  /\ DrainLimit \in Nat
  /\ NaN \notin Nat

VARIABLES
  \* Tally and the calendar
  tally,        \* company -> [mst, vch, book: section -> stamp]
  backup,       \* company -> the state a restore brings back
  tallyOpen,
  today,
  stamp,        \* the last stamp given out
  clock,        \* Date.now()
  budget,       \* disturbances left
  \* sync.db and the snapshot directory: survive a crash
  watermark,    \* company -> [guid, mst, vch] or None
  sectionHash,  \* key -> acknowledged hash or None
  outbox,       \* key -> row or None: one row per (company, section, as_of)
  snapshots,    \* <<company, section>> -> [asOf, content] or None
  \* the network and the server
  server,       \* key -> [content, ts] or None
  late,         \* uploads the server may still execute although the Bridge gave up on them
  \* the cycle in flight: lost in a crash
  pc,
  asOf,         \* the day the cycle started on
  probed,       \* company -> what the probe saw, until the loop is past it
  cur,          \* the company being synced
  todo,         \* its sections still to extract
  pulled,       \* section -> extracted content not yet handled, or None
  rows,         \* outbox rows read by due() and not yet sent
  sent          \* the row being uploaded

tallyVars == <<tally, backup, tallyOpen, today, stamp>>
storeVars == <<watermark, sectionHash, outbox, snapshots>>
netVars   == <<server, late>>
loopVars  == <<asOf, probed, cur, todo, pulled>>
drainVars == <<rows, sent>>
vars == <<tallyVars, clock, budget, storeVars, netVars, pc, loopVars, drainVars>>

PCs == {"idle", "probing", "gating", "pulling", "sealing", "captured",
        "marking", "draining", "sending", "acking", "acked", "deferring",
        "dropping", "dropped"}

\* Where the main process is parked in an await, so that an IPC handler can
\* run: elsewhere the cycle is in synchronous code.
Awaits == {"idle", "probing", "pulling", "sealing", "sending"}

Company(c) == c[1]

\* parseProbeRow: a column that is missing or no number is read as 0.
AlterId(c, n) == IF c \in BlindCompanies THEN 0 ELSE n

Ids(c, t) == [guid |-> c, mst |-> AlterId(c, t.mst), vch |-> AlterId(c, t.vch)]

Row == [content : Nat, ts : Nat, attempts : Nat, due : BOOLEAN, created : Nat]
Upload == [key : Keys, content : Nat, ts : Nat]
Stored == [content : Nat, ts : Nat]

\* The absence of a value is none of the values.
ASSUME NoneAssumption ==
  /\ None \notin Nat /\ None \notin Companies /\ None \notin Row /\ None \notin Stored
  /\ None \notin [guid : Companies, mst : Nat, vch : Nat]
  /\ None \notin [asOf : Days, content : Nat]

Init ==
  /\ tally = [c \in Companies |-> [mst |-> 1, vch |-> 1, book |-> [s \in Sections |-> 0]]]
  /\ backup = tally
  /\ tallyOpen = TRUE
  /\ today = 0
  /\ stamp = 0
  /\ clock = 0
  /\ budget \in Budgets
  /\ watermark = [c \in Companies |-> None]
  /\ sectionHash = [k \in Keys |-> None]
  /\ outbox = [k \in Keys |-> None]
  /\ snapshots = [p \in Slots |-> None]
  /\ server = [k \in Keys |-> None]
  /\ late = {}
  /\ pc = "idle"
  /\ asOf = 0
  /\ probed = [c \in Companies |-> None]
  /\ cur = None
  /\ todo = {}
  /\ pulled = [s \in Sections |-> None]
  /\ rows = {}
  /\ sent = None

-----------------------------------------------------------------------------
(* Tally, the calendar and the owner. *)

Spend(kind) ==
  /\ budget[kind] > 0
  /\ budget' = [budget EXCEPT ![kind] = @ - 1]

\* Tally counts below what the Bridge has already seen of this company.
Below(t, w) == t.mst < w.mst \/ t.vch < w.vch

Seen(c) == {watermark[c], probed[c]} \ {None}

Rewound(c) == \E w \in Seen(c) : Below(tally[c], w)

Rebook(c, S, content) ==
  [s \in Sections |-> IF s \in S THEN content ELSE tally[c].book[s]]

\* The sections of S get new content, and the counters move up.
Entered(c, masters, vouchers, S, content) ==
  tally' = [tally EXCEPT ![c] = [mst |-> tally[c].mst + masters,
                                 vch |-> tally[c].vch + vouchers,
                                 book |-> Rebook(c, S, content)]]

\* An edit changes some of the sections that show that kind of data and bumps
\* that kind's counter.  After a restore the Bridge is given the time to see
\* the counters lower before they climb back (the gate has no other sign).
VoucherEdit(c) ==
  /\ Spend("voucher")
  /\ ~Rewound(c)
  /\ stamp' = stamp + 1
  /\ \E S \in (SUBSET VoucherShows) \ {{}} : Entered(c, 0, 1, S, stamp')
  /\ UNCHANGED <<backup, tallyOpen, today, clock, storeVars, netVars, pc, loopVars, drainVars>>

MasterEdit(c) ==
  /\ Spend("master")
  /\ ~Rewound(c)
  /\ stamp' = stamp + 1
  /\ \E S \in (SUBSET MasterShows) \ {{}} : Entered(c, 1, 0, S, stamp')
  /\ UNCHANGED <<backup, tallyOpen, today, clock, storeVars, netVars, pc, loopVars, drainVars>>

\* A voucher entered and then reversed: the section is what it was before.
RevertEdit(c) ==
  /\ Spend("revert")
  /\ ~Rewound(c)
  /\ \E s \in VoucherShows, old \in 0 .. stamp :
       old < tally[c].book[s] /\ Entered(c, 0, 1, {s}, old)
  /\ UNCHANGED <<backup, tallyOpen, today, stamp, clock, storeVars, netVars, pc, loopVars, drainVars>>

\* "A deleted voucher does not bump anything observable; it just vanishes."
DeleteVoucher(c) ==
  /\ Spend("delete")
  /\ stamp' = stamp + 1
  /\ \E s \in VoucherShows : Entered(c, 0, 0, {s}, stamp')
  /\ UNCHANGED <<backup, tallyOpen, today, clock, storeVars, netVars, pc, loopVars, drainVars>>

TakeBackup(c) ==
  /\ Spend("backup")
  /\ backup' = [backup EXCEPT ![c] = tally[c]]
  /\ UNCHANGED <<tally, tallyOpen, today, stamp, clock, storeVars, netVars, pc, loopVars, drainVars>>

\* The restored counters are lower than the watermark in force and the one
\* about to be: the backward move is what the gate has to go by.
RestoreBackup(c) ==
  /\ Spend("restore")
  /\ tally' = [tally EXCEPT ![c] = backup[c]]
  /\ \A w \in Seen(c) : Below(backup[c], w)
  /\ UNCHANGED <<backup, tallyOpen, today, stamp, clock, storeVars, netVars, pc, loopVars, drainVars>>

CloseTally ==
  /\ Spend("close")
  /\ tallyOpen
  /\ tallyOpen' = FALSE
  /\ UNCHANGED <<tally, backup, today, stamp, clock, storeVars, netVars, pc, loopVars, drainVars>>

OpenTally ==
  /\ ~tallyOpen
  /\ tallyOpen' = TRUE
  /\ UNCHANGED <<tally, backup, today, stamp, clock, budget, storeVars, netVars, pc, loopVars, drainVars>>

Midnight ==
  /\ Spend("midnight")
  /\ today < MaxDay
  /\ today' = today + 1
  /\ UNCHANGED <<tally, backup, tallyOpen, stamp, clock, storeVars, netVars, pc, loopVars, drainVars>>

\* The PC's clock is set back (time synchronisation, a dead battery).
ClockStepsBack ==
  /\ Spend("clockBack")
  /\ clock' \in 0 .. clock - 1
  /\ UNCHANGED <<tallyVars, storeVars, netVars, pc, loopVars, drainVars>>

-----------------------------------------------------------------------------
(* runCycle: the probe, the gate, the extraction. *)

StartCycle ==
  /\ pc = "idle"
  /\ pc' = "probing"
  /\ asOf' = today
  /\ UNCHANGED <<tallyVars, clock, budget, storeVars, netVars, probed, cur, todo, pulled, drainVars>>

\* Closed or failing, the probe finds no company and the loop has nothing to do.
Probe ==
  /\ pc = "probing"
  /\ pc' = "gating"
  /\ probed' = IF tallyOpen THEN tally ELSE probed
  /\ UNCHANGED <<tallyVars, clock, budget, storeVars, netVars, asOf, cur, todo, pulled, drainVars>>

getWatermark(c) == watermark[c]

Decision(c) == decideGate(getWatermark(c), Ids(c, probed[c]))

GateSkips(c) ==
  /\ pc = "gating"
  /\ probed[c] # None
  /\ Decision(c).action = "skip"
  /\ probed' = [probed EXCEPT ![c] = None]
  /\ UNCHANGED <<tallyVars, clock, budget, storeVars, netVars, pc, asOf, cur, todo, pulled, drainVars>>

BeginPull(c) ==
  /\ pc = "gating"
  /\ probed[c] # None
  /\ pc' = "pulling"
  /\ cur' = c
  /\ todo' = Decision(c).sections \cap Sections
  /\ UNCHANGED <<tallyVars, clock, budget, snapshots, netVars, asOf, probed, pulled, drainVars>>

\* A mutant: the watermark is advanced before the extraction it stands for.
GatePartialMarksFirst(c) ==
  /\ BeginPull(c)
  /\ Decision(c).action = "partial"
  /\ watermark' = [watermark EXCEPT ![c] = Ids(c, probed[c])]
  /\ UNCHANGED <<sectionHash, outbox>>

GatePartial(c) ==
  /\ BeginPull(c)
  /\ Decision(c).action = "partial"
  /\ UNCHANGED <<watermark, sectionHash, outbox>>

Forget(f, c) == [k \in Keys |-> IF Company(k) = c THEN None ELSE f[k]]

\* A mutant: a full pull that trusts the hashes it still has.
GateFullKeepsHashes(c) ==
  /\ BeginPull(c)
  /\ Decision(c).action = "full"
  /\ watermark' = [watermark EXCEPT ![c] = None]
  /\ outbox' = Forget(outbox, c)
  /\ UNCHANGED sectionHash

\* Hashes and queued rows are as void as the watermark: resetCompany.
GateFull(c) ==
  /\ BeginPull(c)
  /\ Decision(c).action = "full"
  /\ watermark' = [watermark EXCEPT ![c] = None]
  /\ sectionHash' = Forget(sectionHash, c)
  /\ outbox' = Forget(outbox, c)

\* Sections are asked for one at a time, each an await; the row of "company" is
\* the one the probe returned.
Extract ==
  /\ pc = "pulling"
  /\ todo # {}
  /\ tallyOpen
  /\ cur \notin BrokenCompanies
  /\ LET s == CHOOSE x \in todo : TRUE
         book == IF s = "company" THEN probed[cur].book ELSE tally[cur].book
     IN  /\ pulled' = [pulled EXCEPT ![s] = book[s]]
         /\ todo' = todo \ {s}
  /\ UNCHANGED <<tallyVars, clock, budget, storeVars, netVars, pc, asOf, probed, cur, drainVars>>

Extracted ==
  /\ pc = "pulling"
  /\ todo = {}
  /\ pc' = IF \E s \in Sections : pulled[s] # None THEN "sealing" ELSE "marking"
  /\ UNCHANGED <<tallyVars, clock, budget, storeVars, netVars, loopVars, drainVars>>

\* What a crash or a throw leaves of the cycle: nothing.
Unwind ==
  /\ pc' = "idle"
  /\ asOf' = 0
  /\ probed' = [c \in Companies |-> None]
  /\ cur' = None
  /\ todo' = {}
  /\ pulled' = [s \in Sections |-> None]
  /\ rows' = {}
  /\ sent' = None

\* extract() throws: out of runCycle, past the companies left and past the drain.
ExtractThrows ==
  /\ pc = "pulling"
  /\ todo # {}
  /\ ~tallyOpen \/ cur \in BrokenCompanies
  /\ Unwind
  /\ UNCHANGED <<tallyVars, clock, budget, storeVars, netVars>>

NextPulled == CHOOSE s \in Sections : pulled[s] # None

KeyOf(s) == <<cur, s, asOf>>

Handled(s) ==
  /\ pulled' = [pulled EXCEPT ![s] = None]
  /\ pc' = IF \E x \in Sections \ {s} : pulled[x] # None THEN "sealing" ELSE "marking"

SectionUnchanged ==
  /\ pc = "sealing"
  /\ ~shouldUpload(sectionHash[KeyOf(NextPulled)], pulled[NextPulled])
  /\ Handled(NextPulled)
  /\ UNCHANGED <<tallyVars, clock, budget, storeVars, netVars, asOf, probed, cur, todo, drainVars>>

\* Sealing stamps the envelope with now(); enqueue writes the snapshot file...
Capture ==
  /\ pc = "sealing"
  /\ shouldUpload(sectionHash[KeyOf(NextPulled)], pulled[NextPulled])
  /\ pc' = "captured"
  /\ clock' = clock + 1
  /\ snapshots' = [snapshots EXCEPT ![<<cur, NextPulled>>] =
                      [asOf |-> asOf, content |-> pulled[NextPulled]]]
  /\ UNCHANGED <<tallyVars, budget, watermark, sectionHash, outbox, netVars, loopVars, drainVars>>

\* ...and then upserts the outbox row, which keeps its created_at.
Upserted(old, content) ==
  [content |-> content, ts |-> clock, attempts |-> 0, due |-> TRUE,
   created |-> IF old = None THEN clock ELSE old.created]

Enqueue ==
  /\ pc = "captured"
  /\ outbox' = [outbox EXCEPT ![KeyOf(NextPulled)] = Upserted(@, pulled[NextPulled])]
  /\ Handled(NextPulled)
  /\ UNCHANGED <<tallyVars, clock, budget, watermark, sectionHash, snapshots, netVars,
                 asOf, probed, cur, todo, drainVars>>

\* A mutant: the counters are read again once the sections have been pulled.
SetWatermarkReread ==
  /\ pc = "marking"
  /\ pc' = "gating"
  /\ watermark' = [watermark EXCEPT ![cur] = Ids(cur, tally[cur])]
  /\ probed' = [probed EXCEPT ![cur] = None]
  /\ cur' = None
  /\ UNCHANGED <<tallyVars, clock, budget, sectionHash, outbox, snapshots, netVars,
                 asOf, todo, pulled, drainVars>>

\* Only after the sections are safely in the outbox.
SetWatermark ==
  /\ pc = "marking"
  /\ pc' = "gating"
  /\ watermark' = [watermark EXCEPT ![cur] = Ids(cur, probed[cur])]
  /\ probed' = [probed EXCEPT ![cur] = None]
  /\ cur' = None
  /\ UNCHANGED <<tallyVars, clock, budget, sectionHash, outbox, snapshots, netVars,
                 asOf, todo, pulled, drainVars>>

-----------------------------------------------------------------------------
(* drainOutbox, the network and the server. *)

DueKeys == {k \in Keys : outbox[k] # None /\ outbox[k].due}

RowAt(k) == [key |-> k, content |-> outbox[k].content, ts |-> outbox[k].ts,
             attempts |-> outbox[k].attempts, created |-> outbox[k].created]

\* due(): the oldest DrainLimit rows whose next attempt has come.
due(R) ==
  /\ R \subseteq DueKeys
  /\ \/ R = DueKeys /\ Cardinality(R) <= DrainLimit
     \/ Cardinality(R) = DrainLimit
  /\ \A k \in R, j \in DueKeys \ R : outbox[k].created <= outbox[j].created

BeginDrain ==
  /\ pc = "gating"
  /\ \A c \in Companies : probed[c] = None
  /\ pc' = "draining"
  /\ \E R \in SUBSET DueKeys : due(R) /\ rows' = {RowAt(k) : k \in R}
  /\ UNCHANGED <<tallyVars, clock, budget, storeVars, netVars, loopVars, sent>>

SendNext ==
  /\ pc = "draining"
  /\ pc' = "sending"
  /\ \E r \in rows :
       /\ \A q \in rows : r.created <= q.created
       /\ sent' = r
       /\ rows' = rows \ {r}
  /\ UNCHANGED <<tallyVars, clock, budget, storeVars, netVars, loopVars>>

\* A mutant: a tie is a retry whatever it carries.
FreshOnTie(u) == server[u.key] # None => server[u.key].ts <= u.ts

\* The freshness floor of the ingest handler and of its upsert.
Fresh(u) ==
  LET latest == server[u.key]
  IN  latest # None => \/ latest.ts < u.ts
                       \/ latest.ts = u.ts /\ latest.content = u.content

storeSnapshot(u) ==
  server' = [server EXCEPT ![u.key] = IF Fresh(u) THEN [content |-> u.content, ts |-> u.ts] ELSE @]

Sent == [key |-> sent.key, content |-> sent.content, ts |-> sent.ts]

Answered(next) ==
  /\ pc = "sending"
  /\ pc' = next
  /\ UNCHANGED <<tallyVars, clock, storeVars, loopVars, drainVars>>

\* Retryable failures: the attempt is counted, the last one abandons the row.
Failed == IF sent.attempts + 1 >= MAX_ATTEMPTS THEN "dropping" ELSE "deferring"

UploadAccepted ==
  /\ Answered("acking")
  /\ Fresh(Sent)
  /\ storeSnapshot(Sent)
  /\ UNCHANGED <<budget, late>>

\* 409: an older snapshot, or other content under the same timestamp.
UploadStale ==
  /\ Answered("dropping")
  /\ ~Fresh(Sent)
  /\ UNCHANGED <<budget, netVars>>

\* Any other 4xx: over quota, revoked, clock out of the window.
UploadRefused ==
  /\ Answered("dropping")
  /\ Spend("refuse")
  /\ UNCHANGED netVars

UploadUnreachable ==
  /\ Answered(Failed)
  /\ Spend("unreachable")
  /\ UNCHANGED netVars

\* Stored, but the answer never reached the Bridge.
AckLost ==
  /\ Answered(Failed)
  /\ Spend("ackLost")
  /\ storeSnapshot(Sent)
  /\ UNCHANGED late

\* The Bridge gave up on an upload the server has yet to execute.
UploadLate ==
  /\ Answered(Failed)
  /\ Spend("late")
  /\ late' = late \cup {Sent}
  /\ UNCHANGED server

LateArrival ==
  /\ \E u \in late : late' = late \ {u} /\ storeSnapshot(u)
  /\ UNCHANGED <<tallyVars, clock, budget, storeVars, pc, loopVars, drainVars>>

ackSectionHash ==
  /\ pc = "acking"
  /\ pc' = "acked"
  /\ sectionHash' = [sectionHash EXCEPT ![sent.key] = sent.content]
  /\ UNCHANGED <<tallyVars, clock, budget, watermark, outbox, snapshots, netVars, loopVars, drainVars>>

\* Only the row still holding the content that was sent.
StillSent(row) == row # None /\ row.content = sent.content

dequeue ==
  outbox' = [outbox EXCEPT ![sent.key] = IF StillSent(@) THEN None ELSE @]

DequeueAcked ==
  /\ pc = "acked"
  /\ pc' = "draining"
  /\ sent' = None
  /\ dequeue
  /\ UNCHANGED <<tallyVars, clock, budget, watermark, sectionHash, snapshots, netVars, loopVars, rows>>

Rescheduled(row, attempts, isDue) ==
  [content |-> row.content, ts |-> row.ts, attempts |-> attempts, due |-> isDue,
   created |-> row.created]

deferAttempt ==
  /\ pc = "deferring"
  /\ pc' = "draining"
  /\ sent' = None
  /\ outbox' = [outbox EXCEPT ![sent.key] =
                  IF StillSent(@) THEN Rescheduled(@, @.attempts + 1, FALSE) ELSE @]
  /\ UNCHANGED <<tallyVars, clock, budget, watermark, sectionHash, snapshots, netVars, loopVars, rows>>

DropRow ==
  /\ pc = "dropping"
  /\ pc' = "dropped"
  /\ dequeue
  /\ UNCHANGED <<tallyVars, clock, budget, watermark, sectionHash, snapshots, netVars, loopVars, drainVars>>

\* Re-arm extraction: dropping the row alone would freeze the section.
invalidateWatermark ==
  /\ pc = "dropped"
  /\ pc' = "draining"
  /\ sent' = None
  /\ watermark' = [watermark EXCEPT ![Company(sent.key)] = None]
  /\ UNCHANGED <<tallyVars, clock, budget, sectionHash, outbox, snapshots, netVars, loopVars, rows>>

EndCycle ==
  /\ pc = "draining"
  /\ rows = {}
  /\ Unwind
  /\ UNCHANGED <<tallyVars, clock, budget, storeVars, netVars>>

BackoffElapses(k) ==
  /\ outbox[k] # None
  /\ ~outbox[k].due
  /\ outbox' = [outbox EXCEPT ![k] = Rescheduled(@, @.attempts, TRUE)]
  /\ UNCHANGED <<tallyVars, clock, budget, watermark, sectionHash, snapshots, netVars, pc, loopVars, drainVars>>

-----------------------------------------------------------------------------
(* The machine and the owner's repair button. *)

Crash ==
  /\ Spend("crash")
  /\ pc # "idle"
  /\ late' \in {late} \cup (IF pc = "sending" THEN {late \cup {Sent}} ELSE {})
  /\ Unwind
  /\ UNCHANGED <<tallyVars, clock, storeVars, server>>

\* A mutant: what is queued, what was sent and what is shown are forgotten, and
\* not how far the Bridge had read.
RebuildKeepsWatermarks ==
  /\ Spend(IF cur = None THEN "rebuild" ELSE "midRebuild")
  /\ pc \in Awaits
  /\ snapshots' = [p \in Slots |-> None]
  /\ sectionHash' = [k \in Keys |-> None]
  /\ outbox' = [k \in Keys |-> None]
  /\ UNCHANGED <<tallyVars, clock, watermark, netVars, pc, loopVars, drainVars>>

\* rebuildFromTally: snapshots.clear() and then store.reset(), in an IPC handler.
\* One that comes between pulls and one that comes in the midst of a company's
\* pull, whose watermark will be set after it, are budgeted apart.
rebuildFromTally ==
  /\ Spend(IF cur = None THEN "rebuild" ELSE "midRebuild")
  /\ pc \in Awaits
  /\ snapshots' = [p \in Slots |-> None]
  /\ watermark' = [c \in Companies |-> None]
  /\ sectionHash' = [k \in Keys |-> None]
  /\ outbox' = [k \in Keys |-> None]
  /\ UNCHANGED <<tallyVars, clock, netVars, pc, loopVars, drainVars>>

\* clear() fails part way (a file held open by another program): reset() is
\* never reached.
RebuildFails ==
  /\ Spend("halfRebuild")
  /\ pc \in Awaits
  /\ \E S \in (SUBSET Slots) \ {{}} :
       snapshots' = [p \in Slots |-> IF p \in S THEN None ELSE snapshots[p]]
  /\ UNCHANGED <<tallyVars, clock, watermark, sectionHash, outbox, netVars, pc, loopVars, drainVars>>

-----------------------------------------------------------------------------
Books ==
  \E c \in Companies :
    \/ VoucherEdit(c) \/ MasterEdit(c) \/ RevertEdit(c) \/ DeleteVoucher(c)
    \/ TakeBackup(c) \/ RestoreBackup(c)

World == CloseTally \/ OpenTally \/ Midnight \/ ClockStepsBack

Pull ==
  \/ StartCycle \/ Probe
  \/ \E c \in Companies : GateSkips(c) \/ GatePartial(c) \/ GateFull(c)
  \/ Extract \/ Extracted \/ ExtractThrows
  \/ SectionUnchanged \/ Capture \/ Enqueue \/ SetWatermark

Drain ==
  \/ BeginDrain \/ SendNext \/ UploadAccepted \/ UploadStale
  \/ ackSectionHash \/ DequeueAcked \/ deferAttempt \/ DropRow
  \/ invalidateWatermark \/ EndCycle

Network == UploadRefused \/ UploadUnreachable \/ AckLost \/ UploadLate \/ LateArrival

Machine == Crash \/ rebuildFromTally \/ RebuildFails

Elapse == \E k \in Keys : BackoffElapses(k)

Next == Books \/ World \/ Pull \/ Drain \/ Network \/ Machine \/ Elapse

Spec == Init /\ [][Next]_vars

\* The interval timer keeps starting cycles and a cycle in flight goes on; Tally
\* is opened again some day; a backoff runs out.  Nothing is assumed of a late
\* upload, and a finite budget is what ends an outage.
Fairness ==
  /\ WF_vars(Pull)
  /\ WF_vars(Drain)
  /\ WF_vars(OpenTally)
  /\ \A k \in Keys : WF_vars(BackoffElapses(k))

FairSpec == Spec /\ Fairness

-----------------------------------------------------------------------------
(* Properties. *)

OrNone(S) == S \cup {None}

TallyState == [mst : Nat, vch : Nat, book : [Sections -> Nat]]
SentRow == [key : Keys, content : Nat, ts : Nat, attempts : Nat, created : Nat]

WorldTypes ==
  /\ tally \in [Companies -> TallyState]
  /\ backup \in [Companies -> TallyState]
  /\ tallyOpen \in BOOLEAN
  /\ today \in Days
  /\ stamp \in Nat
  /\ clock \in Nat
  /\ budget \in [Disturbances -> Nat]

StoreTypes ==
  /\ watermark \in [Companies -> OrNone([guid : Companies, mst : Nat, vch : Nat])]
  /\ sectionHash \in [Keys -> OrNone(Nat)]
  /\ outbox \in [Keys -> OrNone(Row)]
  /\ snapshots \in [Slots -> OrNone([asOf : Days, content : Nat])]

NetTypes ==
  /\ server \in [Keys -> OrNone(Stored)]
  /\ late \subseteq Upload

LoopTypes ==
  /\ asOf \in Days
  /\ probed \in [Companies -> OrNone(TallyState)]
  /\ cur \in OrNone(Companies)
  /\ todo \subseteq Sections
  /\ pulled \in [Sections -> OrNone(Nat)]
  /\ rows \subseteq SentRow
  /\ sent \in OrNone(SentRow)

\* What the code in each stretch can count on: a company being synced is one the
\* probe saw, there is a section left to seal, a row is being uploaded.
Control ==
  /\ pc \in PCs
  /\ pc \in {"pulling", "sealing", "captured", "marking"} => cur \in Companies /\ probed[cur] # None
  /\ pc \in {"sealing", "captured"} => \E s \in Sections : pulled[s] # None
  /\ pc \in {"sending", "acking", "acked", "deferring", "dropping", "dropped"} => sent \in SentRow

\* Every variable keeps the shape its declaration gives it, and a stretch of the
\* cycle is entered only with the data it works on.
TypeOK == WorldTypes /\ StoreTypes /\ NetTypes /\ LoopTypes /\ Control

Holds(c, s, d) == outbox[<<c, s, d>>] # None \/ server[<<c, s, d>>] # None

NewestDay(c, s) ==
  CHOOSE d \in Days : Holds(c, s, d) /\ \A e \in Days : Holds(c, s, e) => e <= d

\* What the owner will read of a section once the outbox is empty.
Destined(c, s) ==
  LET k == <<c, s, NewestDay(c, s)>>
  IN  IF outbox[k] # None THEN outbox[k].content ELSE server[k].content

\* The gate, asked now, would skip the company, and no step about it is pending.
Settled(c) ==
  /\ watermark[c] = Ids(c, tally[c])
  /\ cur # c
  /\ ~(pc = "dropped" /\ Company(sent.key) = c)

\* "The owner is never shown a stale number under a green checkmark": when the
\* gate would skip a company, each of its sections as Tally has it now is on the
\* server or on its way there, and nothing older will replace it.
NoSilentStaleness ==
  \A c \in Companies : Settled(c) =>
    \A s \in Sections :
      /\ \E d \in Days : Holds(c, s, d)
      /\ Destined(c, s) = tally[c].book[s]

\* The same for the dashboard on this machine, which reads the snapshot files.
LocalDashboardFresh ==
  \A c \in Companies : Settled(c) =>
    \A s \in Sections :
      /\ snapshots[<<c, s>>] # None
      /\ snapshots[<<c, s>>].content = tally[c].book[s]

\* A hash is advanced on acknowledgement only: what it says was uploaded is what
\* the server holds, or something is left that will correct one of the two (a
\* queued row, a voided watermark, or the void about to be written).
HashNeverAheadOfServer ==
  \A k \in Keys : sectionHash[k] # None =>
    /\ server[k] # None
    /\ \/ server[k].content = sectionHash[k]
       \/ outbox[k] # None
       \/ watermark[Company(k)] = None
       \/ pc = "dropped" /\ sent.key = k

\* A retry, a late arrival or a clock set back never replaces a stored snapshot
\* by an older one, or by other content under the same timestamp.
ServerNeverRollsBack ==
  [][\A k \in Keys : server[k] # None =>
       /\ server'[k] # None
       /\ server'[k].ts >= server[k].ts
       /\ server'[k].ts = server[k].ts => server'[k] = server[k]]_vars

\* The uploads of the Bridge, whatever becomes of their answers and whenever they
\* arrive, are steps of the abstract table: one slot at a time, forward in time.
Table == INSTANCE SnapshotTable WITH table <- server
FillsTable == Table!TableSpec

\* What the server answers for a section: the row of the newest day.
OnServer(c, s) ==
  \E d \in Days :
    /\ server[<<c, s, d>>] # None
    /\ server[<<c, s, d>>].content = tally[c].book[s]
    /\ \A e \in Days : e > d => server[<<c, s, e>>] = None

Mirrored == \A c \in Companies, s \in Sections : OnServer(c, s)

\* What can leave the gate satisfied with something the server does not have: a
\* reversal, a deletion, and a rebuild that takes the rows a pull has queued.
Blurring == {"revert", "delete", "midRebuild"}

\* None of it is still to come.
Clear == \A kind \in Blurring : budget[kind] = 0

\* A rebuild between two pulls has come, and nothing to repair after the last.
Repaired ==
  /\ <>(budget["rebuild"] = 0)
  /\ [](budget["rebuild"] = 0 => Clear)

\* Once the disturbances are over the server comes to show what Tally shows and
\* stays there, whatever they were if none of them blurs the gate, and after any
\* of them if the owner's last rebuild comes between two pulls, after those.
EventuallyMirrored == Clear \/ Repaired => <>[]Mirrored

\* cycle.ts, on a probe row without AlterIDs: "A missing watermark degrades to
\* 'always full sync'".
MissingIdsAlwaysSync ==
  [][\A c \in BlindCompanies : ~GateSkips(c)]_vars

\* cycle.ts, on the drain: "a laptop that reconnects at 2am must flush even if
\* Tally is broken or shut".
EveryRowIsFlushed == \A k \in Keys : outbox[k] # None ~> outbox[k] = None
=============================================================================
