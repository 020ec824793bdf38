# A TLA+ verification of Tally Bridge

Tally Bridge reads the books of an Indian small business out of the accounting
program Tally, on the owner's PC, and shows them on a dashboard anywhere. The
server that stores them never holds a key that reads them. Two promises carry
the product besides that one: the owner is *never shown a stale number under a
green checkmark* (`packages/sync/src/gate.ts:90`), and a failure, of the network,
of Tally, of the PC, costs a retry and never a figure. This directory states
those promises, and the ones of the parts they rest on, as TLA+ properties of
models translated from the source; TLC checks them on small instances and TLAPS
proves most of them for all.

Paths below are relative to `src/`.

## 1. The system

```
Tally (XML, one request at a time)
  | packages/tally      extraction, encoding, ageing
  v
packages/sync           AlterID gate -> hash gate -> outbox      (sync.db)
  | packages/crypto     seal to the owner's public key
  v
apps/server             signature, quota, nonce, freshness floor (Postgres)
  v
dashboards              apps/bridge (the PC itself), apps/web (a phone)
```

| part | state | operations | talks to |
|---|---|---|---|
| gate (`sync/gate.ts`) | none | `decideGate`, `shouldUpload` | called by the cycle |
| cycle (`sync/orchestrator.ts`, `bridge/main/cycle.ts`) | locals of one run | probe, gate, extract, seal, enqueue, drain | Tally, store, server |
| store (`sync/store.ts`, `bridge/main/snapshots.ts`) | watermark per company, acknowledged hash per section and day, outbox, sealed snapshot files | upserts, `due`, `dequeue`, `deferAttempt`, `reset`, `resetCompany` | cycle, IPC handlers, card builder |
| scheduler (`bridge/main/scheduler.ts`) | running, pending, stopped, timer | `start`, `stop`, ticks, `syncNow` | starts cycles |
| upload door (`server/ingest.ts`, `protocol/signing.ts`, `quota.ts`, `server/db.ts`) | devices, rate buckets, nonces, snapshots | `handleIngest`, `verifyRequest`, `admitDevice`, revocation | Postgres, one statement at a time |
| registration, login, reading (`server/ingest.ts`, `auth.ts`, `read.ts`) | bootstrap flag, wrapped keys, credential, sessions | register, login, wrapped keys, read | Postgres, dashboards |
| migrations (`server/migrate.ts`) | a memo per instance | `ensureMigrated` | Postgres |
| unlock session (`bridge/main/session.ts`) | identity key in memory, failures, idle timer | unlock, lock | keystore, roster marks |
| desktop process (`bridge/main/index.ts`) | the objects above | IPC handlers, reset, rebuild, quit | all of the PC's parts |
| onboarding (`bridge/onboarding/*`, `bridge/main/wizard-*.ts`) | wizard state, secrets in flight | events of the renderer, facts of the driver, effects | keystore, Vercel, server |
| roster marks (`bridge/main/snapshots.ts`, `web/data/marks.ts`, `crypto/trust.ts`) | highest roster version seen | load, save, compare | unlock paths |
| transport (`tally/transport.ts`, `codec.ts`, `flavour.ts`) | a queue, the encoding, cached quirks | `post` | Tally |
| accounting rules (`tally/ageing.ts`, `signs.ts`, `viewmodel/*`) | none | pure functions | cycle, dashboards |
| web dashboard (`web/data/*`) | worker, session, marks | unlock, read, lock | server |

`PROJECT.json` lists all of them with their sources, the unmodelled ones too.

### What is hard here

* **Two gates and a queue.** The watermark of a company moves when its sections
  are *queued*, a section's hash when its upload is *acknowledged*. Every path on
  which a queued row does not end in an acknowledgement (refused, abandoned,
  overwritten, voided, crashed) has to be seen by one of the two gates, or a
  figure is frozen.
* **Every write commits by itself.** SQLite statements on the PC, SQL statements
  on the server, entries of the keystore and steps of a deployment are not
  grouped: a crash or another request may come between any two.
* **Everything is async and most of it is shared.** A rebuild or a lock arrives
  while a cycle or a card build is parked in an await, holding what it has read;
  unlocks, claims of a pairing code and requests to Tally are put on promise
  chains because of it, two tabs share one storage, two instances one database.
* **The network answers late or not at all.** An upload the Bridge has given up
  on may still be executed, after newer ones.
* **Things the program does not own.** AlterIDs go back when a backup is
  restored, may be missing or garbled, and do not move for a deletion; a Tally may
  answer in one of several dialects; a server or a keystore may come back from a
  backup.
* **Clocks.** The PC's clock orders snapshots and backoffs, the server's orders
  nonces, sessions and rate buckets.
* **Silence.** A figure that is wrong looks like one that is right: an amount in
  the wrong column, a bill dropped, a sign turned, an empty list read as zero.

`PROJECT.json` "hazards" has each at its line.

## 2. The modules

| module | models | built on |
|---|---|---|
| `SyncGate` | `gate.ts`: the gate and the section tables | |
| `SyncCycle` | cycle, store, snapshot files, drain, network, server's snapshot table, Tally, the owner's rebuild | `SyncGate`, `SnapshotTable` |
| `SnapshotTable` | abstract: what the server's table of snapshots promises | |
| `Ingest` | the server's upload door, statement by statement | `SnapshotTable` |
| `Account` | the server's other doors: registration, wrapped keys, prelogin, login, logout, reads, revocation; the lazy migration before all of them | |
| `Scheduler` | `scheduler.ts` | |
| `TallyLink` | `transport.ts` and those who use it | |
| `Desktop` | who starts cycles and probes in the main process | `Scheduler`, `TallyLink` |
| `Onboarding` | wizard, host, effects, Vercel, the new server, keystore, reset | |
| `Pairing` | the pairing service and the roster it extends | |
| `Readers` | unlock session and cards on the desktop; unlock, marks and reading in the browser | `Pairing` |
| `Wire` | how Tally's answers are cut into rows | |
| `Ageing` | bills, sides, buckets, the fold of the tail, the ageing card | |
| `Cards` | the other cards of the view model | |
| `Dialect` | what a Tally answers, the probes and their verdicts | `Cards`, `Ageing` |
| `Figures` | verdicts kept over days of changing books, down to the cards | `Dialect` |
| `Canonical` | amounts as text, paise and floats; canonical bytes and the content hash | |
| `Vault` | the recovery sheet and what it opens | |
| `Rules` | questions to the gate, the wire, the ageing, the charts of accounts and the recovery, and what is to be said of the answers | `SyncGate`, `Wire`, `Figures`, `Vault` |
| `MCSyncCycle`, `MCIngest`, `MCAccount`, `MCOnboarding`, `MCReaders`, `MCRules` | instances: requests, scenarios, budgets, questions | the above |
| `SyncCycleProofs` | theorems | `SyncCycle` |
| `DesktopProofs` | theorems | `Desktop`, with `Scheduler` and `TallyLink` |
| `IngestProofs`, `AccountProofs` | theorems | `Ingest`, `Account`, `SumLemmas` |
| `RulesProofs` | theorems | `Rules` with `Figures`, `SumLemmas` |
| `SumLemmas` | lemmas: sums over finite sets, by parts and by classes | |
| `OnboardingProofs` | theorems | `Onboarding` |
| `ReadersProofs` | theorems | `Readers`, with `Pairing` |

A definition whose comment begins "A mutant" (or stands under "Mutants") is not part of the model: it is a
plausible bug, and putting it in the place of the definition it is named after
makes TLC refute the property listed with it in `PROJECT.json` "mutants". Each
checked property has one.

### SyncCycle

*State.* `watermark`, `sectionHash`, `outbox` are the three tables of `sync.db`;
`outbox` is a function from (company, section, as-of day) to a row or `None`,
which is what the unique index `ux_outbox` makes of the table. `snapshots` are the
files of `SnapshotStore`. `server` is the `snapshot` table. `pc` and the
variables after it are the locals of `runCycle` and `drainOutbox`, lost in a
crash. `tally` is what Tally counts and what each section of its books shows.

*Actions.* One action is the code between two awaits, cut further where a crash
between two durable writes would be seen. `runCycle` is `StartCycle`, `Probe`,
`GateSkips`/`GatePartial`/`GateFull`, `Extract` (once per section), `Extracted`,
`SectionUnchanged` or `Capture` and `Enqueue` (snapshot file, then row),
`SetWatermark`. `drainOutbox` is `BeginDrain` (`due()`), `SendNext`, one of the
six endings of an upload, then `ackSectionHash` and `DequeueAcked`, or
`deferAttempt`, or `DropRow` and `invalidateWatermark`. `ExtractThrows` leaves
the cycle where an exception does: past the other companies and past the drain.
`Crash`, `rebuildFromTally` and `RebuildFails` may come wherever the code can
be interrupted by them: a crash anywhere, an IPC handler only while the cycle is
in an await, between pulls or in the midst of one (two budgets, one action).

*Abstractions.*
* Content is a *stamp*: an edit gives the sections it changes a stamp never used
  before, `RevertEdit` gives an old one back. Equal stamps stand for equal content
  hashes, that is, canonical serialisation and SHA-256 are taken to be faithful.
* The upload's answer is a choice among those the Bridge tells apart: stored,
  stale (409), any other 4xx, no answer. Which of the server's checks refused is the
  business of `Ingest`.
* The order in which companies are gated is free, as is the one in which a
  company's sections are sealed up to `CHOOSE`: nothing depends on it.
* `clock` moves when the code reads it to stamp a snapshot, and may be set back.
* A backup is only restored when it counts lower than every watermark in force,
  and edits resume once the Bridge has seen the counters go back. Without that
  the counters could climb over the old watermark unseen, which no reader of the
  counters alone could notice; `gate.ts` relies on the backward move.
* The calendar date of a cycle is read once (`asOf`), as in the code.

*Disturbances* are counted by `budget`, chosen in `Init` from `Budgets`: how many
edits, lost answers, crashes and so on a behaviour may have. The proofs hold for
any `Budgets`.

### Ingest

*State.* The four tables the door touches: `revoked`, `upload_window` (device and
minute), `seen_nonce`, `snapshot`; and for each function instance the statement it
is at and its locals. `admitted` and `effects` are history, for the properties.

*Actions.* One SQL statement and the code up to the next: `Receive` (size limit),
`lookupDevice` (revocation, clock skew, signature), `reserveUpload` and
`bucketLock` (one statement in two steps: its snapshot of the earlier buckets is
older than the row lock of its own bucket), `tenantBytesStored` (`checkQuota`),
`rememberNonce` (then the body's own checks), `latestSnapshot` (freshness floor),
`storeSnapshot` (the upsert with its `WHERE`), `touchDevice`. `Fails` ends an
instance at any of them. `revokeDevice` and `Tick` come at any time.

*Abstractions.* Signatures are a flag of the request (`genuine`), parsing another
(`wellFormed`). Time is in minutes, the unit of `upload_window`, and a request
lives through at most one minute boundary. Snapshots are stamped by a clock that
does not repeat itself (`HonestTimestamps`): for one slot a timestamp names one
content. `gc_buckets` removes buckets outside every window that can still be
asked about and is left out. A request reaches the server at any time after it
was signed, any number of times, up to `MaxDeliveries`.

### Scheduler, TallyLink, Desktop

`stopped`, `running`, `pending` are the fields; `timers`, `listeners`, `inFlight`
count what the fields are supposed to describe. A cycle begins in `tick` and
ends in `CycleEnds`, however long it takes; the loop's `pending && !stopped` is
`CycleEnds`'s first disjunct. `runCycle`'s throw and the error reporter's own
throw are both caught, so they end a cycle like a return. `describeStatus` is a
view over this and the last error, with no state of its own.

`TallyLink` is `TallyTransport`: `queued` is the promise chain, `slots` the request
at its head, `sockets` what is open to the port, `encoding` the cached answer of
`detectEncoding`. A caller's job is one probe and some requests; a request is
answered, refused, broken (and tried once more after a pause, still holding its
slot, unless the error is none a second try would mend) or destroyed by a timer.
Tally is opened, closed and swapped for a Tally that understands other encodings or
for another program; each answers with any of the failures the code tells apart.
`heard` remembers what the Tally that answered well last understands. `Desktop` composes the two: a cycle that begins asks Tally, returns no
sooner than its last request is done, and shares the link with "find Tally".

### Account

*State.* The tables `bootstrap`, `device`, `wrapped_key`, `login_credential`,
`session`, `auth_window`, a migration memo per instance, and per executor the
statement it is at, with the locals of a reservation. *Actions.* As in `Ingest`, one
SQL statement and the code up to the next one; `reserveAuthAttempt` is the mechanism of
`reserveUpload` on another table and in two steps like it, the second of which ends in
`overLimit`. `handleHttpRequest` joins the migration (`runMigrations`,
`migrationFails`), then `First` dispatches. `Fails` makes any statement throw,
`Recycle` takes an instance away with its memo. `admitted`, `stranded` and the other
variables marked so are history. *Abstractions.* A token, a salt and
a wrapped key are named by the run of the setup that made them. The router and
the handler both look a session up; that is one statement. Signatures of the
device door are `Ingest`'s matter.

### Onboarding

*State.* `wizard` is the `WizardState`, `host` and `device`/`registered` the
closures around it, `provisioning` and `wrapping` the effects under way,
`keystore`, what exists on Vercel, and the rows of each server deployed.
*Actions.* Events of the renderer (guarded by `describeWizard`: a screen without a
button sends nothing), the calls of `provision` in their order, each answered,
refused, or executed with its answer lost, the steps of `completeSetup`, the
keystore written and wiped entry by entry, a quit anywhere, a reset.
*Abstractions.* Keys, projects and wraps are numbers minted once. Phases
that differ only in the sentence they show are one phase. A project's random
suffix is a choice among `Names`, so a name can come up again.

### Readers, Pairing

*State.* Desktop: what the keystore holds, the roster mark, the session with its
queue, failures and pause, the card build in flight, the key buffers zeroed.
Browser: localStorage, tabs, and what the server serves, which a backup may bring
back. `Pairing` is the service's promise queue and the rosters made, each with its
version and the rosters it descends from.
*Actions.* Each await splits an action: `BeginUnlock` reads blob and mark,
`FinishUnlock` compares and saves; `FetchKeys` and `OpenSession`; `FetchRows` and
`OpenSlot`. *Abstractions.* An identity is a number, a roster its place
among those made (admitting and revoking take any of them, as they take whatever
bundle the caller has open) and on the desktop its version, a passphrase right or
wrong; authenticated encryption opens under the one key or fails. A setup takes longer than a key derivation, so no unlock spans one.
The screens that pair a second computer do not exist in the repository: who
calls the service, and when, is free. A browser that keeps nothing (private
browsing, `memoryKV`) is left out: it promises nothing across reloads.

### Wire, Ageing, Cards, Canonical, Vault, Rules

Pure functions, translated as operators. Cells are model values, digits are
sequences, a float is an integer rounded to `MANTISSA` bits, a word list has
`WORDS` words and a checksum of one bit that lets half of all typos pass. They are
put to every question of `Rules`, and those about the canonical form to every question
of `MCRules`; a question is an initial state in which nothing else happens. What a
question ranges over is a constant of `Rules` (watermarks, tables, lists of bills, a
chart of accounts, keys, words and rosters), typed by its `ASSUME`s. `Answer` is what
Tally prints of a table, with or without the tags of its blanks and with a tag in one
of its texts; amounts are told apart from each other so that one that moved is seen.

### Dialect, Figures

An installation is what `$$NumValue`, `$$IsDebit`, the bank functions, the primary
group and each bills variant do on it. `Dialect` answers a request on a set of
books the way that installation would, and judges the answers as `flavour.ts`,
`signs.ts` and `stocksign.ts` do. Each request of a probe may fail and rows of its
answers may be rejected (a `mishap`): without the groups the probe throws, a bills
variant is passed over, the bank functions count as unresolved and the sign of the
stock stays unknown. `Figures` runs it over days: books change, a cycle of some company
probes if the verdicts are too old and pulls all sections, or loses the pull, and
`shown` is what the cards then say, with the books they were read from, until the next
cycle begins.

## 3. What is checked

| run | instance | shows |
|---|---|---|
| `SyncSafety` | 1 company, 2 sections, 2 days, 2 attempts, drains of 1 row, seven budgets | What the gate would skip is up to date on the server or queued, with nothing older to replace it (`NoSilentStaleness`), and up to date on this PC (`LocalDashboardFresh`); a hash never runs ahead of the server (`HashNeverAheadOfServer`); no stored snapshot is rolled back (`ServerNeverRollsBack`). |
| `SyncConverges` | 2 companies, 2 sections, 2 attempts, drains of 2, nine budgets, five of them with rebuilds: between pulls, in the midst of one, cut short; fairness | Once disturbances are over, the server comes to show what Tally shows and stays there, after the changes no counter shows and after a rebuild in the midst of a pull once a rebuild between pulls has come (`EventuallyMirrored`). |
| `Ingest` | 2 executors, 2 devices, signed requests duplicated, delayed, forged and malformed, 3 deliveries, 4 minutes, an hour of 3 | `HourlyCapHolds`, `OvershootBounded`, `NoReplay`, `AcceptedIsStored`, and that a dozen statements of racing instances are steps of `SnapshotTable` (`DoorFillsTable`). |
| `Account` | 2 executors of one instance, 2 devices, 2 addresses, 2 runs of the setup, 2 sessions, 1 failure, five scenarios | `OneEnrolment`, `KeysHeal`, `LoginCapsHold`, `MigratedBeforeServed`, `SessionExactlyWhileLive`. |
| `Desktop` | 3 ticks, 2 starts, the cycle and one other caller, 2 broken connections, 1 change of Tally, fairness | One cycle and one socket at a time (`SingleFlight`, `OneSocket`), no more answers than ticks deserve (`OneCycleAnswers`), no tick lost (`HeededTicksRun`), no caller stuck (`EveryJobEnds`), an encoding that the Tally which answered well last understands (`EncodingUnderstood`). |
| `Onboarding` | 2 companies, 2 project names, 3 runs of `provision` and of `completeSetup`, ten scenarios of faults, fairness | `UsableWhenLive`, `SyncsOnlyWhenEnrolled`, `OneKeyEverywhere`; and an owner who goes on ends up with a dashboard, unless a fault left no button to go on with (`SetupCompletes`). |
| `Readers` | 2 computers, 2 tabs, 2 slots, 2 dates, eleven scenarios | `AnsweredRightly`, `GuessesBounded`, `NothingOpenedAfterLock`, `CodeWorksOnce`, `RevokedStaysOut`, `FiguresNeverGoBack`. |
| `Rules` | about 670,000 states: questions to the pure rules, and 12 installations with 4 sets of books over 4 days, 8 ways a probe's requests go | `GateAsksForWhatMoved`, `AmountsNeverShift`, `AgeingConserved`, `GroupsCountedOnce`, `SameFiguresSameHash`, `RecoveryTellsTheTruth`, `StockRightWayRound`, `CollapseNeverPublished`. |
| `Reverts`, `BlindCompany`, `BrokenCompany`, `NoSilentZero` | | the four disagreements of section 5 |

**Why the bounds are enough.** *Sync.* One company and two sections (one that a
master edit changes, one that it does not) are the least that tells the gate's
three verdicts apart; two edits are the least that puts a newer row over an older
one in flight; two attempts are the least with both a deferral and an
abandonment; a drain of one row leaves a second row behind it. Each budget pairs
two edits with one failure of each of two or three kinds, since all
known ways to lose a figure take an edit, a failure and one more edit or
cycle; all together in one budget exceed what can be explored. *Ingest.* Two
instances race on each pair of statements, which is what its properties are
about; the cap and the ceiling are one upload each so that a second one meets
them; four minutes hold an hour of three, the skew, the retention and one minute
past both, so that a nonce is swept and a bucket leaves the window. *Account.* The
same, with an idle timeout of 2 and a ceiling of 3 so that a session can die of
either, and caps of 1 (address) and 2 (overall). *Desktop.* Three ticks are one
that starts a cycle, one during it and one during its answer. *Onboarding.* Three
runs are a failure and two retries. *Readers.* Unlocks beyond `MAX_FAILURES` = 2,
a mark, a wrap and a server older by one version; each scenario combines at most
four kinds of event, and the desktop, the pairing service and the browser meet
only in the roster, so most scenarios exercise one of them. *Rules.* Rows come in
twos and threes, parties four of which one is listed by name, groups three; 101 days
are the first age that cannot be one, where `MAX_PLAUSIBLE_AGE_DAYS` is 100; two
days stand for thirty after which verdicts age, one day for one; a significand of
11 bits stands for 53, which scales the amounts and not the rounding.

**Crash and abandonment.** `drainOutbox` deletes the abandoned row and voids the
watermark in two statements (`orchestrator.ts:254`, `:270`). A crash between them
freezes the section, so the budgets of `SyncSafety` that have crashes leave
refusals and spent attempts out: `NoSilentStaleness` is true of the code with
either and not with both.

**Fairness.** `SyncConverges` assumes weak fairness of the cycle's own steps (the
interval timer starts cycles for as long as the app runs, a request to Tally has a
timeout, an upload has the HTTP client's), of Tally being opened again, and of
backoffs running out. Nothing is assumed of a late upload, and a stretch of
failed uploads ends because its budget does. `Desktop` assumes that this process
runs: code that can go on does, timers fire. Tally owes no answer, and a cycle is
not assumed to end: `HeededTicksRun` rests on the timers of the transport.
`Onboarding` assumes that a call ends one way or the other, that the database
starts, and an owner who goes on: presses the button that leads on whenever there
is one, has Tally open in the end and gets passphrase and words right in the end
(strong fairness, for a probe or an entry may fail many times before). It does not
assume that the window is closed and opened again, which is what asks `getState`: after
a failed key generation the screen has no button (`wizard-host.ts:306`), and
`SetupCompletes` names that fault with the others after which no button leads on.
None assumes that an edit, a crash or a tick happens. `CHECK_DEADLOCK FALSE` is set
where a bound on requests, ticks or events is what stops the model.

**What the less obvious properties say.** `HourlyCapHolds` is the bound the comment
in `db.ts` claims ("a bounded undercount"): over *any* hour of minute buckets a
device gets at most the cap and one more for each instance that races it; that it
does not compound is the point. `OvershootBounded` is what is left of "a ceiling,
not a trigger" when the total is read a statement before the write. `LoginCapsHold` is
the same bound for the two meters of a door, chained: what a door lets through by the
overall cap, and what one address has counted on the overall meter by the address's
own, each plus one for every other executor. `OneEnrolment` does not say that the link
is never spent on nothing: a stop or a failure between `consumeBootstrap` and
`registerDevice` does that, and the property says that nothing else does. `NoReplay` needs the skew window, the retention of nonces and
the order of sweep and check to fit together: a captured request takes effect once
in all of time. `HashNeverAheadOfServer` names what repairs each moment at which
hash and server may differ: a queued row, a voided watermark, or the void about to
be written. `EventuallyMirrored` knows two kinds of disturbance. After the first
the cycle recovers by itself. The second leaves the gate satisfied with something the
server does not have: a deletion and a reversal, which move no counter or undo what
one said, and a rebuild in the midst of a pull, which takes rows that pull has queued and
leaves it to set the watermark; after these the property asks for recovery once a rebuild
between two pulls has come. `KeysHeal` says that a PUT that ran alone
heals what earlier ones left half done; two late PUTs of one device that overlap are
assumed to be executed before the retry's. `AnsweredRightly` compares the answer
with the truth: right passphrase, same identity, no older roster, wrap and mark
readable, and not with the code's own condition. It judges refusals made before the
key is derived like the others; an unlock of an open session or during a pause is
no answer about a passphrase. `RevokedStaysOut` speaks of a roster's descent, which is what
versions can tell; that a revoked computer never returns is false of the code (section 5). `FiguresNeverGoBack` looks at what was shown before, per slot,
whichever tab and date, not at the mark. `SameFiguresSameHash` compares the hash
with what the texts say as numbers; ageing amounts go through a division and a
multiplication of floats and are held to it up to 100 times 2 to the power of
`MANTISSA` - 8 paise only (section 5). `StockRightWayRound` allows the one day the
code grants itself when the probe could not tell the sign, because the books do not show
it or the probe did not get to see it; a probe that fails again grants another.
`RecoveryTellsTheTruth` asks what the sheet is blamed for in each case, the one where
the code blames it wrongly included (section 5). `GroupsCountedOnce` has no group left
out of profit or tree on any chart, and none counted twice in the profit of a forest and a
pull closed downwards; `AmountsNeverShift` excepts a fabricated row:
section 5 names both.

No run lists a `TypeOK`; those of the modules with theorems are proved (section 4).

## 4. What is proved

TLAPS checks these for every value of the constants: any number of companies,
sections, days, instances, devices, computers, retries and failures, any budgets and
scenarios unless a hypothesis is named. The modules' `ASSUME`s give the parameters
their types and keep `None` apart from ordinary values; three say more. A nonce is
kept for at least a minute (`NONCE_RETENTION`, `db.ts:208`); for one slot a timestamp
names one content (`HonestTimestamps`); a request carries what its route's schema asks
for (`RequestAssumption` of `Account`). TLC evaluates all of them in the runs.

Each invariant is a conjunction of named parts. In the long proofs each part is shown
on top of those before it, with one step per action and a frame lemma for the
actions that touch nothing it speaks of. Every part was an invariant of a TLC run
before it was proved.

**`SyncCycleProofs`** (about `SyncCycle`).
* `TypeCorrect`: `Spec => []TypeOK`. `TypeOK` includes `Control`,
  which is what makes it inductive: a stretch of the cycle is entered only with
  the data it works on (a company the probe saw, a section left to seal, a row
  being sent). Without it `SetWatermark` would store the AlterIDs of no probe and
  `ackSectionHash` the hash of no row.
* `NoRollback`: `Spec => ServerNeverRollsBack`. Only three actions write the
  table (`ServerWrites`), each through `storeSnapshot`, and one upload keeps the
  floor (`FreshnessFloor`): the floor is enough by itself, whatever the Bridge
  does.
* `BridgeFillsTable`: `Spec => FillsTable`, the refinement. The
  initial table is empty, and a step that writes it fills or advances one slot
  (`AdvancesOneSlot`); every other step is a stutter of the abstract table.
* `HashesHold`: `HashNeverAheadOfServer`. A hash may differ from the server's row only
  while something corrects it (`Hashes`): a row queued for the slot, a watermark that
  is void, or the void about to be written. That needs to know that a row in
  flight is the one still queued under its key (`Taken`) or belongs to a company whose
  watermark and hash are gone (`Linked`), and that what is late is older than what is
  queued (`Times`).
* `StalenessIsNeverSilent`: `NoSilentStaleness`. The chain behind it: what
  differs between Tally and a probe shows in the counters (`Probes`), nothing anywhere is
  of a later day than the cycle's (`DaysInOrder`), hash, queued row, probe and Tally hold
  ever newer content (`Order`), a watermark in force vouches
  for every section whose counters have not moved past it (`Watermarked`), and in
  the middle of a pull the same holds for the sections already handled
  (`PulledSoFar`). The watermark is moved when the sections are queued, so the
  invariant speaks of "on the server or on its way there", and every way a row can be
  lost has to void the watermark first or in the same breath.
* `DashboardStaysFresh`: `LocalDashboardFresh`, along the same lines with the snapshot
  files in place of the server (`Displayed`, `CapturedFirst`). It needs nothing of
  clocks, late uploads or deaths: the file is written before the row.

The last three have hypotheses, which name what the code does not answer for, and no
more. `ClockOrLate`: a behaviour has no clock set back, or nothing that can be
executed late (a lost upload, a death with one in flight); with both a newer number gets an
older timestamp and the floor turns it away. `~DiesDropped`: no death between the two
statements that abandon a row (`orchestrator.ts:254`). `~RebuildsInPull`: no rebuild
falls into a pull (`main/index.ts:625`). `OnlyCounted`: no voucher is reverted or
deleted, which moves no counter to compare. `GateSees`: the probe reports counters, and
the gate's tables name the sections an edit shows in. `NoHalfRebuild`: a repair is not
cut short. All budgets of `SyncSafety` meet those that are about
budgets; what happens without the others is listed in section 5. `HashesHold` needs the first two,
`StalenessIsNeverSilent` all but the last, `DashboardStaysFresh` the last four.

**`DesktopProofs`** (about `Scheduler`, `TallyLink`, `Desktop`).
* `NeverTwoCycles` and `TicksCollapse`: `SingleFlight` and
  `OneCycleAnswers`. `OneCycleAnswers` is not inductive alone: a wish already
  answered could be answered again. The strengthening `PendingIsUnanswered` says
  that a wish in the flag is one no cycle has answered; that there is one timer
  (`OneTimer`) is part of the same invariant.
* `DesktopImplementsScheduler`: `DesktopSpec => Spec`. Sharing the process with the
  link and the wizard only makes the scheduler wait, so both theorems hold there too.
* `OneSocketEver` and `EncodingAlwaysUnderstood`. `LinkInv`: the slot holds one request,
  and a socket is open exactly while that request is at it, not while it waits for its
  second try (`SocketIsTheSlots`). A good answer to a request written in the kept
  encoding says that it is understood; one to a candidate settles that candidate.

**`IngestProofs`** (about `Ingest`). `TypeCorrect`; `NeverReplayed`, `AcceptedStaysStored`,
`HourlyCap`, `OvershootIsBounded` for the properties of the run, and `DoorImplementsTable`
for the refinement of `SnapshotTable` by interleaved statements. The parts of `IInv`:
an instance is served within a minute of its request and is past `verifyRequest` only
if that was in time (`Timely`), so a nonce that has been swept belongs to a request
nobody may still serve (`Once`); what was answered 200 is held or overtaken (`Uploaded`,
`Accepted`). `Capped` counts the reservations whose snapshot is older than their row
lock: what one of them misses is in flight, there are at most all instances but
one of those, and once it has its lock it is in the count again, which is why
the undercount does not compound. `Quota` adds the bytes that have passed the ceiling and
are not stored yet.

**`AccountProofs`** (about `Account`). `TypeCorrect`; `OneDeviceEnrols`, `StoredKeysHeal`,
`TablesBeforeStatements`, `CapsHold`, `GateFollowsSession`. The parts: a statement runs
for a request of its own route (`Routed`), a memo of a migration is right (`Migrated`),
between the `UPDATE` that spends the bootstrap link and the `INSERT` nobody else is there
(`Enrolled`), blobs are stored before the credential (`KeysStored`), a session's row is
the lifetime granted to it (`SessionsKept`), and on each meter what was let through in
a bucket, the earlier buckets of its hour and what is in flight to those stay together
below the cap and one attempt per other executor (`Metered`): as in `Ingest`, what a
snapshot misses is in flight, and is in the count again once it has its lock.

**`SumLemmas`.** Caps and ceilings are sums over buckets and rows, cards are sums over
bills. The community modules define them by recursion over subsets, in `CHOOSE` order,
and no induction theorem with an operator parameter can be used here; each fact (a sum
splits into parts and into classes, grows with a summand, is bounded by its terms) is
proved by taking a least counterexample (`LeastSet`, from `WFMin`).

**`RulesProofs`** (about `Rules`, with `Figures`). The constants range over any
installations, books, tables, bills, charts and sheets that their `ASSUME`s type.
* `CollapseIsNeverPublished` and `StockStaysRightWayRound` (`CollapseNeverPublished`,
  `StockRightWayRound`), both on `VerdictsKept` (`VerdictsAlwaysKept`): verdicts in use
  are what a probe made, whichever of its requests failed, without refusing this Tally,
  of books it has had as far as it could read them,
  and a pull goes by none older than `KeptDays` allows. Books may have turned over
  since, so what a card shows is compared with the books judged and with those pulled;
  the lemmas under it say what each probe can conclude from evidence on one side of the
  books, on both, and from one odd group.
* `AgeingIsConserved` (`AgeingConserved`). Each bill is in one cell of party and bucket;
  totals, rows and card are sums of the same figures over coarser classes
  (`FiguresByClass`), and the folded tail is a class of its own.
* `GroupsAreCountedOnce` (`GroupsCountedOnce`). What is below a group is the least set
  that holds it and is closed under children; in a forest the sets of the tops that
  `profitCard` adds up divide the groups pulled among them (`RootsDivide`). With cycles
  and missing parents the tree still reaches each group that was pulled, once, and its
  roots are the rows profit adds up.
* `GateIsExact` (`GateAsksForWhatMoved`) and `RecoveryIsHonest`
  (`RecoveryTellsTheTruth`), by the cases of the counters and of the sheet and its seal.
* `AmountsStayInPlace` (`AmountsNeverShift`). The parser is a fold over the tags, so
  what it has read after each cell is an invariant of the fold (`ReadTo`), carried over
  cells and lines: tags rise within a row, each amount printed is held once and under
  its tag, and a row either holds its line so far or is one no later tag can save from
  `rejectionReason` (`Condemned`). A line begins a row of its own because the one before
  it went as far as its amount.

Where a fold or a closure is defined by recursion (`FoldLeft`, `FlattenSeq`, `Closure`),
its value is characterised by the function or the least set it computes, and facts about
it follow from the least counterexample. The companies, dialects and questions need no
bound anywhere.

**`OnboardingProofs`** (about `Onboarding`). `IInv` ties the wizard's phase to what the
host holds and to the effect under way (`Staged`), each call of `provision` to what the
calls before it have left (`Provisioned`), each step of `completeSetup` to what the
server has (`Enrolled`).
* `TypeCorrect` and `UsableOnceLive` (`UsableWhenLive`), for any scenarios.
* `SyncsEnrolled` (`SyncsOnlyWhenEnrolled`) and `OneKey` (`OneKeyEverywhere`). `KInv`
  says that the keystore is one of four things: blank, begun by this host and not
  finished, settled, or what a wipe cut short has left. The hypothesis `OneTear`, at
  most one keystore write cut short, or no reset, is needed: with two and a reset between them
  TLC finds entries of two setups side by side (section 5).

**`ReadersProofs`** (about `Readers` and `Pairing`). `TypeCorrect`; `OneUsePerCode`,
`UnlocksAnsweredRightly`, `GuessesAlwaysBounded`, `LockEndsReading`, `RevokedNeverReturns`,
`FiguresOnlyAdvance`. One invariant per part, put together at the end: the claim that
awaits its hash found its code open and nobody has touched it since (`ServiceInv`); one
unlock derives its key at a time, the passphrases tried are failures still counted, and
the mark, unless damaged, is the highest version the identity was opened with
(`DeskInv`); a card build holds a key that is wiped or the one that is open (`CardInv`); the
marks in the browser's storage, unless damaged, are no lower than what was accepted and
are what was shown, and an open tab shows what its roster vouches for and nothing older
(`WebInv`). A roster's version is above that of any it descends from (`RosterTyped`), so
none of those passes a mark the roster itself has left.

**Only model-checked.** Liveness (`EventuallyMirrored`, `SetupCompletes`,
`HeededTicksRun`, `EveryJobEnds`) is out of the prover's reach, and so is `ENABLED`.
`SameFiguresSameHash` is a statement about `canonicalStringify`, a recursive operator,
and about floats of a given width; nothing is proved in a module that reaches
`Canonical`. Every other property of a passing run is a theorem; what the four runs that
expect a violation show is a counterexample (section 5).

## 5. Where code and documents disagree

Shown by a run each:

* `Reverts`. A changed section B waits in the outbox; Tally goes back to the
  acknowledged content A. The hash gate finds A unchanged and leaves B queued
  (`orchestrator.ts:175`); the watermark advances, B is uploaded later, and stays.
* `BlindCompany`. A probe row without AlterIDs is promised to be always fully
  synced (`cycle.ts:671`); it is read as counters 0 and 0, which equal the stored
  ones from the second cycle on, and the company is skipped for ever.
* `BrokenCompany`. The drain is promised to run even if Tally is broken
  (`cycle.ts:157`); an extraction that throws in each cycle ends it before the drain.
* `NoSilentZero`. A company without debtors adopts the default bills method, "will
  re-probe when debtors appear" (`flavour.ts:402`); nothing re-probes when they do, and
  debtors are reported as zero for up to thirty days.

Met while modelling, without a run of their own. *Sync:*

* a crash between `dequeue` and `invalidateWatermark` (above);
* a rebuild during a pull clears snapshots already captured, one cut short by a
  file held open never resets the store (`index.ts:624`, `snapshots.ts:179`), and a
  reset during a cycle lets it finish under the discarded identity (`index.ts:613`):
  the dashboard of this PC lacks them until the books change. A rebuild in the
  midst of a pull also drops the rows that pull has queued, and the watermark set at its end
  vouches for them, where "the next sync re-extracts fresh from Tally" is
  promised (`index.ts:621`);
* the first cycle of a new day is skipped when no counter moved, although the
  hashes are keyed by day for its sake (`store.ts:34`): ageing is then a day old;
* one row *per section* is promised of the outbox, it is one per section and day
  (`store.ts:68`), so an outage of days queues more than one drain takes;
* a refused upload voids its watermark, the next cycle queues all again: 20 rows
  four times an hour exceed the 60 uploads an hour allowed;
* `period_revenue` is not among the sections a master edit re-extracts, although
  it is computed over groups (`gate.ts:52`, `cycle.ts:502`); a deleted voucher bumps no
  counter (`gate.ts:120` says so);
* "Synced" is shown after a cycle whose every upload was deferred
  (`scheduler.ts:176`); each `start()` adds a resume listener and `stop()` removes none.

*Server:*

* a comment in `db.ts` has the nonce remembered before the reservation; the code
  reserves first;
* the tenant's total counts the row an upload is about to replace, so a tenant
  near the ceiling cannot refresh its own sections (`quota.ts:98`);
* `auth.ts:440` has logout answer well without a live session; the router has
  already answered 401 (`router.ts:132`).

*Setup and unlocking:*

* a lost answer to the registration leaves a server that has enrolled this device
  and a wizard whose every retry is refused (`wizard-effects.ts:299`);
* a provisioning failure whose only button opens a page cannot be left
  (`wizard.ts:641`), and a failed key generation shows no button until the window is
  reopened;
* quitting at the sheet or at its verification skips the verification for good
  (`renderer/wizard.ts:836`); after a reset in the same process the host is still at
  `done`;
* two keystore writes cut short with a reset between them leave entries of two setups
  side by side (`keystore.ts:240`): the reset wipes part of what the first one wrote,
  the second one stops short of the rest, and a Bridge that starts syncing from it
  may be turned away by its own server, against the comment at `wizard-effects.ts:211`;
* a keystore write torn after `identity.pk` makes the setup look complete while the
  wizard said that nothing was saved; the name of a project is called
  deterministic and has a random suffix;
* an unlock whose derivation is in flight opens the session after a lock or a
  suspend (`session.ts:190`); cancelling a pairing does not stop a claim in flight;
  two changes made from one open bundle make two rosters of the same version
  (`pairing.ts:507`, `:543`), the second of which, stored last, undoes the first: a
  computer revoked by one is back with the other, and no reader's mark objects;
* a damaged roster mark refuses every unlock, and "reset dashboard", named as the
  deliberate way out (`snapshots.ts:246`), does not remove it: neither `clear()` nor the
  wipe touches `roster-mark.json` (`index.ts:613`, `snapshots.ts:177`);
* a damaged recovery blob, or one made for another sheet, is blamed on the sheet
  (`recovery.ts:290`), although an owner is not to be sent back to a sheet there is nothing
  wrong with (`recovery.ts:190`): `RecoveryTellsTheTruth` states it as it is;
  `attemptRecovery` has no caller yet.

*Tally and figures:*

* `p / 100 * 100` is called exact for every safe integer (`canonical.ts:171`); above
  100 times 2^45 paise it may be off by one (3518469552207945 is), and ageing
  amounts take that way;
* a bill whose amount cannot be parsed is dropped without a word (`ageing.ts:203`)
  where all other sections throw;
* the encoding is settled once (`transport.ts:201`): when a Tally that does not understand
  it is opened later, every request fails until the Bridge is restarted;
* a Tally that answers the first encoding tried with something that is no
  envelope ends the detection before the second is tried; a truncated answer
  settles only when the overall timer fires; Tally may still be working on an
  abandoned request when the next one is sent;
* one stock request of a probe that fails, on books that would have told the sign, leaves
  it unknown, and stock is published by the default, the wrong way round where the idiom is
  inverted, until a probe a day later (`flavour.ts:439`); one bank request that fails
  switches the bank functions off for up to thirty days (`flavour.ts:285`);
* the bank functions count as working as soon as Cash answers, so ledgers of an
  unresolved bank group are missing (`flavour.ts:302`); an unknown sign of amounts is not
  asked for again daily, as that of stock is; negative stock on a Tally with the plain
  idiom reads as positive;
* a field tag inside a parent's name fabricates a row that is accepted; the
  comment at `codec.ts:116` claims the contrary, which holds for the first column;
* profit counts twice when a pull lacks a group between two others or parents form a cycle, and the sales
  trend does for a group "Sales" below "Sales Accounts" (`cards.ts:396`);
* the browser refuses a row of a newer day whose timestamp is lower than one seen.

## 6. Not modelled, and why

Rendering, wording, layout, the tray, windows and the URL allowlist have no state
the promises rest on. Of the renderer only what the wizard lets an owner do is
modelled. Cryptographic primitives, padding, compression, XML escaping and TDL text
are computations on strings; what the rest relies on of them is an assumption
above. The wire formats of Vercel and the server, polling intervals, the recovery
PDF and the messages of the web worker decide nothing. The per-cycle sequence
counter guards no step of any module (it is persisted after the cycle, so a crash
lets numbers be used twice, which its comment calls an audit signal). The reset during
a cycle in flight is not composed with `SyncCycle`: the code has no defence to
check, only the consequence named in section 5. Build, release and simulation
scripts are not the program.

## 7. What is left

Every component with a state of its own is modelled, and every safety property of a
passing run is proved but `SameFiguresSameHash`. What could follow is a canonical form
written without recursion, over entries of bounded depth, about which that property could
be proved up to the rounding of floats. Liveness stays with TLC.

## Running

```
tlc -workers 2 -config SyncSafety.cfg MCSyncCycle     # and so on, see PROJECT.json "runs"
for m in SumLemmas SyncCycleProofs DesktopProofs IngestProofs AccountProofs \
         OnboardingProofs ReadersProofs RulesProofs; do tlapm $m.tla; done
```
