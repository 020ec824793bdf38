------------------------------ MODULE Readers ------------------------------
(***************************************************************************)
(* The two places where figures are decrypted.                             *)
(*                                                                         *)
(* The desktop: UnlockSession and getCards, over the keystore, the roster  *)
(* mark and the snapshots kept on the same disk.  The web dashboard: tabs  *)
(* of one browser, sharing its storage, over what the server serves.       *)
(*                                                                         *)
(* Both hold the roster of Pairing.tla that was sealed with the identity   *)
(* key, and both remember the highest version they accepted.  The server   *)
(* and the keystore may come back from a backup; a mark may be damaged.    *)
(* An identity is named by a number, a roster by its place in published;   *)
(* of the desktop's only the version matters.                              *)
(***************************************************************************)
EXTENDS Pairing, FiniteSetsExt

CONSTANTS
  Tabs,            \* tabs of the browser
  Slots,           \* company and section
  Dates,           \* as-of dates, numbered
  MAX_FAILURES,
  Scenarios        \* what happens in a behaviour, and how often

Events == {"unlock", "lock", "quit", "reset", "rewrap", "cards", "keysBack", "markDamaged",
           "submit", "load", "upload", "serverBack", "storageDamaged", "cleared", "failure", "pair"}

ASSUME ReadersAssumption ==
  /\ MAX_FAILURES \in Nat \ {0} /\ Dates \subseteq Nat
  /\ Scenarios \subseteq [Events -> Nat]

Damaged == -1
FirstUse == 0

VARIABLES
  keys,        \* the keystore: identity, and the roster version wrapped with it (0: no wrap, Damaged)
  mark,        \* roster-mark.json: idPK and highestVersionSeen
  session,     \* UnlockSession: the open key (0: locked), roster version, failures, cooling
  waiting,     \* its queue of passphrases
  opening,     \* the unlocks whose key is being derived
  zeroed,      \* key buffers wiped
  cards,       \* the card build in flight: its key, slots to go, slots opened
  guesses,     \* wrong passphrases tried since the last pause, success or start (history)
  verdicts,    \* what unlocks were answered and what was the case (history)
  accepted,    \* identity -> highest roster version a session was opened with here (history)
  server,      \* what the server serves: bundle (a roster) and rows; the rosters stored there so far
  backup,      \* what it served when the backup was taken
  storage,     \* the browser's localStorage: key -> value
  tabs,
  trusted,     \* rosters a tab was opened with, since the storage was cleared (history)
  latest,      \* slot -> the latest snapshotTs shown, since then (history)
  left         \* events still allowed

disk == <<keys, mark>>
desk == <<session, waiting, opening, zeroed, cards>>
deskHistory == <<guesses, verdicts, accepted>>
web == <<server, backup, storage, tabs, trusted, latest>>
desktopVars == <<disk, desk, deskHistory>>
vars == <<pairingVars, desktopVars, web, left>>

Happens(e) == left[e] > 0 /\ left' = [left EXCEPT ![e] = @ - 1]

-----------------------------------------------------------------------------
(* The desktop: unlocking *)

LockedFor(failures, cooling) ==
  [key |-> 0, version |-> 0, identity |-> 0, failures |-> failures, cooling |-> cooling]
NoCards == [key |-> 0, todo |-> {}, opened |-> {}]
Buffers == Cardinality(zeroed) + (IF session.key = 0 THEN 0 ELSE 1)

\* fail: the fifth failure in a row starts the pause.
fail == session' = [session EXCEPT !.failures = (@ + 1) % MAX_FAILURES,
                                   !.cooling = @ \/ session.failures + 1 >= MAX_FAILURES]

\* A mutant: one mark for all identities.
loadMarkOfAnyone == mark.highestVersionSeen

\* RosterMarkStore.load: a mark of another identity is no mark, a damaged one is not.
loadMark == IF mark.highestVersionSeen = Damaged \/ mark.idPK = keys.identity
            THEN mark.highestVersionSeen ELSE FirstUse

AskUnlock(pass) ==
  /\ Happens("unlock")
  /\ waiting' = Append(waiting, pass)
  /\ UNCHANGED <<pairingVars, disk, session, opening, zeroed, cards, deskHistory, web>>

\* A mutant: unlocks run side by side.
AllAtOnce == TRUE

\* One unlock at a time.
mayUnlock == opening = <<>>

\* An unlock is answered.  What was the case: the passphrase, whether the keystore still holds the identity
\* that was opened, whether its roster is as new as any it was opened with, whether wrap and mark could be read.
Judge(pass, ok, same, fresh, intact) ==
  verdicts' = verdicts \cup {[right |-> pass = "right", ok |-> ok, same |-> same, fresh |-> fresh, intact |-> intact]}

AsNew(identity, version) == identity # 0 => version >= accepted[identity]

\* unlockNow up to its await: a refusal while cooling is not counted, the others are.
BeginUnlock ==
  /\ waiting # <<>> /\ mayUnlock
  /\ waiting' = Tail(waiting)
  /\ \/ /\ session.key # 0 \/ session.cooling
        /\ UNCHANGED <<session, opening, verdicts>>
     \/ /\ session.key = 0 /\ ~session.cooling
        /\ \/ Head(waiting) = "empty"
           \/ keys.version \in {0, Damaged}
           \/ keys.identity = 0
           \/ loadMark = Damaged
        /\ fail /\ UNCHANGED opening
        /\ Judge(Head(waiting), FALSE, TRUE, AsNew(keys.identity, keys.version),
                 keys.version > 0 /\ mark.highestVersionSeen # Damaged)
     \/ /\ session.key = 0 /\ ~session.cooling
        /\ Head(waiting) # "empty" /\ keys.version > 0 /\ keys.identity # 0 /\ loadMark # Damaged
        /\ opening' = Append(opening, [pass |-> Head(waiting), version |-> keys.version,
                                        identity |-> keys.identity, memory |-> loadMark])
        /\ UNCHANGED <<session, verdicts>>
  /\ UNCHANGED <<pairingVars, disk, zeroed, cards, guesses, accepted, web, left>>

\* A mutant: the version is checked for its shape only.
AnyVersion(memory, version) == version >= 1

\* acceptRosterVersion
acceptable(memory, version) == memory = FirstUse \/ version >= memory

Opens(o) == o.pass = "right" /\ acceptable(o.memory, o.version)

\* saveMemory is scoped to the keystore's identity of this moment; after a reset it throws.
\* A damaged mark is repaired by a save, a higher one is never lowered.
Saves(o) == keys.identity # 0 /\ (loadMark = Damaged \/ o.version >= loadMark)

FinishUnlock ==
  /\ opening # <<>>
  /\ opening' = Tail(opening)
  /\ LET o == Head(opening) IN
     /\ IF Opens(o) /\ Saves(o)
        THEN /\ mark' = [idPK |-> keys.identity, highestVersionSeen |-> o.version]
             /\ session' = [key |-> Buffers + 1, version |-> o.version, identity |-> o.identity,
                            failures |-> 0, cooling |-> FALSE]
             /\ guesses' = 0
             /\ accepted' = [accepted EXCEPT ![o.identity] = Max({@, o.version})]
        ELSE /\ fail
             /\ guesses' = IF o.pass = "right" THEN guesses ELSE guesses + 1
             /\ UNCHANGED <<mark, accepted>>
     /\ Judge(o.pass, Opens(o) /\ Saves(o), keys.identity = o.identity, AsNew(o.identity, o.version), TRUE)
  /\ UNCHANGED <<pairingVars, keys, waiting, zeroed, cards, web, left>>

\* COOLDOWN_MS passes.
Cools ==
  /\ session.cooling
  /\ session' = [session EXCEPT !.cooling = FALSE]
  /\ guesses' = 0
  /\ UNCHANGED <<pairingVars, disk, waiting, opening, zeroed, cards, verdicts, accepted, web, left>>

\* A mutant: the reference is dropped, the bytes stay.
KeyDropped == zeroed

\* lock: zeroes the key in place, for a card build that still holds it.
Wiped == zeroed \cup ({session.key} \ {0})

\* The button, the idle timer or a suspend.
Lock ==
  /\ session.key # 0 /\ Happens("lock")
  /\ zeroed' = Wiped
  /\ session' = LockedFor(session.failures, session.cooling)
  /\ UNCHANGED <<pairingVars, disk, waiting, opening, cards, deskHistory, web>>

\* Quitting and starting again forgets failures and pause.
Quit ==
  /\ Happens("quit")
  /\ session' = LockedFor(0, FALSE)
  /\ zeroed' = Wiped
  /\ waiting' = <<>> /\ opening' = <<>> /\ cards' = NoCards /\ guesses' = 0
  /\ UNCHANGED <<pairingVars, disk, verdicts, accepted, web>>

\* resetDashboard locks and wipes; the mark stays, whole or damaged, and a whole one is overwritten by the
\* next identity's.
Reset ==
  /\ keys.identity # 0 /\ Happens("reset")
  /\ zeroed' = Wiped
  /\ session' = LockedFor(session.failures, session.cooling)
  /\ keys' = [identity |-> 0, version |-> 0]
  /\ UNCHANGED <<pairingVars, mark, waiting, opening, cards, deskHistory, web>>

\* Setting up anew (Onboarding): a fresh identity, its roster at version 1.  A deployment takes
\* longer than a key derivation, so no unlock spans it.
Setup ==
  /\ keys.identity = 0 /\ opening = <<>>
  /\ keys' = [identity |-> Len(accepted) + 1, version |-> 1]
  /\ accepted' = Append(accepted, 0)
  /\ UNCHANGED <<pairingVars, mark, desk, guesses, verdicts, web, left>>

\* A computer was admitted or revoked: the identity is wrapped again with a roster one above the one
\* that was open where that was done.
Rewrap ==
  /\ keys.identity # 0 /\ Happens("rewrap")
  /\ \E v \in 1 .. Max({keys.version, accepted[keys.identity], 1}) : keys' = [keys EXCEPT !.version = v + 1]
  /\ UNCHANGED <<pairingVars, mark, desk, deskHistory, web>>

\* The keystore's files from a backup, an earlier wrap; a mark or a wrap that does not parse.
DiskTrouble ==
  \/ /\ keys.version > 0 /\ Happens("keysBack")
     /\ \E v \in {Damaged} \cup 1 .. keys.version - 1 : keys' = [keys EXCEPT !.version = v]
     /\ UNCHANGED mark
  \/ /\ Happens("markDamaged")
     /\ mark' = [mark EXCEPT !.highestVersionSeen = Damaged]
     /\ UNCHANGED keys
DiskFails == DiskTrouble /\ UNCHANGED <<pairingVars, desk, deskHistory, web>>

-----------------------------------------------------------------------------
(* The desktop: the cards *)

\* getCards takes key and roster of the open session and lists the slots.
GetCards ==
  /\ session.key # 0 /\ cards.todo = {} /\ keys.identity # 0 /\ Happens("cards")
  /\ cards' = [key |-> session.key, todo |-> Slots, opened |-> {}]
  /\ UNCHANGED <<pairingVars, disk, session, waiting, opening, zeroed, deskHistory, web>>

\* buildCards opens one slot after the other; a slot that fails is left out.  Snapshots are this
\* computer's own: its roster lists the device that signed them.
OpenCard(s) ==
  /\ s \in cards.todo
  /\ cards' = [cards EXCEPT !.todo = @ \ {s},
                            !.opened = IF cards.key \notin zeroed THEN @ \cup {s} ELSE @]
  /\ UNCHANGED <<pairingVars, disk, session, waiting, opening, zeroed, deskHistory, web, left>>

-----------------------------------------------------------------------------
(* The server, as readers see it *)

\* An upload stored: one row per slot and date; snapshotTs is the sender's clock, which goes up.
Upload(c, s, d) ==
  /\ Happens("upload")
  /\ server' = [server EXCEPT !.clock = @ + 1,
                  !.rows = {r \in @ : r.slot # s \/ r.asOf # d}
                             \cup {[slot |-> s, asOf |-> d, ts |-> server.clock + 1, by |-> c]}]
  /\ UNCHANGED <<pairingVars, desktopVars, backup, storage, tabs, trusted, latest>>

\* storeWrappedKeys, by whoever made a roster, sooner or later.
Distribute(i) ==
  /\ i \notin server.stored
  /\ server' = [server EXCEPT !.bundle = i, !.stored = @ \cup {i}]
  /\ UNCHANGED <<pairingVars, desktopVars, backup, storage, tabs, trusted, latest, left>>

\* The database is copied, and later brought back to that copy.
ServerBack ==
  /\ Happens("serverBack")
  /\ \/ backup' = [bundle |-> server.bundle, rows |-> server.rows] /\ UNCHANGED server
     \/ server' = [server EXCEPT !.bundle = backup.bundle, !.rows = backup.rows] /\ UNCHANGED backup
  /\ UNCHANGED <<pairingVars, desktopVars, storage, tabs, trusted, latest>>

-----------------------------------------------------------------------------
(* The web dashboard: unlock *)

\* A tab: its passphrase, the roster it opens or has open, the ones trusted before it, rows to open, figures.
SignedOut == [at |-> "out", pass |-> "none", bundle |-> 0, before |-> {}, todo |-> {}, shown |-> {}]

rosterKey == <<"roster-mark">>
\* A mutant: a mark for each date.
slotKeyOfDate(row) == <<"snap-mark", row.slot, row.asOf>>
slotKey(row) == <<"snap-mark", row.slot>>
setItem(k, v) == [x \in DOMAIN storage \cup {k} |-> IF x = k THEN v ELSE storage[x]]
get(k) == IF k \in DOMAIN storage THEN storage[k] ELSE FirstUse

Goes(t, to) == tabs' = [tabs EXCEPT ![t] = to]
inTab == <<pairingVars, desktopVars, server, backup>>

\* prelogin, then the key is derived in the worker.
Submit(t, pass) ==
  /\ tabs[t].at = "out" /\ Happens("submit")
  /\ Goes(t, [SignedOut EXCEPT !.at = "signing-in", !.pass = pass])
  /\ UNCHANGED <<inTab, storage, trusted, latest>>

SignIn(t) ==
  /\ tabs[t].at = "signing-in"
  /\ Goes(t, IF tabs[t].pass = "right" THEN [tabs[t] EXCEPT !.at = "fetching-keys"] ELSE SignedOut)
  /\ UNCHANGED <<inTab, storage, trusted, latest, left>>

FetchKeys(t) ==
  /\ tabs[t].at = "fetching-keys"
  /\ Goes(t, [tabs[t] EXCEPT !.at = "opening", !.bundle = server.bundle])
  /\ UNCHANGED <<inTab, storage, trusted, latest, left>>

\* A call that fails or a worker that dies, at any of these steps.
CallFails(t) ==
  /\ tabs[t].at \in {"signing-in", "fetching-keys", "opening"} /\ Happens("failure")
  /\ Goes(t, SignedOut)
  /\ UNCHANGED <<inTab, storage, trusted, latest>>

loadRosterMemory == get(rosterKey)

\* The worker has opened the bundle; the mark is read, compared and saved without an await.
OpenSession(t) ==
  LET bundle == tabs[t].bundle
      version == published[bundle].version
  IN  /\ tabs[t].at = "opening"
      /\ IF loadRosterMemory # Damaged /\ acceptable(loadRosterMemory, version)
         THEN /\ Goes(t, [SignedOut EXCEPT !.at = "in", !.bundle = bundle, !.before = trusted])
              /\ storage' = setItem(rosterKey, version)
              /\ trusted' = trusted \cup {bundle}
         ELSE /\ Goes(t, SignedOut)
              /\ UNCHANGED <<storage, trusted>>
      /\ UNCHANGED <<inTab, latest, left>>

\* lockSession and a reload.
LockTab(t) ==
  /\ tabs[t].at = "in" /\ Happens("lock")
  /\ Goes(t, SignedOut)
  /\ UNCHANGED <<inTab, storage, trusted, latest>>

-----------------------------------------------------------------------------
(* The web dashboard: loadDashboard *)

isNewer(a, b) == a.asOf > b.asOf \/ (a.asOf = b.asOf /\ a.ts > b.ts)

\* The newest row of each slot is kept.
FetchRows(t) ==
  /\ tabs[t].at = "in" /\ tabs[t].todo = {} /\ Happens("load")
  /\ Goes(t, [tabs[t] EXCEPT !.todo = {r \in server.rows :
                                         \A q \in server.rows : q.slot = r.slot => ~isNewer(q, r)},
                             !.shown = {}])
  /\ UNCHANGED <<inTab, storage, trusted, latest>>

loadSlotMark(row) == get(slotKey(row))

\* openSection: signed by a device the session's roster lists.
signedByPinned(t, row) == row.by \in published[tabs[t].bundle].devices

\* openSlot after its await: the mark is read, compared and saved in one go.
OpenSlot(t, row) ==
  /\ row \in tabs[t].todo
  /\ IF signedByPinned(t, row) /\ loadSlotMark(row) # Damaged /\ row.ts >= loadSlotMark(row)
     THEN /\ storage' = setItem(slotKey(row), row.ts)
          /\ Goes(t, [tabs[t] EXCEPT !.todo = @ \ {row},
                                     !.shown = @ \cup {[row |-> row, floor |-> latest[row.slot]]}])
          /\ latest' = [latest EXCEPT ![row.slot] = Max({@, row.ts})]
     ELSE /\ Goes(t, [tabs[t] EXCEPT !.todo = @ \ {row}])
          /\ UNCHANGED <<storage, latest>>
  /\ UNCHANGED <<inTab, trusted, left>>

\* A value in localStorage that does not parse; the site's data cleared by the user.
StorageTrouble ==
  \/ /\ Happens("storageDamaged")
     /\ \E k \in DOMAIN storage : storage' = [storage EXCEPT ![k] = Damaged]
     /\ UNCHANGED <<inTab, tabs, trusted, latest>>
  \/ /\ Happens("cleared")
     /\ storage' = <<>> /\ trusted' = {} /\ latest' = [s \in Slots |-> 0]
     /\ UNCHANGED <<inTab, tabs>>

-----------------------------------------------------------------------------

Init ==
  /\ PairingInit
  /\ keys = [identity |-> 1, version |-> 1] /\ mark = [idPK |-> 0, highestVersionSeen |-> FirstUse]
  /\ session = LockedFor(0, FALSE) /\ waiting = <<>> /\ opening = <<>>
  /\ zeroed = {} /\ cards = NoCards
  /\ guesses = 0 /\ verdicts = {} /\ accepted = <<0>>
  /\ server = [bundle |-> 1, stored |-> {1}, rows |-> {}, clock |-> 0] /\ backup = [bundle |-> 1, rows |-> {}]
  /\ storage = <<>> /\ tabs = [t \in Tabs |-> SignedOut]
  /\ trusted = {} /\ latest = [s \in Slots |-> 0]
  /\ left \in Scenarios

\* What the pairing screens would do; each act counts.
PairingNext ==
  /\ \/ \/ AskIssue
        \/ \E c \in Computers : AskClaim(c) \/ \E i \in DOMAIN published : revokeDevice(c, i)
        \/ Cancel \/ Expire
        /\ Happens("pair")
     \/ /\ Begin \/ Finish \/ \E c, d \in Computers, i \in DOMAIN published : admitPairedDevice(c, d, i)
        /\ UNCHANGED left
  /\ UNCHANGED <<desktopVars, web>>

DesktopNext ==
  \/ \E pass \in {"right", "wrong", "empty"} : AskUnlock(pass)
  \/ BeginUnlock \/ FinishUnlock \/ Cools \/ Lock \/ Quit \/ Reset \/ Setup \/ Rewrap \/ DiskFails
  \/ GetCards \/ \E s \in Slots : OpenCard(s)

BrowserNext ==
  \/ \E t \in Tabs :
       \/ \E pass \in {"right", "wrong"} : Submit(t, pass)
       \/ SignIn(t) \/ FetchKeys(t) \/ CallFails(t) \/ OpenSession(t) \/ LockTab(t) \/ FetchRows(t)
       \/ \E row \in tabs[t].todo : OpenSlot(t, row)
  \/ StorageTrouble

ServerNext ==
  \/ \E c \in Computers, s \in Slots, d \in Dates : Upload(c, s, d)
  \/ (\E i \in DOMAIN published : Distribute(i)) \/ ServerBack

Next == PairingNext \/ DesktopNext \/ BrowserNext \/ ServerNext

Spec == Init /\ [][Next]_vars

-----------------------------------------------------------------------------
(* Properties *)

TypeOK ==
  /\ PairingTypeOK
  /\ keys.identity \in 0 .. Len(accepted)
  /\ session.key = 0 \/ session.key \notin zeroed
  /\ session.failures \in 0 .. MAX_FAILURES - 1
  /\ server.bundle \in DOMAIN published
  /\ cards.opened \subseteq Slots

\* An unlock that meets a locked session and no pause is answered as it should be, before the key is derived
\* or after: the right passphrase opens the identity this computer holds, unless an older roster came back than
\* one it has opened that identity with, or wrap or mark cannot be read; and nothing else opens it: not while
\* another identity was set up in between, and not because the memory of it was lost or replaced.
AnsweredRightly ==
  \A v \in verdicts : v.ok <=> v.right /\ v.same /\ v.fresh /\ v.intact

\* Between two pauses no more than MAX_FAILURES passphrases are tried, however
\* many unlocks are asked for at once (the UnlockSession queue).
GuessesBounded == guesses <= MAX_FAILURES

\* A card build in flight opens nothing more once the session it took its key
\* from is locked, whatever is unlocked after it (lock zeroes in place).
NothingOpenedAfterLock ==
  [][\A s \in Slots : s \in cards'.opened \ cards.opened => session.key = cards.key]_<<cards, session>>

\* A tab shows only what a computer of its session's roster signed, and that roster is none that one this
\* browser accepted before descends from: a computer an accepted roster has dropped does not return with an
\* old bundle, whatever the server serves.  It does with a roster that somebody makes from a bundle older than
\* the revocation: that is not an old bundle, and versions do not tell.
RevokedStaysOut ==
  \A t \in Tabs : \A x \in tabs[t].shown :
    /\ x.row.by \in published[tabs[t].bundle].devices
    /\ \A r \in tabs[t].before : tabs[t].bundle \notin published[r].over

\* In one browser the figure of a slot is never replaced by an earlier one, in
\* whichever tab, for whichever date, and whatever the server goes back to.
FiguresNeverGoBack ==
  \A t \in Tabs : \A x \in tabs[t].shown : x.row.ts >= x.floor
=============================================================================
