--------------------------- MODULE ReadersProofs ---------------------------
(***************************************************************************)
(* What the pairing service, the unlock session and the tabs of a browser  *)
(* keep for any number of computers, tabs, slots, dates and events.  Each  *)
(* has an invariant of its own; the last part puts them together.          *)
(***************************************************************************)
EXTENDS Readers, FiniteSetTheorems, TLAPS

-----------------------------------------------------------------------------
(* The pairing service *)

Code == [attempts : Nat, used : Nat, expired : BOOLEAN, compared : Nat]
Claim == [op : {"claim"}, by : Computers, guess : Nat]
RunningClaim == [op : {"claim"}, by : Computers, guess : Nat, code : Nat]
Issue == [op : {"issue"}]

ServiceTyped ==
  /\ codes \in Seq(Code) /\ active \in 0 .. Len(codes)
  /\ calls \in Seq(Issue \cup Claim)
  /\ running \in Seq(Issue \cup RunningClaim)

\* What a code has counted: never more wrong claims than allowed, and one right one.
Counted(code) ==
  /\ code.compared = code.attempts + code.used
  /\ code.attempts <= MAX_ATTEMPTS /\ code.used <= 1
  /\ code.used = 1 => code.attempts < MAX_ATTEMPTS

\* The claim that awaits its hash found its code open, and nobody has touched it since.
ClaimFoundOpen ==
  /\ Len(running) <= 1
  /\ \A i \in DOMAIN running : running[i].op = "claim" =>
       /\ running[i].code \in DOMAIN codes
       /\ codes[running[i].code].used = 0
       /\ codes[running[i].code].attempts < MAX_ATTEMPTS

ServiceInv == ServiceTyped /\ ClaimFoundOpen /\ \A i \in DOMAIN codes : Counted(codes[i])

\* The service starts with nothing issued.
LEMMA ServiceInit == PairingInit => ServiceInv
BY DEF PairingInit, ServiceInv, ServiceTyped, ClaimFoundOpen

\* The calls that only join the queue.
LEMMA ServiceAsks == ASSUME ServiceInv, AskIssue \/ \E c \in Computers : AskClaim(c) PROVE ServiceInv'
<1>1. UNCHANGED <<codes, active, running>>
  BY DEF AskIssue, AskClaim, Ask
<1>2. calls' \in Seq(Issue \cup Claim)
  <2>1. CASE AskIssue
    <3>1. issue \in Issue
      BY DEF issue, Issue
    <3> QED
      BY <2>1, <3>1 DEF AskIssue, Ask, ServiceInv, ServiceTyped
  <2>2. ASSUME NEW c \in Computers, AskClaim(c) PROVE calls' \in Seq(Issue \cup Claim)
    <3>1. PICK guess \in 0 .. Len(codes) : Ask(claim(c, guess))
      BY <2>2 DEF AskClaim
    <3>2. guess \in Nat
      BY DEF ServiceInv, ServiceTyped
    <3>3. claim(c, guess) \in Claim
      BY <3>2 DEF claim, Claim
    <3> QED
      BY <3>1, <3>3 DEF Ask, ServiceInv, ServiceTyped
  <2> QED
    BY <2>1, <2>2
<1> QED
  BY <1>1, <1>2 DEF ServiceInv, ServiceTyped, ClaimFoundOpen, Counted

\* The next call begins alone; a claim that begins has found its code open.
LEMMA ServiceBegins == ASSUME ServiceInv, Begin PROVE ServiceInv'
<1> DEFINE call == Head(calls)
<1>1. running = <<>> /\ UNCHANGED <<codes, active>>
  BY DEF Begin, turn
<1>2. call \in Issue \cup Claim /\ calls' \in Seq(Issue \cup Claim)
  BY DEF Begin, ServiceInv, ServiceTyped
<1>3. CASE call.op = "issue"
  <2>1. call \in Issue \cup RunningClaim
    BY <1>2, <1>3 DEF Claim
  <2>2. running' = <<call>>
    BY <1>1, <1>3 DEF Begin
  <2> QED
    BY <1>1, <1>2, <1>3, <2>1, <2>2 DEF ServiceInv, ServiceTyped, ClaimFoundOpen, Counted
<1>4. CASE call.op = "claim" /\ ~Refuses
  <2>1. active \in DOMAIN codes /\ active \in Nat
    BY <1>4 DEF Refuses, ServiceInv, ServiceTyped
  <2>2. codes[active] \in Code
    BY <2>1 DEF ServiceInv, ServiceTyped
  <2>3. codes[active].used = 0 /\ codes[active].attempts < MAX_ATTEMPTS
    BY <1>4, <2>2, PairingAssumption DEF Refuses, Code
  <2>4. call \in Claim
    BY <1>2, <1>4 DEF Issue
  <2>5. taken(call) \in RunningClaim /\ taken(call).code = active
    BY <2>1, <2>4 DEF taken, Claim, RunningClaim
  <2>6. running' = <<taken(call)>>
    BY <1>1, <1>4 DEF Begin
  <2>7. ServiceTyped'
    BY <1>1, <1>2, <2>5, <2>6 DEF ServiceInv, ServiceTyped
  <2>8. ClaimFoundOpen'
    BY <1>1, <2>1, <2>3, <2>5, <2>6 DEF ClaimFoundOpen
  <2> QED
    BY <1>1, <2>7, <2>8 DEF ServiceInv, Counted
<1>5. CASE call.op = "claim" /\ Refuses
  BY <1>1, <1>2, <1>5 DEF Begin, ServiceInv, ServiceTyped, ClaimFoundOpen, Counted
<1> QED
  BY <1>2, <1>3, <1>4, <1>5 DEF Issue, Claim

\* A wrong claim on an open code is one more attempt and one more comparison.
LEMMA WrongClaim ==
  ASSUME NEW code \in Code, Counted(code), code.used = 0, code.attempts < MAX_ATTEMPTS
  PROVE  /\ [code EXCEPT !.attempts = @ + 1, !.compared = @ + 1] \in Code
         /\ Counted([code EXCEPT !.attempts = @ + 1, !.compared = @ + 1])
<1> DEFINE new == [code EXCEPT !.attempts = @ + 1, !.compared = @ + 1]
<1>1. PICK first : first = [code EXCEPT !.attempts = @ + 1]
  OBVIOUS
<1>2. first \in Code /\ first.compared = code.compared
  BY <1>1 DEF Code
<1>3. [first EXCEPT !.compared = @ + 1] \in Code
  BY <1>2 DEF Code
<1>4. new = [first EXCEPT !.compared = @ + 1]
  BY <1>1, <1>2
<1>5. /\ new.attempts = code.attempts + 1 /\ new.compared = code.compared + 1
      /\ new.used = code.used
  BY DEF Code
<1> HIDE DEF new
<1>6. Counted(new)
  BY <1>5, PairingAssumption DEF Counted, Code
<1> QED
  BY <1>3, <1>4, <1>6 DEF new

\* The right one uses it up.
LEMMA RightClaim ==
  ASSUME NEW code \in Code, Counted(code), code.used = 0, code.attempts < MAX_ATTEMPTS
  PROVE  /\ [code EXCEPT !.used = @ + 1, !.compared = @ + 1] \in Code
         /\ Counted([code EXCEPT !.used = @ + 1, !.compared = @ + 1])
<1> DEFINE new == [code EXCEPT !.used = @ + 1, !.compared = @ + 1]
<1>1. PICK first : first = [code EXCEPT !.used = @ + 1]
  OBVIOUS
<1>2. first \in Code /\ first.compared = code.compared
  BY <1>1 DEF Code
<1>3. [first EXCEPT !.compared = @ + 1] \in Code
  BY <1>2 DEF Code
<1>4. new = [first EXCEPT !.compared = @ + 1]
  BY <1>1, <1>2
<1>5. /\ new.attempts = code.attempts /\ new.compared = code.compared + 1
      /\ new.used = code.used + 1
  BY DEF Code
<1> HIDE DEF new
<1>6. Counted(new)
  BY <1>5, PairingAssumption DEF Counted, Code
<1> QED
  BY <1>3, <1>4, <1>6 DEF new

\* Where the hash arrives: one call was running, so nothing runs on; the code it
\* compares with is as it found it.
LEMMA ServiceFinishes == ASSUME ServiceInv, Finish PROVE ServiceInv'
<1> DEFINE call == Head(running)
           k == call.code
<1>1. call \in Issue \cup RunningClaim /\ call = running[1] /\ running' = <<>>
  BY DEF Finish, ServiceInv, ServiceTyped, ClaimFoundOpen
<1>2. UNCHANGED calls
  BY DEF Finish
<1>3. ClaimFoundOpen'
  BY <1>1 DEF ClaimFoundOpen
<1>4. SUFFICES codes' \in Seq(Code) /\ active' \in 0 .. Len(codes') /\ \A i \in DOMAIN codes' : Counted(codes'[i])
  BY <1>1, <1>2, <1>3 DEF ServiceInv, ServiceTyped, Counted
<1>5. CASE call.op = "issue"
  <2> DEFINE new == [attempts |-> 0, used |-> 0, expired |-> FALSE, compared |-> 0]
  <2>1. codes' = Append(codes, new) /\ active' = Len(codes) + 1
    BY <1>5 DEF Finish
  <2>2. new \in Code /\ Counted(new)
    BY PairingAssumption DEF Code, Counted
  <2>3. codes \in Seq(Code) /\ \A i \in DOMAIN codes : Counted(codes[i])
    BY DEF ServiceInv, ServiceTyped
  <2> HIDE DEF new
  <2>4. codes' \in Seq(Code) /\ Len(codes') = Len(codes) + 1
    BY <2>1, <2>2, <2>3
  <2>5. ASSUME NEW i \in DOMAIN codes' PROVE Counted(codes'[i])
    <3>1. codes'[i] = IF i = Len(codes) + 1 THEN new ELSE codes[i]
      BY <2>1, <2>3
    <3> QED
      BY <2>2, <2>3, <2>4, <2>5, <3>1
  <2> QED
    BY <2>1, <2>3, <2>4, <2>5
<1>6. CASE call.op = "claim"
  <2>1. call \in RunningClaim
    BY <1>1, <1>6 DEF Issue
  <2>2. k \in DOMAIN codes /\ codes[k].used = 0 /\ codes[k].attempts < MAX_ATTEMPTS
    BY <1>1, <1>6 DEF ServiceInv, ServiceTyped, ClaimFoundOpen, Finish
  <2>3. codes \in Seq(Code) /\ codes[k] \in Code /\ Counted(codes[k])
    BY <2>2 DEF ServiceInv, ServiceTyped
  <2>4. \E new \in Code : codes' = [codes EXCEPT ![k] = new] /\ Counted(new)
    <3>1. CASE call.guess # call.code
      <4> DEFINE new == [codes[k] EXCEPT !.attempts = @ + 1, !.compared = @ + 1]
      <4>1. codes' = [codes EXCEPT ![k] = new]
        BY <1>6, <2>2, <2>3, <3>1 DEF Finish
      <4>2. new \in Code /\ Counted(new)
        BY <2>2, <2>3, WrongClaim
      <4> QED
        BY <4>1, <4>2
    <3>2. CASE call.guess = call.code
      <4> DEFINE new == [codes[k] EXCEPT !.used = @ + 1, !.compared = @ + 1]
      <4>1. codes' = [codes EXCEPT ![k] = new]
        BY <1>6, <2>2, <2>3, <3>2 DEF Finish
      <4>2. new \in Code /\ Counted(new)
        BY <2>2, <2>3, RightClaim
      <4> QED
        BY <4>1, <4>2
    <3> QED
      BY <3>1, <3>2
  <2>5. UNCHANGED active
    BY <1>6 DEF Finish
  <2> QED
    BY <2>2, <2>3, <2>4, <2>5 DEF ServiceInv, ServiceTyped
<1> QED
  BY <1>1, <1>5, <1>6 DEF Issue, RunningClaim

\* A code withdrawn or run out is no code at all, or one more that refuses.
LEMMA ServiceEnds == ASSUME ServiceInv, Cancel \/ Expire PROVE ServiceInv'
<1>1. UNCHANGED <<calls, running>>
  BY DEF Cancel, Expire
<1>2. CASE Cancel
  BY <1>2 DEF Cancel, ServiceInv, ServiceTyped, ClaimFoundOpen, Counted
<1>3. CASE Expire
  <2>1. active \in DOMAIN codes /\ codes[active] \in Code /\ codes \in Seq(Code) /\ UNCHANGED active
    BY <1>3 DEF Expire, ServiceInv, ServiceTyped
  <2> DEFINE new == [codes[active] EXCEPT !.expired = TRUE]
  <2>2. codes' = [codes EXCEPT ![active] = new]
    BY <1>3, <2>1 DEF Expire
  <2>3. /\ new \in Code
        /\ new.attempts = codes[active].attempts /\ new.used = codes[active].used
        /\ new.compared = codes[active].compared
    BY <2>1 DEF Code
  <2> HIDE DEF new
  <2>4. codes' \in Seq(Code) /\ Len(codes') = Len(codes) /\ DOMAIN codes' = DOMAIN codes
    BY <2>1, <2>2, <2>3
  <2>5. ServiceTyped'
    BY <1>1, <2>1, <2>4 DEF ServiceInv, ServiceTyped
  <2>6. ASSUME NEW i \in DOMAIN codes
        PROVE /\ codes'[i].attempts = codes[i].attempts /\ codes'[i].used = codes[i].used
              /\ codes'[i].compared = codes[i].compared
    BY <2>1, <2>2, <2>3
  <2>7. ClaimFoundOpen'
    BY <1>1, <2>4, <2>6 DEF ServiceInv, ClaimFoundOpen
  <2>8. \A i \in DOMAIN codes' : Counted(codes'[i])
    BY <2>4, <2>6 DEF ServiceInv, Counted
  <2> QED
    BY <2>5, <2>7, <2>8 DEF ServiceInv, Counted
<1> QED
  BY <1>2, <1>3

\* What changes nothing of the service.
LEMMA ServiceStill == ASSUME ServiceInv, UNCHANGED service PROVE ServiceInv'
BY DEF service, ServiceInv, ServiceTyped, ClaimFoundOpen, Counted

-----------------------------------------------------------------------------
(* The roster of device keys *)

Roster == [version : Nat \ {0}, devices : SUBSET Computers, over : SUBSET Nat]

\* A roster is never empty, and its version is above that of any it descends from.
Descends(rosters, i) ==
  /\ rosters[i].devices # {}
  /\ rosters[i].over \subseteq 1 .. i - 1
  /\ \A j \in rosters[i].over : rosters[j].version < rosters[i].version

RosterTyped ==
  /\ published \in Seq(Roster) /\ published # <<>>
  /\ \A i \in DOMAIN published : Descends(published, i)
  /\ admitting \subseteq Computers

\* What a roster is made of.
LEMMA RosterIs ==
  ASSUME RosterTyped, NEW i \in DOMAIN published
  PROVE  /\ published[i] \in Roster
         /\ published[i].version \in Nat \ {0} /\ published[i].devices \in SUBSET Computers
         /\ published[i].over \in SUBSET Nat
<1>1. published[i] \in Roster
  BY DEF RosterTyped
<1> QED
  BY <1>1 DEF Roster

\* The rosters published stay as they are; there may be one more.
RosterGrows ==
  /\ Len(published) <= Len(published')
  /\ \A i \in DOMAIN published : published'[i] = published[i]

\* The first roster lists the computer that ran the setup.
LEMMA RosterInit == PairingInit => RosterTyped
<1> SUFFICES ASSUME PairingInit PROVE RosterTyped
  OBVIOUS
<1> DEFINE first == [version |-> 1, devices |-> {First}, over |-> {}]
<1>1. first \in Roster /\ first.devices # {} /\ first.over = {}
  BY PairingAssumption DEF Roster
<1>2. published = <<first>> /\ admitting = {}
  BY DEF PairingInit, initialRoster
<1> HIDE DEF first
<1>3. published \in Seq(Roster) /\ published # <<>> /\ DOMAIN published = {1} /\ published[1] = first
  BY <1>1, <1>2
<1> QED
  BY <1>1, <1>2, <1>3 DEF RosterTyped, Descends

\* A roster made from the i-th one is above it, and above all that one descends from.
LEMMA RosterMade ==
  ASSUME RosterTyped, NEW i \in DOMAIN published, NEW devices \in SUBSET Computers, devices # {},
         published' = Append(published, Remade(i, devices)), admitting' \subseteq Computers
  PROVE  RosterTyped' /\ RosterGrows
<1> DEFINE new == Remade(i, devices)
<1>1. /\ published \in Seq(Roster) /\ Len(published) \in Nat /\ i \in 1 .. Len(published)
      /\ published[i] \in Roster /\ Descends(published, i)
  BY DEF RosterTyped
<1>2. published[i].version \in Nat \ {0} /\ published[i].over \in SUBSET Nat
  BY <1>1 DEF Roster
<1>3. /\ new.version = published[i].version + 1 /\ new.devices = devices
      /\ new.over = published[i].over \cup {i} /\ new \in Roster
  BY <1>1, <1>2 DEF Remade, Roster
<1>4. published' = Append(published, new)
  OBVIOUS
<1> HIDE DEF new
<1>5. /\ published' \in Seq(Roster) /\ published' # <<>> /\ Len(published') = Len(published) + 1
      /\ published'[Len(published) + 1] = new
      /\ \A j \in 1 .. Len(published) : published'[j] = published[j]
  BY <1>1, <1>3, <1>4
<1>6. ASSUME NEW j \in DOMAIN published' PROVE Descends(published', j)
  <2>1. CASE j = Len(published) + 1
    <3>1. published'[j] = new /\ new.over \subseteq 1 .. j - 1 /\ new.devices # {}
      BY <1>1, <1>3, <1>5, <2>1 DEF Descends
    <3>2. ASSUME NEW k \in new.over PROVE published'[k].version < new.version
      <4>1. k \in 1 .. Len(published) /\ published'[k] = published[k] /\ published[k] \in Roster
        BY <1>1, <1>5, <2>1, <3>1
      <4>2. published[k].version <= published[i].version /\ published[k].version \in Nat
        BY <1>1, <1>2, <1>3, <3>2, <4>1 DEF Descends, Roster
      <4> QED
        BY <1>2, <1>3, <4>1, <4>2
    <3> QED
      BY <3>1, <3>2 DEF Descends
  <2>2. CASE j \in 1 .. Len(published)
    <3>1. published'[j] = published[j] /\ Descends(published, j)
      BY <1>1, <1>5, <2>2 DEF RosterTyped
    <3>2. \A k \in published[j].over : published'[k] = published[k]
      BY <1>5, <2>2, <3>1 DEF Descends
    <3> QED
      BY <3>1, <3>2 DEF Descends
  <2> QED
    BY <1>1, <1>5, <2>1, <2>2
<1> QED
  BY <1>1, <1>5, <1>6 DEF RosterTyped, RosterGrows

\* Admitting extends the caller's roster by the key; revoking takes one from it.
LEMMA RosterSteps ==
  ASSUME RosterTyped, NEW c \in Computers, NEW d \in Computers, NEW i \in DOMAIN published,
         admitPairedDevice(c, d, i) \/ revokeDevice(c, i)
  PROVE  RosterTyped' /\ RosterGrows
<1>1. published[i].devices \in SUBSET Computers
  BY RosterIs
<1>2. admitting' \subseteq Computers
  BY DEF RosterTyped, admitPairedDevice, revokeDevice
<1>3. CASE UNCHANGED published
  BY <1>2, <1>3 DEF RosterTyped, RosterGrows, Descends
<1>4. CASE admitPairedDevice(c, d, i)
  <2>1. published[i].devices \cup {d} \in SUBSET Computers /\ published[i].devices \cup {d} # {}
    BY <1>1
  <2> QED
    BY <1>2, <1>3, <1>4, <2>1, RosterMade DEF admitPairedDevice
<1>5. CASE revokeDevice(c, i)
  <2>1. published[i].devices \ {c} # {} /\ published[i].devices \ {c} \in SUBSET Computers
    BY <1>1, <1>5 DEF revokeDevice
  <2> QED
    BY <1>2, <1>5, <2>1, RosterMade DEF revokeDevice
<1> QED
  BY <1>4, <1>5

\* Claims change only who is waiting to be admitted.
LEMMA RosterStill ==
  ASSUME RosterTyped, UNCHANGED published, admitting' \subseteq Computers
  PROVE  RosterTyped' /\ RosterGrows
BY DEF RosterTyped, RosterGrows, Descends

-----------------------------------------------------------------------------
(* Numbers *)

\* The larger of two.
LEMMA MaxOfTwo == ASSUME NEW a \in Int, NEW b \in Int PROVE Max({a, b}) = IF a >= b THEN a ELSE b
BY DEF Max

\* No smaller than any of three.
LEMMA MaxOfThree ==
  ASSUME NEW a \in Int, NEW b \in Int, NEW c \in Int
  PROVE  Max({a, b, c}) \in Int
<1>1. \E x \in {a, b, c} : \A y \in {a, b, c} : x >= y
  OBVIOUS
<1> QED
  BY <1>1 DEF Max

\* Counting on a ring.
LEMMA OneMore ==
  ASSUME NEW f \in Nat, NEW m \in Nat \ {0}, f < m
  PROVE  (f + 1) % m = IF f + 1 < m THEN f + 1 ELSE 0
OBVIOUS

-----------------------------------------------------------------------------
(* The keys of the desktop's memory *)

\* Keys are numbered as they are made: the wiped ones are the first n, the open
\* one the next; a card build holds a wiped key or the one that is open.
KeysNumbered == \E n \in Nat : zeroed = 1 .. n /\ session.key \in {0, n + 1}
CardsHold == cards.todo # {} => cards.key \in Wiped
CardsTyped == cards \in [key : Nat, todo : SUBSET Slots, opened : SUBSET Slots]

CardInv == KeysNumbered /\ CardsHold /\ CardsTyped

\* The next key's number.
LEMMA NextKey ==
  ASSUME NEW n \in Nat, zeroed = 1 .. n, session.key = 0 PROVE Buffers + 1 = n + 1
<1>1. Cardinality(1 .. n) = n
  BY FS_Interval
<1> QED
  BY <1>1 DEF Buffers

-----------------------------------------------------------------------------
(* The unlock session *)

Pass == {"right", "wrong", "empty"}
Session == [key : Nat, version : Int, identity : Nat, failures : Nat, cooling : BOOLEAN]
Opening == [pass : Pass, version : Nat \ {0}, identity : Nat, memory : Int]

DeskTyped ==
  /\ accepted \in Seq(Nat) /\ accepted # <<>>
  /\ keys \in [identity : {0, Len(accepted)}, version : Int]
  /\ keys.identity = 0 => keys.version = 0
  /\ mark \in [idPK : 0 .. Len(accepted), highestVersionSeen : Int]
  /\ session \in Session /\ session.failures < MAX_FAILURES
  /\ waiting \in Seq(Pass) /\ opening \in Seq(Opening)
  /\ guesses \in Nat

\* One unlock derives its key, from a locked session that does not cool; the
\* passphrases tried are failures still counted, or there is a pause.
OneGuess ==
  /\ Len(opening) <= 1
  /\ opening # <<>> => session.key = 0 /\ ~session.cooling
  /\ IF session.cooling THEN guesses <= MAX_FAILURES ELSE guesses <= session.failures

newest == Len(accepted)

\* The mark, unless damaged, is the highest version the newest identity was
\* opened with, and of another identity only if that one never was; an unlock
\* under way began with that version, and its identity is still here or is gone.
MarkRemembers ==
  /\ accepted[newest] > 0 => mark.idPK = newest
  /\ mark.idPK = newest => mark.highestVersionSeen \in {Damaged, accepted[newest]}
  /\ \A i \in DOMAIN opening : opening[i].identity = newest /\ opening[i].memory = accepted[newest]

DeskInv == DeskTyped /\ OneGuess /\ MarkRemembers /\ AnsweredRightly

\* The session at the start of the program.
LEMMA DeskInit == Init => DeskInv
<1> SUFFICES ASSUME Init PROVE DeskInv
  OBVIOUS
<1> USE ReadersAssumption
<1>1. Len(accepted) = 1 /\ accepted[1] = 0 /\ accepted \in Seq(Nat) /\ accepted # <<>>
  BY DEF Init
<1>2. DeskTyped
  BY <1>1 DEF Init, DeskTyped, LockedFor, Session, FirstUse
<1>3. OneGuess
  BY DEF Init, OneGuess, LockedFor
<1>4. MarkRemembers
  BY <1>1 DEF Init, MarkRemembers, newest
<1>5. AnsweredRightly
  BY DEF Init, AnsweredRightly
<1> QED
  BY <1>2, <1>3, <1>4, <1>5 DEF DeskInv

\* What counting one more failure does.
LEMMA Failing ==
  ASSUME DeskTyped, fail
  PROVE  /\ session' \in Session /\ session'.failures < MAX_FAILURES
         /\ session'.key = session.key
         /\ session.failures + 1 < MAX_FAILURES =>
              session'.failures = session.failures + 1 /\ (session'.cooling <=> session.cooling)
         /\ session.failures + 1 >= MAX_FAILURES => session'.cooling
<1> DEFINE f == (session.failures + 1) % MAX_FAILURES
<1>1. session \in Session /\ session.failures \in Nat /\ session.failures < MAX_FAILURES
  BY DEF DeskTyped, Session
<1>2. f = IF session.failures + 1 < MAX_FAILURES THEN session.failures + 1 ELSE 0
  BY <1>1, OneMore, ReadersAssumption
<1>3. f \in Nat /\ f < MAX_FAILURES
  BY <1>1, <1>2, ReadersAssumption
<1>4. PICK first : first = [session EXCEPT !.failures = f]
  OBVIOUS
<1>5. first \in Session /\ first.cooling = session.cooling
  BY <1>1, <1>3, <1>4 DEF Session
<1>6. session' = [first EXCEPT !.cooling = @ \/ session.failures + 1 >= MAX_FAILURES]
  BY <1>4, <1>5 DEF fail
<1>7. session' \in Session
  BY <1>5, <1>6 DEF Session
<1>8. session'.failures = f /\ session'.key = session.key
  BY <1>1 DEF fail, Session
<1>9. session'.cooling <=> session.cooling \/ session.failures + 1 >= MAX_FAILURES
  BY <1>1, <1>5, <1>6 DEF Session
<1> HIDE DEF f
<1> QED
  BY <1>1, <1>2, <1>3, <1>7, <1>8, <1>9, ReadersAssumption

\* What changes nothing of the unlock session.
LEMMA DeskStill ==
  ASSUME DeskInv, UNCHANGED <<disk, session, waiting, opening, deskHistory>> PROVE DeskInv'
BY DEF DeskInv, DeskTyped, OneGuess, MarkRemembers, newest, AnsweredRightly, disk, deskHistory

\* A passphrase joins the queue.
LEMMA DeskAsks == ASSUME DeskInv, NEW pass \in Pass, AskUnlock(pass) PROVE DeskInv'
<1>1. waiting' \in Seq(Pass)
  BY DEF AskUnlock, DeskInv, DeskTyped
<1>2. UNCHANGED <<disk, session, opening, deskHistory>>
  BY DEF AskUnlock
<1> QED
  BY <1>1, <1>2 DEF DeskInv, DeskTyped, OneGuess, MarkRemembers, newest, AnsweredRightly, disk, deskHistory

\* What the mark says of this computer's identity, unless it is damaged.
LEMMA LoadedMark ==
  ASSUME DeskTyped, MarkRemembers, keys.identity = newest, loadMark # Damaged
  PROVE  loadMark = accepted[newest]
<1>1. newest \in DOMAIN accepted /\ accepted[newest] \in Nat /\ newest \in Nat
  BY DEF DeskTyped, newest
<1>2. CASE mark.idPK = newest
  BY <1>1, <1>2 DEF loadMark, MarkRemembers
<1>3. CASE mark.idPK # newest
  BY <1>1, <1>3 DEF loadMark, MarkRemembers, FirstUse
<1> QED
  BY <1>2, <1>3

\* A refusal before the key is derived has its reason: no passphrase, no wrap or none that can be read, or
\* a mark that cannot.
LEMMA RefusedRightly ==
  ASSUME DeskInv, NEW pass \in Pass,
         pass = "empty" \/ keys.version \in {0, Damaged} \/ keys.identity = 0 \/ loadMark = Damaged,
         Judge(pass, FALSE, TRUE, AsNew(keys.identity, keys.version),
               keys.version > 0 /\ mark.highestVersionSeen # Damaged)
  PROVE  AnsweredRightly'
<1> DEFINE v == [right |-> pass = "right", ok |-> FALSE, same |-> TRUE,
                 fresh |-> AsNew(keys.identity, keys.version),
                 intact |-> keys.version > 0 /\ mark.highestVersionSeen # Damaged]
<1>1. verdicts' = verdicts \cup {v}
  BY DEF Judge
<1>2. loadMark = Damaged => mark.highestVersionSeen = Damaged
  BY DEF loadMark, FirstUse, Damaged
<1>3. keys.version \in Int /\ (keys.identity = 0 => keys.version = 0)
  BY DEF DeskInv, DeskTyped
<1>4. ~(pass = "right" /\ keys.version > 0 /\ mark.highestVersionSeen # Damaged)
  BY <1>2, <1>3 DEF Damaged
<1>5. ~v.ok /\ ~(v.right /\ v.intact)
  BY <1>4
<1> HIDE DEF v
<1> QED
  BY <1>1, <1>5 DEF DeskInv, AnsweredRightly

\* An unlock is refused and counted, or begins with the mark of its identity.
LEMMA DeskBegins == ASSUME DeskInv, BeginUnlock PROVE DeskInv'
<1>1. opening = <<>> /\ UNCHANGED <<disk, guesses, accepted>>
  BY DEF BeginUnlock, mayUnlock
<1>2. Head(waiting) \in Pass /\ waiting' \in Seq(Pass)
  BY DEF BeginUnlock, DeskInv, DeskTyped
<1>3. UNCHANGED verdicts => AnsweredRightly'
  BY DEF DeskInv, AnsweredRightly
<1>4. CASE UNCHANGED <<session, opening, verdicts>>
  BY <1>1, <1>2, <1>3, <1>4 DEF DeskInv, DeskTyped, OneGuess, MarkRemembers, newest, disk
<1>5. CASE /\ session.key = 0 /\ ~session.cooling /\ fail /\ UNCHANGED opening
           /\ \/ Head(waiting) = "empty" \/ keys.version \in {0, Damaged}
              \/ keys.identity = 0 \/ loadMark = Damaged
           /\ Judge(Head(waiting), FALSE, TRUE, AsNew(keys.identity, keys.version),
                    keys.version > 0 /\ mark.highestVersionSeen # Damaged)
  <2>1. DeskTyped'
    BY <1>1, <1>2, <1>5, Failing DEF DeskInv, DeskTyped, disk
  <2>2. OneGuess'
    BY <1>1, <1>5, Failing, ReadersAssumption
    DEF DeskInv, DeskTyped, Session, OneGuess
  <2>3. MarkRemembers'
    BY <1>1, <1>5 DEF DeskInv, MarkRemembers, newest, disk
  <2>4. AnsweredRightly'
    BY <1>2, <1>5, RefusedRightly
  <2> QED
    BY <2>1, <2>2, <2>3, <2>4 DEF DeskInv
<1>6. CASE /\ session.key = 0 /\ ~session.cooling
           /\ keys.version > 0 /\ keys.identity # 0 /\ loadMark # Damaged
           /\ opening' = Append(opening, [pass |-> Head(waiting), version |-> keys.version,
                                          identity |-> keys.identity, memory |-> loadMark])
           /\ UNCHANGED <<session, verdicts>>
  <2> DEFINE o == [pass |-> Head(waiting), version |-> keys.version,
                   identity |-> keys.identity, memory |-> loadMark]
  <2>1. keys.identity = newest /\ keys.version \in Nat \ {0} /\ newest \in Nat /\ accepted[newest] \in Nat
    BY <1>6 DEF DeskInv, DeskTyped, newest
  <2>2. loadMark = accepted[newest]
    BY <1>6, <2>1, LoadedMark DEF DeskInv
  <2>3. o \in Opening /\ o.identity = newest /\ o.memory = accepted[newest]
    BY <1>2, <2>1, <2>2 DEF Opening
  <2> HIDE DEF o
  <2>4. opening' = <<o>>
    BY <1>1, <1>6 DEF o
  <2>5. DeskTyped'
    BY <1>1, <1>2, <1>6, <2>3, <2>4 DEF DeskInv, DeskTyped, disk
  <2>6. OneGuess'
    BY <1>1, <1>6, <2>4 DEF DeskInv, OneGuess
  <2>7. MarkRemembers'
    BY <1>1, <2>3, <2>4 DEF DeskInv, MarkRemembers, newest, disk
  <2> QED
    BY <1>3, <1>6, <2>5, <2>6, <2>7 DEF DeskInv
<1> QED
  BY <1>4, <1>5, <1>6 DEF BeginUnlock

\* An unlock opens exactly when it should: the mark it read and the mark it
\* saves over are those of its identity.
LEMMA OpensRightly ==
  ASSUME DeskInv, opening # <<>>, NEW o, o = Head(opening)
  PROVE  /\ o \in Opening /\ o.identity = newest /\ o.memory = accepted[newest]
         /\ Opens(o) /\ Saves(o) <=>
              o.pass = "right" /\ keys.identity = o.identity /\ o.version >= accepted[o.identity]
<1>1. o \in Opening /\ o.identity = newest /\ o.memory = accepted[newest]
  BY DEF DeskInv, DeskTyped, MarkRemembers
<1>2. newest \in Nat \ {0} /\ accepted[newest] \in Nat /\ keys.identity \in {0, newest}
  BY DEF DeskInv, DeskTyped, newest
<1>3. acceptable(o.memory, o.version) <=> o.version >= accepted[newest]
  BY <1>1, <1>2 DEF acceptable, Opening, FirstUse
<1>4. CASE keys.identity = 0
  BY <1>1, <1>2, <1>4 DEF Saves
<1>5. CASE keys.identity = newest
  <2>1. loadMark = Damaged \/ loadMark = accepted[newest]
    BY <1>5, LoadedMark DEF DeskInv
  <2> QED
    BY <1>1, <1>2, <1>3, <1>5, <2>1 DEF Opens, Saves
<1> QED
  BY <1>1, <1>2, <1>4, <1>5

\* The key is derived: the session opens, and mark and history agree on the
\* version; or it was one more failure.
LEMMA DeskFinishes == ASSUME DeskInv, KeysNumbered, FinishUnlock PROVE DeskInv'
<1>1. PICK o : o = Head(opening)
  OBVIOUS
<1>2. opening # <<>> /\ UNCHANGED <<keys, waiting>>
  BY DEF FinishUnlock
<1>3. /\ o \in Opening /\ o.identity = newest /\ o.memory = accepted[newest]
      /\ Opens(o) /\ Saves(o) <=>
           o.pass = "right" /\ keys.identity = o.identity /\ o.version >= accepted[o.identity]
  BY <1>1, <1>2, OpensRightly
<1>4. opening' = <<>> /\ session.key = 0 /\ ~session.cooling /\ guesses <= session.failures
  <2>1. opening \in Seq(Opening) /\ Len(opening) <= 1 /\ opening' = Tail(opening)
    BY <1>2 DEF DeskInv, DeskTyped, OneGuess, FinishUnlock
  <2>2. opening' = <<>>
    BY <1>2, <2>1
  <2> QED
    BY <1>2, <2>2 DEF DeskInv, OneGuess
<1>5. newest \in Nat \ {0} /\ newest \in DOMAIN accepted /\ accepted[newest] \in Nat
  BY DEF DeskInv, DeskTyped, newest
<1>6. AnsweredRightly'
  <2> DEFINE v == [right |-> o.pass = "right", ok |-> Opens(o) /\ Saves(o),
                   same |-> keys.identity = o.identity, fresh |-> o.version >= accepted[o.identity],
                   intact |-> TRUE]
  <2>1. verdicts' = verdicts \cup {v}
    BY <1>1, <1>3, <1>5 DEF FinishUnlock, Judge, AsNew
  <2>2. v.ok <=> v.right /\ v.same /\ v.fresh /\ v.intact
    BY <1>3
  <2> QED
    BY <2>1, <2>2 DEF DeskInv, AnsweredRightly
<1>7. CASE Opens(o) /\ Saves(o)
  <2>1. /\ mark' = [idPK |-> keys.identity, highestVersionSeen |-> o.version]
        /\ session' = [key |-> Buffers + 1, version |-> o.version, identity |-> o.identity,
                       failures |-> 0, cooling |-> FALSE]
        /\ guesses' = 0
        /\ accepted' = [accepted EXCEPT ![o.identity] = Max({@, o.version})]
    BY <1>1, <1>7 DEF FinishUnlock
  <2>2. keys.identity = newest /\ o.version \in Nat \ {0} /\ o.version >= accepted[newest]
    BY <1>3, <1>7 DEF Opening
  <2>3. Max({accepted[newest], o.version}) = o.version
    BY <1>5, <2>2, MaxOfTwo
  <2>4. accepted' = [accepted EXCEPT ![newest] = o.version]
    BY <1>3, <2>1, <2>3
  <2>5. /\ accepted' \in Seq(Nat) /\ accepted' # <<>> /\ Len(accepted') = Len(accepted)
        /\ accepted'[newest] = o.version
    BY <1>5, <2>2, <2>4 DEF DeskInv, DeskTyped
  <2>6. Buffers + 1 \in Nat
    BY <1>4, NextKey DEF KeysNumbered
  <2>7. DeskTyped'
    BY <1>2, <1>3, <1>4, <1>5, <2>1, <2>2, <2>5, <2>6, ReadersAssumption
    DEF DeskInv, DeskTyped, Session, Opening, newest
  <2>8. OneGuess'
    BY <1>4, <2>1 DEF OneGuess
  <2>9. MarkRemembers'
    <3>1. newest' = newest /\ mark'.idPK = newest /\ mark'.highestVersionSeen = o.version
      BY <2>1, <2>2, <2>5 DEF newest
    <3> QED
      BY <1>4, <2>5, <3>1 DEF MarkRemembers
  <2> QED
    BY <1>6, <2>7, <2>8, <2>9 DEF DeskInv
<1>8. CASE ~(Opens(o) /\ Saves(o))
  <2>1. /\ fail /\ UNCHANGED <<mark, accepted>>
        /\ guesses' = IF o.pass = "right" THEN guesses ELSE guesses + 1
    BY <1>1, <1>8 DEF FinishUnlock
  <2>2. DeskTyped'
    BY <1>2, <1>4, <2>1, Failing DEF DeskInv, DeskTyped
  <2>3. OneGuess'
    <3>1. /\ guesses \in Nat /\ session.failures \in Nat /\ session.failures < MAX_FAILURES
          /\ guesses' \in Nat /\ guesses' <= session.failures + 1
      BY <1>4, <2>1 DEF DeskInv, DeskTyped, Session
    <3>2. CASE session.failures + 1 < MAX_FAILURES
      <4>1. session'.failures = session.failures + 1 /\ ~session'.cooling
        BY <1>4, <2>1, <3>2, Failing DEF DeskInv
      <4> QED
        BY <1>4, <3>1, <4>1 DEF OneGuess
    <3>3. CASE session.failures + 1 >= MAX_FAILURES
      <4>1. session'.cooling
        BY <2>1, <3>3, Failing DEF DeskInv
      <4>2. guesses' <= MAX_FAILURES
        BY <3>1, ReadersAssumption
      <4> QED
        BY <1>4, <4>1, <4>2 DEF OneGuess
    <3> QED
      BY <3>1, <3>2, <3>3, ReadersAssumption
  <2>4. MarkRemembers'
    BY <1>4, <2>1 DEF DeskInv, MarkRemembers, newest
  <2> QED
    BY <1>6, <2>2, <2>3, <2>4 DEF DeskInv
<1> QED
  BY <1>7, <1>8

\* The pause ends with the count; a lock, a quit and a reset keep what is remembered.
LEMMA DeskLeaves == ASSUME DeskInv, Cools \/ Lock \/ Quit \/ Reset PROVE DeskInv'
<1>1. CASE Cools
  <2>1. session' \in Session /\ session'.failures = session.failures /\ session'.key = session.key /\ ~session'.cooling
    BY <1>1 DEF Cools, DeskInv, DeskTyped, Session
  <2>2. guesses' = 0 /\ session.failures \in Nat /\ UNCHANGED <<disk, waiting, opening, verdicts, accepted>>
    BY <1>1 DEF Cools, DeskInv, DeskTyped, Session
  <2>3. DeskTyped' /\ OneGuess'
    BY <2>1, <2>2 DEF DeskInv, DeskTyped, OneGuess, disk
  <2> QED
    BY <2>2, <2>3 DEF DeskInv, MarkRemembers, newest, AnsweredRightly, disk
<1>2. CASE Lock
  <2>1. session' = LockedFor(session.failures, session.cooling) /\ session.key # 0
    BY <1>2 DEF Lock
  <2>2. /\ session' \in Session /\ session'.failures = session.failures
        /\ session'.key = 0 /\ session'.cooling = session.cooling
    BY <2>1 DEF LockedFor, DeskInv, DeskTyped, Session
  <2>3. UNCHANGED <<disk, waiting, opening, deskHistory>>
    BY <1>2 DEF Lock
  <2>4. DeskTyped' /\ OneGuess'
    BY <2>2, <2>3 DEF DeskInv, DeskTyped, OneGuess, disk, deskHistory
  <2> QED
    BY <2>3, <2>4 DEF DeskInv, MarkRemembers, newest, AnsweredRightly, disk, deskHistory
<1>3. CASE Quit
  <2>1. waiting' = <<>> /\ opening' = <<>> /\ guesses' = 0 /\ UNCHANGED <<disk, verdicts, accepted>>
    BY <1>3 DEF Quit
  <2>2. session' \in Session /\ session'.failures = 0 /\ ~session'.cooling
    BY <1>3 DEF Quit, LockedFor, Session
  <2>3. DeskTyped'
    BY <2>1, <2>2, ReadersAssumption DEF DeskInv, DeskTyped, disk
  <2>4. OneGuess'
    BY <2>1, <2>2 DEF OneGuess
  <2> QED
    BY <2>1, <2>3, <2>4 DEF DeskInv, MarkRemembers, newest, AnsweredRightly, disk
<1>4. CASE Reset
  <2>1. /\ session' = LockedFor(session.failures, session.cooling)
        /\ keys' = [identity |-> 0, version |-> 0]
        /\ UNCHANGED <<mark, waiting, opening, deskHistory>>
    BY <1>4 DEF Reset
  <2>2. /\ session' \in Session /\ session'.failures = session.failures
        /\ session'.key = 0 /\ session'.cooling = session.cooling
    BY <2>1 DEF LockedFor, DeskInv, DeskTyped, Session
  <2>3. DeskTyped' /\ OneGuess'
    BY <2>1, <2>2 DEF DeskInv, DeskTyped, OneGuess, deskHistory
  <2> QED
    BY <2>1, <2>3 DEF DeskInv, MarkRemembers, newest, AnsweredRightly, deskHistory
<1> QED
  BY <1>1, <1>2, <1>3, <1>4

\* A fresh identity has been opened with nothing, and no mark is of it.
LEMMA DeskSetsUp == ASSUME DeskInv, Setup PROVE DeskInv'
<1>1. /\ keys' = [identity |-> Len(accepted) + 1, version |-> 1]
      /\ accepted' = Append(accepted, 0) /\ opening = <<>>
      /\ UNCHANGED <<mark, session, waiting, opening, guesses, verdicts>>
  BY DEF Setup, desk
<1>2. accepted \in Seq(Nat) /\ mark.idPK \in 0 .. Len(accepted)
  BY DEF DeskInv, DeskTyped
<1>3. /\ accepted' \in Seq(Nat) /\ accepted' # <<>>
      /\ Len(accepted') = Len(accepted) + 1 /\ accepted'[Len(accepted) + 1] = 0
  BY <1>1, <1>2
<1>4. mark.idPK # newest' /\ mark.idPK \in 0 .. Len(accepted')
  BY <1>2, <1>3 DEF newest
<1>5. DeskTyped'
  BY <1>1, <1>3, <1>4 DEF DeskInv, DeskTyped
<1>6. MarkRemembers'
  BY <1>1, <1>3, <1>4 DEF MarkRemembers, newest
<1> QED
  BY <1>1, <1>5, <1>6 DEF DeskInv, OneGuess, AnsweredRightly

\* Wrapping again and files from a backup change the version on disk, a damaged
\* mark its number: neither touches the memory of what was opened.
LEMMA DeskDisk == ASSUME DeskInv, Rewrap \/ DiskFails PROVE DeskInv'
<1>1. UNCHANGED <<session, waiting, opening, deskHistory>>
  BY DEF Rewrap, DiskFails, desk
<1>2. newest \in DOMAIN accepted /\ accepted[newest] \in Nat
  BY DEF DeskInv, DeskTyped, newest
<1>3. CASE UNCHANGED mark /\ keys.identity # 0 /\ \E v \in Int : keys' = [keys EXCEPT !.version = v]
  <2>1. keys' \in [identity : {0, Len(accepted)}, version : Int] /\ keys'.identity # 0
    BY <1>3 DEF DeskInv, DeskTyped
  <2> QED
    BY <1>1, <1>3, <2>1 DEF DeskInv, DeskTyped, OneGuess, MarkRemembers, newest, AnsweredRightly, deskHistory
<1>4. CASE UNCHANGED keys /\ mark' = [mark EXCEPT !.highestVersionSeen = Damaged]
  <2>0. Damaged \in Int
    BY DEF Damaged
  <2>1. mark' \in [idPK : 0 .. Len(accepted), highestVersionSeen : Int] /\ mark'.idPK = mark.idPK
        /\ mark'.highestVersionSeen = Damaged
    BY <1>4, <2>0 DEF DeskInv, DeskTyped
  <2> QED
    BY <1>1, <1>4, <2>1 DEF DeskInv, DeskTyped, OneGuess, MarkRemembers, newest, AnsweredRightly, deskHistory
<1>5. CASE Rewrap
  <2>1. keys.identity = newest /\ keys.version \in Int
    BY <1>5 DEF Rewrap, DeskInv, DeskTyped, newest
  <2>2. \A v \in 1 .. Max({keys.version, accepted[keys.identity], 1}) : v + 1 \in Int
    BY <1>2, <2>1, MaxOfThree
  <2> QED
    BY <1>3, <1>5, <2>2 DEF Rewrap
<1>6. CASE DiskFails
  <2>1. /\ \A v \in {Damaged} \cup 1 .. keys.version - 1 : v \in Int
        /\ keys.version > 0 => keys.identity # 0
    BY DEF DeskInv, DeskTyped, Damaged
  <2> QED
    BY <1>3, <1>4, <1>6, <2>1 DEF DiskFails, DiskTrouble
<1> QED
  BY <1>5, <1>6

\* Every step keeps the unlock session's invariant.
LEMMA DeskKeeps == ASSUME DeskInv, KeysNumbered, [Next]_vars PROVE DeskInv'
<1>1. CASE PairingNext \/ BrowserNext \/ ServerNext \/ UNCHANGED vars
  <2>1. UNCHANGED desktopVars
    BY <1>1
    DEF PairingNext, BrowserNext, ServerNext, vars, Submit, SignIn, FetchKeys, CallFails, OpenSession,
        LockTab, FetchRows, OpenSlot, StorageTrouble, inTab, Upload, Distribute, ServerBack
  <2> QED
    BY <2>1, DeskStill DEF desktopVars, desk
<1>2. CASE DesktopNext
  <2>1. CASE GetCards \/ \E s \in Slots : OpenCard(s)
    BY <2>1, DeskStill DEF GetCards, OpenCard
  <2>2. CASE \E pass \in {"right", "wrong", "empty"} : AskUnlock(pass)
    BY <2>2, DeskAsks DEF Pass
  <2> QED
    BY <1>2, <2>1, <2>2, DeskBegins, DeskFinishes, DeskLeaves, DeskSetsUp, DeskDisk DEF DesktopNext
<1> QED
  BY <1>1, <1>2 DEF Next

-----------------------------------------------------------------------------
(* The cards *)

\* The memory starts without a key.
LEMMA CardInit == Init => CardInv
<1> SUFFICES ASSUME Init PROVE CardInv
  OBVIOUS
<1>1. zeroed = 1 .. 0 /\ session.key \in {0, 0 + 1}
  BY DEF Init, LockedFor
<1>2. CardsHold /\ CardsTyped
  BY DEF Init, CardsHold, CardsTyped, NoCards
<1> QED
  BY <1>1, <1>2 DEF CardInv, KeysNumbered

\* Locking, however it comes about: the open key joins the wiped ones, and what
\* a card build holds is wiped.
LEMMA CardsLocked ==
  ASSUME CardInv, zeroed' = Wiped, session'.key = 0, UNCHANGED cards \/ cards' = NoCards
  PROVE  CardInv'
<1>1. PICK n \in Nat : zeroed = 1 .. n /\ session.key \in {0, n + 1}
  BY DEF CardInv, KeysNumbered
<1>2. KeysNumbered'
  <2>1. CASE session.key = 0
    BY <1>1, <2>1 DEF Wiped, KeysNumbered
  <2>2. CASE session.key = n + 1
    <3>1. zeroed' = 1 .. n + 1
      BY <1>1, <2>2 DEF Wiped
    <3> QED
      BY <1>1, <3>1 DEF KeysNumbered
  <2> QED
    BY <1>1, <2>1, <2>2
<1>3. CardsHold' /\ CardsTyped'
  BY DEF CardInv, CardsHold, CardsTyped, Wiped, NoCards
<1> QED
  BY <1>2, <1>3 DEF CardInv

\* What leaves the keys and the cards alone.
LEMMA CardsStill ==
  ASSUME CardInv, UNCHANGED zeroed, session'.key = session.key, UNCHANGED cards PROVE CardInv'
BY DEF CardInv, KeysNumbered, CardsHold, CardsTyped, Wiped

\* Every step keeps the keys numbered and the cards with a key of theirs.
LEMMA CardKeeps == ASSUME CardInv, DeskInv, [Next]_vars PROVE CardInv'
<1>1. CASE PairingNext \/ BrowserNext \/ ServerNext \/ UNCHANGED vars
  <2>1. UNCHANGED desktopVars
    BY <1>1
    DEF PairingNext, BrowserNext, ServerNext, vars, Submit, SignIn, FetchKeys, CallFails, OpenSession,
        LockTab, FetchRows, OpenSlot, StorageTrouble, inTab, Upload, Distribute, ServerBack
  <2> QED
    BY <2>1, CardsStill DEF desktopVars, desk
<1>2. CASE Lock \/ Quit \/ Reset
  BY <1>2, CardsLocked DEF Lock, Quit, Reset, LockedFor
<1>3. CASE Setup \/ Rewrap \/ DiskFails \/ \E pass \in {"right", "wrong", "empty"} : AskUnlock(pass)
  BY <1>3, CardsStill DEF Setup, Rewrap, DiskFails, AskUnlock, desk
<1>4. CASE BeginUnlock \/ Cools
  <2>1. session'.key = session.key
    BY <1>4, Failing DEF BeginUnlock, Cools, DeskInv, DeskTyped, Session
  <2> QED
    BY <1>4, <2>1, CardsStill DEF BeginUnlock, Cools
<1>5. CASE FinishUnlock
  <2>1. session.key = 0 /\ UNCHANGED <<zeroed, cards>>
    BY <1>5 DEF FinishUnlock, DeskInv, OneGuess
  <2>2. CASE fail
    BY <2>1, <2>2, Failing, CardsStill DEF DeskInv
  <2>3. CASE session'.key = Buffers + 1
    <3>1. PICK n \in Nat : zeroed = 1 .. n
      BY DEF CardInv, KeysNumbered
    <3>2. session'.key = n + 1
      BY <2>1, <2>3, <3>1, NextKey
    <3>3. KeysNumbered'
      BY <2>1, <3>1, <3>2 DEF KeysNumbered
    <3>4. CardsHold' /\ CardsTyped'
      BY <2>1 DEF CardInv, CardsHold, CardsTyped, Wiped
    <3> QED
      BY <3>3, <3>4 DEF CardInv
  <2> QED
    BY <1>5, <2>2, <2>3 DEF FinishUnlock
<1>6. CASE GetCards
  <2>1. cards' = [key |-> session.key, todo |-> Slots, opened |-> {}] /\ session.key # 0
        /\ UNCHANGED <<session, zeroed>>
    BY <1>6 DEF GetCards
  <2>2. session.key \in Nat
    BY DEF DeskInv, DeskTyped, Session
  <2> QED
    BY <2>1, <2>2 DEF CardInv, KeysNumbered, CardsHold, CardsTyped, Wiped
<1>7. ASSUME NEW s \in Slots, OpenCard(s) PROVE CardInv'
  <2>1. UNCHANGED <<session, zeroed>> /\ s \in cards.todo
    BY <1>7 DEF OpenCard
  <2> DEFINE opened == IF cards.key \notin zeroed THEN cards.opened \cup {s} ELSE cards.opened
  <2>2. PICK first : first = [cards EXCEPT !.todo = @ \ {s}]
    OBVIOUS
  <2>3. /\ first \in [key : Nat, todo : SUBSET Slots, opened : SUBSET Slots]
        /\ first.key = cards.key /\ first.todo \subseteq cards.todo
    BY <2>2 DEF CardInv, CardsTyped
  <2>4. cards' = [first EXCEPT !.opened = opened]
    BY <1>7, <2>2 DEF OpenCard, CardInv, CardsTyped
  <2>5. opened \in SUBSET Slots
    BY DEF CardInv, CardsTyped
  <2>6. CardsTyped' /\ cards'.key = cards.key /\ cards'.todo \subseteq cards.todo
    BY <2>3, <2>4, <2>5 DEF CardsTyped
  <2> QED
    BY <2>1, <2>6 DEF CardInv, KeysNumbered, CardsHold, Wiped
<1> QED
  BY <1>1, <1>2, <1>3, <1>4, <1>5, <1>6, <1>7 DEF Next, DesktopNext

\* A card that is opened is opened with the key of the open session.
LEMMA OpensWithOpenKey ==
  ASSUME CardInv, NEW s \in Slots, OpenCard(s), NEW x \in cards'.opened \ cards.opened
  PROVE  session.key = cards.key
<1>1. s \in cards.todo /\ cards.key \notin zeroed
  BY DEF OpenCard
<1> QED
  BY <1>1 DEF CardInv, CardsHold, Wiped

-----------------------------------------------------------------------------
(* The browser *)

Row == [slot : Slots, asOf : Dates, ts : Nat, by : Computers]
Figure == [row : Row, floor : Nat]
Tab == [at : {"out", "signing-in", "fetching-keys", "opening", "in"}, pass : {"none", "right", "wrong"},
        bundle : Nat, before : SUBSET Nat, todo : SUBSET Row, shown : SUBSET Figure]
Server == [bundle : Nat, stored : SUBSET Nat, rows : SUBSET Row, clock : Nat]

\* Rosters are named by their places among those published.
ServerTyped ==
  /\ server \in Server /\ server.bundle \in DOMAIN published
  /\ backup \in [bundle : Nat, rows : SUBSET Row] /\ backup.bundle \in DOMAIN published

WebTyped == tabs \in [Tabs -> Tab] /\ trusted \subseteq DOMAIN published /\ latest \in [Slots -> Nat]

slotMark(s) == <<"snap-mark", s>>

\* The marks in storage, unless damaged, are no lower than what was accepted, and are what was shown, since
\* the storage was last cleared.
MarksRemember ==
  /\ get(rosterKey) \in Nat \cup {Damaged}
  /\ get(rosterKey) # Damaged => \A r \in trusted : published[r].version <= get(rosterKey)
  /\ \A s \in Slots : get(slotMark(s)) \in {Damaged, latest[s]}

\* An open tab has a published roster, no older than its predecessors'; it shows
\* what that roster vouches for, and nothing older than what was shown before.
TabHolds(tab) ==
  /\ tab.at = "opening" => tab.bundle \in DOMAIN published
  /\ tab.at = "in" =>
       /\ tab.bundle \in DOMAIN published
       /\ \A r \in tab.before : r \in DOMAIN published /\ published[r].version <= published[tab.bundle].version
  /\ tab.todo # {} \/ tab.shown # {} => tab.at = "in"
  /\ \A x \in tab.shown : x.row.by \in published[tab.bundle].devices /\ x.row.ts >= x.floor

TabsHold == \A t \in Tabs : TabHolds(tabs[t])

WebInv == RosterTyped /\ ServerTyped /\ WebTyped /\ MarksRemember /\ TabsHold

\* An empty storage, and nobody signed in.
LEMMA WebInit == Init => WebInv
<1> SUFFICES ASSUME Init PROVE WebInv
  OBVIOUS
<1>1. RosterTyped
  BY RosterInit DEF Init
<1>2. 1 \in DOMAIN published
  BY <1>1 DEF RosterTyped
<1>3. ServerTyped
  BY <1>2 DEF Init, ServerTyped, Server
<1>4. SignedOut \in Tab
  BY DEF SignedOut, Tab
<1>5. WebTyped
  BY <1>4 DEF Init, WebTyped
<1>6. MarksRemember
  BY DEF Init, MarksRemember, get, FirstUse
<1>7. TabsHold
  BY DEF Init, TabsHold, TabHolds, SignedOut
<1> QED
  BY <1>1, <1>3, <1>5, <1>6, <1>7 DEF WebInv

\* Rosters published, and what the server serves of them, hold for a tab as before.
LEMMA TabStill ==
  ASSUME RosterTyped, RosterGrows, NEW tab \in Tab, TabHolds(tab)
  PROVE  TabHolds(tab)'
<1>1. DOMAIN published \subseteq DOMAIN published'
  BY DEF RosterTyped, RosterGrows
<1> QED
  BY <1>1 DEF TabHolds, RosterGrows

\* The rosters of before are still there.
LEMMA RostersStay ==
  ASSUME RosterTyped, RosterGrows PROVE DOMAIN published \subseteq DOMAIN published'
BY DEF RosterTyped, RosterGrows

\* What leaves the browser alone and the rosters growing.
LEMMA WebStill ==
  ASSUME WebInv, RosterTyped', RosterGrows, ServerTyped', UNCHANGED <<storage, tabs, trusted, latest>>
  PROVE  WebInv'
<1>1. TabsHold'
  BY TabStill DEF WebInv, WebTyped, TabsHold
<1>2. WebTyped'
  BY RostersStay DEF WebInv, WebTyped
<1>3. MarksRemember'
  <2>1. \A k : get(k)' = get(k)
    BY DEF get
  <2>2. \A r \in trusted : published'[r] = published[r]
    BY DEF WebInv, WebTyped, RosterGrows
  <2> QED
    BY <2>1, <2>2 DEF WebInv, MarksRemember, rosterKey, slotMark
<1> QED
  BY <1>1, <1>2, <1>3 DEF WebInv

\* A step of one tab.
LEMMA TabGoes ==
  ASSUME WebInv, UNCHANGED <<published, admitting, server, backup>>, NEW t \in Tabs, NEW to \in Tab, Goes(t, to), TabHolds(to),
         trusted' \subseteq DOMAIN published, latest' \in [Slots -> Nat], MarksRemember'
  PROVE  WebInv'
<1>1. RosterTyped' /\ ServerTyped' /\ RosterGrows
  BY DEF WebInv, RosterTyped, ServerTyped, RosterGrows, Descends
<1>2. tabs' \in [Tabs -> Tab]
  BY DEF WebInv, WebTyped, Goes
<1>3. TabsHold'
  <2>1. ASSUME NEW u \in Tabs PROVE TabHolds(tabs'[u])
    BY DEF WebInv, WebTyped, TabsHold, Goes
  <2> QED
    BY <2>1 DEF TabsHold, TabHolds
<1> QED
  BY <1>1, <1>2, <1>3 DEF WebInv, WebTyped

\* Marks untouched.
LEMMA MarksStill ==
  ASSUME WebInv, UNCHANGED <<published, storage, trusted, latest>>
  PROVE  trusted' \subseteq DOMAIN published /\ latest' \in [Slots -> Nat] /\ MarksRemember'
BY DEF WebInv, WebTyped, MarksRemember, get, slotMark

\* A mark saved is what is read next; the others are as they were.
LEMMA MarkSaved ==
  ASSUME NEW k, NEW v, storage' = setItem(k, v)
  PROVE  get(k)' = v /\ \A j : j # k => get(j)' = get(j)
BY DEF get, setItem

\* The marks have keys of their own.
LEMMA KeysApart ==
  /\ \A s : slotMark(s) # rosterKey
  /\ \A s, r : s # r => slotMark(s) # slotMark(r)
BY DEF slotMark, rosterKey

\* A tab that gives up, is locked or is signed out.
LEMMA TabSignsOut ==
  ASSUME WebInv, NEW t \in Tabs, Goes(t, SignedOut), UNCHANGED <<inTab, storage, trusted, latest>>
  PROVE  WebInv'
<1>1. SignedOut \in Tab /\ TabHolds(SignedOut)
  BY DEF SignedOut, Tab, TabHolds
<1>2. UNCHANGED <<published, admitting, server, backup>>
  BY DEF inTab, pairingVars
<1> QED
  BY <1>1, <1>2, TabGoes, MarksStill

\* Signing in, up to the keys the server serves.
LEMMA TabSignsIn ==
  ASSUME WebInv, NEW t \in Tabs,
         SignIn(t) \/ FetchKeys(t) \/ \E pass \in {"right", "wrong"} : Submit(t, pass)
  PROVE  WebInv'
<1> DEFINE tab == tabs[t]
<1>1. tab \in Tab /\ TabHolds(tab)
  BY DEF WebInv, WebTyped, TabsHold
<1>2. UNCHANGED <<inTab, storage, trusted, latest>> /\ UNCHANGED <<published, admitting, server, backup>>
  BY DEF SignIn, FetchKeys, Submit, inTab, pairingVars
<1>3. ASSUME NEW to \in Tab, TabHolds(to), Goes(t, to) PROVE WebInv'
  BY <1>2, <1>3, TabGoes, MarksStill
<1>4. CASE \E pass \in {"right", "wrong"} : Submit(t, pass)
  <2>1. PICK pass \in {"right", "wrong"} : Goes(t, [SignedOut EXCEPT !.at = "signing-in", !.pass = pass])
    BY <1>4 DEF Submit
  <2> DEFINE to == [SignedOut EXCEPT !.at = "signing-in", !.pass = pass]
  <2>2. PICK first : first = [SignedOut EXCEPT !.at = "signing-in"]
    OBVIOUS
  <2>3. first \in Tab /\ first.at = "signing-in" /\ first.todo = {} /\ first.shown = {}
    BY <2>2 DEF SignedOut, Tab
  <2>4. to = [first EXCEPT !.pass = pass]
    BY <2>2
  <2> HIDE DEF to
  <2>5. to \in Tab /\ TabHolds(to)
    BY <2>3, <2>4 DEF Tab, TabHolds
  <2> QED
    BY <1>3, <2>1, <2>5 DEF to
<1>5. CASE SignIn(t)
  <2>1. CASE Goes(t, SignedOut)
    BY <1>2, <2>1, TabSignsOut
  <2>2. CASE Goes(t, [tabs[t] EXCEPT !.at = "fetching-keys"]) /\ tab.at = "signing-in"
    <3> DEFINE to == [tab EXCEPT !.at = "fetching-keys"]
    <3>1. to \in Tab /\ to.at = "fetching-keys" /\ to.todo = tab.todo /\ to.shown = tab.shown
      BY <1>1 DEF Tab
    <3>2. TabHolds(to)
      BY <1>1, <2>2, <3>1 DEF TabHolds
    <3> QED
      BY <1>3, <2>2, <3>1, <3>2
  <2> QED
    BY <1>5, <2>1, <2>2 DEF SignIn
<1>6. CASE FetchKeys(t)
  <2> DEFINE to == [tab EXCEPT !.at = "opening", !.bundle = server.bundle]
  <2>1. server.bundle \in DOMAIN published /\ server.bundle \in Nat
    BY DEF WebInv, ServerTyped, RosterTyped
  <2>2. PICK first : first = [tab EXCEPT !.at = "opening"]
    OBVIOUS
  <2>3. first \in Tab
    BY <1>1, <2>2 DEF Tab
  <2>4. to \in Tab
    <3>1. to = [first EXCEPT !.bundle = server.bundle]
      BY <2>2
    <3> HIDE DEF to
    <3> QED
      BY <2>1, <2>3, <3>1 DEF Tab
  <2>5. /\ to.at = "opening" /\ to.bundle = server.bundle
        /\ to.todo = tab.todo /\ to.shown = tab.shown
    BY <1>1 DEF Tab
  <2>6. tab.todo = {} /\ tab.shown = {}
    BY <1>1, <1>6 DEF TabHolds, FetchKeys
  <2>7. Goes(t, to)
    BY <1>6 DEF FetchKeys
  <2> HIDE DEF to
  <2>8. TabHolds(to)
    BY <2>1, <2>5, <2>6 DEF TabHolds
  <2> QED
    BY <1>3, <2>4, <2>7, <2>8
<1> QED
  BY <1>4, <1>5, <1>6

\* A session opens with a roster no older than any other since the storage was
\* cleared: the mark says so, or none was.
LEMMA TabOpens == ASSUME WebInv, NEW t \in Tabs, OpenSession(t) PROVE WebInv'
<1> DEFINE bundle == tabs[t].bundle
           version == published[bundle].version
           memory == loadRosterMemory
<1>1. tabs[t] \in Tab /\ tabs[t].at = "opening" /\ bundle \in DOMAIN published /\ bundle \in Nat
  BY DEF OpenSession, WebInv, WebTyped, TabsHold, TabHolds, Tab
<1>2. UNCHANGED inTab /\ UNCHANGED <<published, admitting, server, backup, latest>>
  BY DEF OpenSession, inTab, pairingVars
<1>3. \A r \in DOMAIN published : published[r].version \in Nat \ {0}
  BY RosterIs DEF WebInv
<1>4. CASE Goes(t, SignedOut) /\ UNCHANGED <<storage, trusted>>
  BY <1>2, <1>4, TabSignsOut
<1>5. CASE /\ memory # Damaged /\ acceptable(memory, version)
           /\ Goes(t, [SignedOut EXCEPT !.at = "in", !.bundle = bundle, !.before = trusted])
           /\ storage' = setItem(rosterKey, version)
           /\ trusted' = trusted \cup {bundle}
  <2> DEFINE to == [SignedOut EXCEPT !.at = "in", !.bundle = bundle, !.before = trusted]
  <2>1. memory \in Nat /\ \A r \in trusted : published[r].version <= memory
    BY <1>5 DEF loadRosterMemory, WebInv, MarksRemember
  <2>2. trusted \subseteq DOMAIN published /\ trusted \in SUBSET Nat
    BY DEF WebInv, WebTyped, RosterTyped
  <2>3. version \in Nat \ {0}
    BY <1>1, <1>3
  <2>4. ASSUME NEW r \in trusted PROVE published[r].version <= version
    <3>1. published[r].version <= memory /\ published[r].version \in Nat \ {0}
      BY <1>3, <2>1, <2>2, <2>4
    <3> HIDE DEF memory, version
    <3> QED
      BY <1>5, <2>1, <2>3, <3>1 DEF acceptable, FirstUse
  <2>5. get(rosterKey)' = version /\ \A s \in Slots : get(slotMark(s))' = get(slotMark(s))
    <3>1. get(rosterKey)' = version /\ \A j : j # rosterKey => get(j)' = get(j)
      BY <1>5, MarkSaved
    <3> QED
      BY <3>1, KeysApart
  <2>6. MarksRemember'
    <3>1. \A x : slotMark(x)' = slotMark(x)
      BY DEF slotMark
    <3>2. \A r \in trusted' : published'[r].version <= version
      BY <1>2, <1>5, <2>3, <2>4
    <3>3. rosterKey' = rosterKey
      BY DEF rosterKey
    <3> HIDE DEF version
    <3> QED
      BY <1>2, <2>3, <2>5, <3>1, <3>2, <3>3 DEF WebInv, MarksRemember
  <2>7. PICK first : first = [SignedOut EXCEPT !.at = "in"]
    OBVIOUS
  <2>8. first \in Tab /\ first.at = "in" /\ first.todo = {} /\ first.shown = {}
    BY <2>7 DEF SignedOut, Tab
  <2>9. PICK second : second = [first EXCEPT !.bundle = bundle]
    OBVIOUS
  <2>10. /\ second \in Tab /\ second.at = "in" /\ second.bundle = bundle
         /\ second.todo = {} /\ second.shown = {}
    BY <1>1, <2>8, <2>9 DEF Tab
  <2>11. to = [second EXCEPT !.before = trusted]
    BY <2>7, <2>9
  <2> HIDE DEF to
  <2>12. /\ to \in Tab /\ to.at = "in" /\ to.bundle = bundle /\ to.before = trusted
         /\ to.todo = {} /\ to.shown = {}
    BY <2>2, <2>10, <2>11 DEF Tab
  <2>13. TabHolds(to)
    BY <1>1, <2>2, <2>4, <2>12 DEF TabHolds
  <2>14. trusted' \subseteq DOMAIN published /\ latest' \in [Slots -> Nat]
    BY <1>1, <1>2, <1>5, <2>2 DEF WebInv, WebTyped
  <2> QED
    BY <1>2, <1>5, <2>6, <2>12, <2>13, <2>14, TabGoes DEF to
<1> QED
  BY <1>4, <1>5 DEF OpenSession

\* The rows to open are rows the server served.
LEMMA TabFetches == ASSUME WebInv, NEW t \in Tabs, FetchRows(t) PROVE WebInv'
<1> DEFINE tab == tabs[t]
           rows == {r \in server.rows : \A q \in server.rows : q.slot = r.slot => ~isNewer(q, r)}
           to == [tab EXCEPT !.todo = rows, !.shown = {}]
<1>1. tab \in Tab /\ TabHolds(tab) /\ tab.at = "in" /\ rows \in SUBSET Row
  BY DEF FetchRows, WebInv, WebTyped, TabsHold, ServerTyped, Server
<1>2. Goes(t, to) /\ UNCHANGED <<inTab, storage, trusted, latest>>
  BY DEF FetchRows
<1> HIDE DEF rows
<1>3. PICK first : first = [tab EXCEPT !.todo = rows]
  OBVIOUS
<1>4. /\ first \in Tab /\ first.at = "in" /\ first.bundle = tab.bundle /\ first.before = tab.before
  BY <1>1, <1>3 DEF Tab
<1>5. to = [first EXCEPT !.shown = {}]
  BY <1>3
<1> HIDE DEF to
<1>6. /\ to \in Tab /\ to.at = "in" /\ to.bundle = tab.bundle /\ to.before = tab.before /\ to.shown = {}
  BY <1>4, <1>5 DEF Tab
<1>7. TabHolds(to)
  BY <1>1, <1>6 DEF TabHolds
<1> QED
  BY <1>2, <1>6, <1>7, TabGoes, MarksStill DEF inTab, pairingVars

\* A figure shown is no older than the slot's mark, and becomes the mark.
LEMMA TabShows == ASSUME WebInv, NEW t \in Tabs, NEW row \in tabs[t].todo, OpenSlot(t, row) PROVE WebInv'
<1> DEFINE tab == tabs[t]
<1>1. tab \in Tab /\ TabHolds(tab) /\ tab.at = "in" /\ row \in Row
  BY DEF WebInv, WebTyped, TabsHold, TabHolds, Tab
<1>2. UNCHANGED inTab /\ UNCHANGED <<published, admitting, server, backup, trusted>>
  BY DEF OpenSlot, inTab, pairingVars
<1>3. PICK first : first = [tab EXCEPT !.todo = @ \ {row}]
  OBVIOUS
<1>4. /\ first \in Tab /\ first.at = "in" /\ first.bundle = tab.bundle /\ first.before = tab.before
      /\ first.shown = tab.shown
  BY <1>1, <1>3 DEF Tab
<1>5. CASE Goes(t, first) /\ UNCHANGED <<storage, latest>>
  <2>1. TabHolds(first)
    BY <1>1, <1>4 DEF TabHolds
  <2> QED
    BY <1>2, <1>4, <1>5, <2>1, TabGoes, MarksStill
<1>6. CASE signedByPinned(t, row) /\ loadSlotMark(row) # Damaged /\ row.ts >= loadSlotMark(row)
  <2> DEFINE figure == [row |-> row, floor |-> latest[row.slot]]
             to == [tab EXCEPT !.todo = @ \ {row}, !.shown = @ \cup {figure}]
  <2>1. /\ storage' = setItem(slotKey(row), row.ts) /\ Goes(t, to)
        /\ latest' = [latest EXCEPT ![row.slot] = Max({@, row.ts})]
    BY <1>6 DEF OpenSlot
  <2>2. /\ slotKey(row) = slotMark(row.slot) /\ row.slot \in Slots /\ row.ts \in Nat
        /\ latest \in [Slots -> Nat] /\ latest[row.slot] \in Nat
    BY <1>1 DEF Row, slotKey, slotMark, WebInv, WebTyped
  <2>3. loadSlotMark(row) = latest[row.slot]
    BY <1>6, <2>2 DEF loadSlotMark, WebInv, MarksRemember
  <2>4. latest' = [latest EXCEPT ![row.slot] = row.ts]
    <3>1. Max({latest[row.slot], row.ts}) = row.ts
      BY <1>6, <2>2, <2>3, MaxOfTwo
    <3> QED
      BY <2>1, <3>1
  <2>5. /\ get(slotMark(row.slot))' = row.ts
        /\ \A j : j # slotMark(row.slot) => get(j)' = get(j)
    <3> DEFINE k == slotMark(row.slot)
    <3>1. storage' = setItem(k, row.ts)
      BY <2>1, <2>2
    <3> QED
      BY <3>1 DEF get, setItem, slotMark
  <2>6. MarksRemember'
    <3>1. get(rosterKey)' = get(rosterKey) /\ UNCHANGED <<published, trusted>>
      BY <1>2, <2>5, KeysApart
    <3>2. ASSUME NEW s \in Slots PROVE get(slotMark(s))' \in {Damaged, latest'[s]}
      <4>1. CASE s = row.slot
        BY <2>2, <2>4, <2>5, <4>1
      <4>2. CASE s # row.slot
        <5>1. get(slotMark(s))' = get(slotMark(s))
          BY <2>5, <4>2, KeysApart DEF slotMark
        <5> QED
          BY <2>2, <2>4, <4>2, <5>1 DEF WebInv, MarksRemember
      <4> QED
        BY <4>1, <4>2
    <3>3. rosterKey' = rosterKey /\ \A x : slotMark(x)' = slotMark(x)
      BY DEF rosterKey, slotMark
    <3> QED
      BY <3>1, <3>2, <3>3 DEF WebInv, MarksRemember
  <2>7. figure \in Figure /\ figure.row = row /\ figure.floor = latest[row.slot]
    BY <1>1, <2>2 DEF Figure
  <2>8. to = [first EXCEPT !.shown = @ \cup {figure}]
    BY <1>3, <1>4
  <2> HIDE DEF to, figure
  <2>9. /\ to \in Tab /\ to.at = "in" /\ to.bundle = tab.bundle /\ to.before = tab.before
        /\ to.shown = tab.shown \cup {figure}
    BY <1>4, <2>7, <2>8 DEF Tab
  <2>10. row.by \in published[tab.bundle].devices /\ row.ts >= latest[row.slot]
    BY <1>6, <2>3 DEF signedByPinned
  <2>11. TabHolds(to)
    BY <1>1, <2>7, <2>9, <2>10 DEF TabHolds
  <2>12. latest' \in [Slots -> Nat] /\ trusted' \subseteq DOMAIN published
    BY <1>2, <2>2, <2>4 DEF WebInv, WebTyped
  <2> QED
    BY <1>2, <2>1, <2>6, <2>9, <2>11, <2>12, TabGoes
<1> QED
  BY <1>3, <1>5, <1>6 DEF OpenSlot

\* A damaged mark refuses, a cleared storage has shown nothing yet.
LEMMA StorageFails == ASSUME WebInv, StorageTrouble PROVE WebInv'
<1>1. UNCHANGED <<published, admitting, server, backup, tabs>>
  BY DEF StorageTrouble, inTab, pairingVars
<1>2. RosterTyped' /\ ServerTyped' /\ TabsHold'
  BY <1>1 DEF WebInv, RosterTyped, ServerTyped, TabsHold, TabHolds, Descends
<1>3. CASE (\E k \in DOMAIN storage : storage' = [storage EXCEPT ![k] = Damaged]) /\ UNCHANGED <<trusted, latest>>
  <2>1. PICK k \in DOMAIN storage : storage' = [storage EXCEPT ![k] = Damaged]
    BY <1>3
  <2>2. \A j : get(j)' = IF j = k THEN Damaged ELSE get(j)
    BY <2>1 DEF get
  <2>3. WebTyped' /\ MarksRemember'
    BY <1>1, <1>3, <2>2 DEF WebInv, WebTyped, MarksRemember, rosterKey, slotMark
  <2> QED
    BY <1>2, <2>3 DEF WebInv
<1>4. CASE storage' = <<>> /\ trusted' = {} /\ latest' = [s \in Slots |-> 0]
  <2>1. \A j : get(j)' = 0
    BY <1>4 DEF get, FirstUse
  <2>2. WebTyped' /\ MarksRemember'
    BY <1>1, <1>4, <2>1 DEF WebInv, WebTyped, MarksRemember, rosterKey, slotMark
  <2> QED
    BY <1>2, <2>2 DEF WebInv
<1> QED
  BY <1>3, <1>4 DEF StorageTrouble

\* What the server stores and serves are rows, and rosters that were published.
LEMMA ServerKeeps == ASSUME WebInv, ServerNext PROVE WebInv'
<1>1. UNCHANGED <<published, admitting, storage, tabs, trusted, latest>>
  BY DEF ServerNext, Upload, Distribute, ServerBack, pairingVars
<1>2. RosterTyped' /\ RosterGrows
  BY <1>1 DEF WebInv, RosterTyped, RosterGrows, Descends
<1>3. ASSUME NEW c \in Computers, NEW s \in Slots, NEW d \in Dates, Upload(c, s, d) PROVE ServerTyped'
  <2> DEFINE row == [slot |-> s, asOf |-> d, ts |-> server.clock + 1, by |-> c]
             rows == {r \in server.rows : r.slot # s \/ r.asOf # d} \cup {row}
  <2>1. row \in Row
    BY DEF Row, WebInv, ServerTyped, Server
  <2>2. rows \in SUBSET Row
    BY <2>1 DEF WebInv, ServerTyped, Server
  <2>3. server' = [server EXCEPT !.clock = @ + 1, !.rows = rows] /\ UNCHANGED backup
    BY <1>3 DEF Upload
  <2> HIDE DEF rows
  <2>4. PICK first : first = [server EXCEPT !.clock = @ + 1]
    OBVIOUS
  <2>5. first \in Server /\ first.bundle = server.bundle
    BY <2>4 DEF WebInv, ServerTyped, Server
  <2>6. server' = [first EXCEPT !.rows = rows]
    BY <2>3, <2>4
  <2> QED
    BY <1>1, <2>2, <2>3, <2>5, <2>6 DEF WebInv, ServerTyped, Server
<1>4. ASSUME NEW i \in DOMAIN published, Distribute(i) PROVE ServerTyped'
  <2>1. i \in Nat /\ server.stored \cup {i} \in SUBSET Nat
    BY DEF WebInv, RosterTyped, ServerTyped, Server
  <2>2. server' = [server EXCEPT !.bundle = i, !.stored = @ \cup {i}] /\ UNCHANGED backup
    BY <1>4 DEF Distribute
  <2>3. PICK first : first = [server EXCEPT !.bundle = i]
    OBVIOUS
  <2>4. first \in Server /\ first.bundle = i /\ first.stored = server.stored
    BY <2>1, <2>3 DEF WebInv, ServerTyped, Server
  <2>5. server' = [first EXCEPT !.stored = @ \cup {i}]
    BY <2>2, <2>3
  <2>6. server' \in Server /\ server'.bundle = i
    BY <2>1, <2>4, <2>5 DEF Server
  <2> QED
    BY <1>1, <2>2, <2>6 DEF WebInv, ServerTyped
<1>5. ASSUME ServerBack PROVE ServerTyped'
  <2>1. CASE backup' = [bundle |-> server.bundle, rows |-> server.rows] /\ UNCHANGED server
    BY <1>1, <2>1 DEF WebInv, ServerTyped, Server
  <2>2. CASE server' = [server EXCEPT !.bundle = backup.bundle, !.rows = backup.rows] /\ UNCHANGED backup
    <3>1. PICK first : first = [server EXCEPT !.bundle = backup.bundle]
      OBVIOUS
    <3>2. first \in Server /\ first.bundle = backup.bundle
      BY <3>1 DEF WebInv, ServerTyped, Server
    <3>3. server' = [first EXCEPT !.rows = backup.rows]
      BY <2>2, <3>1
    <3>4. server' \in Server /\ server'.bundle = backup.bundle
      BY <3>2, <3>3 DEF WebInv, ServerTyped, Server
    <3> QED
      BY <1>1, <2>2, <3>4 DEF WebInv, ServerTyped
  <2> QED
    BY <1>5, <2>1, <2>2 DEF ServerBack
<1> QED
  BY <1>1, <1>2, <1>3, <1>4, <1>5, WebStill DEF ServerNext

\* Pairing extends the rosters, and admits only computers.
LEMMA PairingKeeps == ASSUME WebInv, ServiceInv, PairingNext PROVE WebInv' /\ ServiceInv'
<1>1. UNCHANGED <<server, backup, storage, tabs, trusted, latest>>
  BY DEF PairingNext, web
<1>2. ASSUME NEW c \in Computers, NEW d \in Computers, NEW i \in DOMAIN published,
             admitPairedDevice(c, d, i) \/ revokeDevice(c, i)
      PROVE RosterTyped' /\ RosterGrows /\ ServiceInv'
  BY <1>2, RosterSteps, ServiceStill DEF WebInv, admitPairedDevice, revokeDevice
<1>3. ASSUME AskIssue \/ (\E c \in Computers : AskClaim(c)) \/ Cancel \/ Expire \/ Begin
      PROVE  RosterTyped' /\ RosterGrows /\ ServiceInv'
  <2>1. UNCHANGED <<published, admitting>>
    BY <1>3 DEF AskIssue, AskClaim, Ask, Cancel, Expire, Begin
  <2>2. RosterTyped' /\ RosterGrows
    BY <2>1, RosterStill DEF WebInv, RosterTyped
  <2> QED
    BY <1>3, <2>2, ServiceAsks, ServiceEnds, ServiceBegins
<1>4. ASSUME Finish PROVE RosterTyped' /\ RosterGrows /\ ServiceInv'
  <2>1. UNCHANGED published
    BY <1>4 DEF Finish
  <2>2. admitting' \subseteq Computers
    <3>1. Head(running) \in Issue \cup RunningClaim /\ admitting \subseteq Computers
      BY <1>4 DEF Finish, ServiceInv, ServiceTyped, WebInv, RosterTyped
    <3>2. Head(running).op = "claim" => Head(running).by \in Computers
      BY <3>1 DEF Issue, RunningClaim
    <3> QED
      BY <1>4, <3>1, <3>2 DEF Finish
  <2> QED
    BY <1>4, <2>1, <2>2, RosterStill, ServiceFinishes DEF WebInv
<1>5. RosterTyped' /\ RosterGrows /\ ServiceInv'
  BY <1>2, <1>3, <1>4 DEF PairingNext
<1>6. ServerTyped'
  BY <1>1, <1>5 DEF WebInv, ServerTyped, RosterTyped, RosterGrows
<1> QED
  BY <1>1, <1>5, <1>6, WebStill

\* A step of a tab is one of the above.
LEMMA BrowserKeeps == ASSUME WebInv, BrowserNext PROVE WebInv'
<1>1. ASSUME NEW t \in Tabs, CallFails(t) \/ LockTab(t) PROVE WebInv'
  BY <1>1, TabSignsOut DEF CallFails, LockTab
<1> QED
  BY <1>1, TabSignsIn, TabOpens, TabFetches, TabShows, StorageFails DEF BrowserNext

\* The desktop's steps are none of the browser's.
LEMMA WebKeeps == ASSUME WebInv, ServiceInv, [Next]_vars PROVE WebInv' /\ ServiceInv'
<1>1. CASE DesktopNext \/ UNCHANGED vars
  <2>1. UNCHANGED <<pairingVars, web>>
    BY <1>1
    DEF DesktopNext, vars, AskUnlock, BeginUnlock, FinishUnlock, Cools, Lock, Quit, Reset, Setup, Rewrap,
        DiskFails, GetCards, OpenCard
  <2>2. RosterTyped' /\ RosterGrows /\ ServerTyped'
    BY <2>1 DEF WebInv, RosterTyped, RosterGrows, ServerTyped, pairingVars, web, Descends
  <2> QED
    BY <2>1, <2>2, WebStill, ServiceStill DEF pairingVars, web
<1>2. CASE BrowserNext \/ ServerNext
  <2>1. UNCHANGED pairingVars
    BY <1>2
    DEF BrowserNext, ServerNext, Submit, SignIn, FetchKeys, CallFails, OpenSession, LockTab, FetchRows,
        OpenSlot, StorageTrouble, inTab, Upload, Distribute, ServerBack
  <2> QED
    BY <1>2, <2>1, BrowserKeeps, ServerKeeps, ServiceStill DEF pairingVars
<1> QED
  BY <1>1, <1>2, PairingKeeps DEF Next

-----------------------------------------------------------------------------
(* The theorems *)

IInv == ServiceInv /\ WebInv /\ DeskInv /\ CardInv

\* The four invariants hold together.
LEMMA Invariant == Spec => []IInv
<1>1. Init => IInv
  <2>1. Init => PairingInit
    BY DEF Init
  <2> QED
    BY <2>1, ServiceInit, WebInit, DeskInit, CardInit DEF IInv
<1>2. IInv /\ [Next]_vars => IInv'
  <2>1. ASSUME IInv, [Next]_vars PROVE IInv'
    BY <2>1, WebKeeps, DeskKeeps, CardKeeps DEF IInv, CardInv
  <2> QED
    BY <2>1
<1> QED
  BY <1>1, <1>2, PTL DEF Spec

\* Type correctness of the readers and of the pairing service.
THEOREM TypeCorrect == Spec => []TypeOK
<1>1. ASSUME IInv PROVE TypeOK
  <2>1. PairingTypeOK
    <3>1. codes \in Seq(Code) /\ active \in 0 .. Len(codes) /\ admitting \subseteq Computers
      BY <1>1 DEF IInv, ServiceInv, ServiceTyped, WebInv, RosterTyped
    <3>2. ASSUME NEW i \in DOMAIN published
          PROVE  /\ published[i] \in [version : Nat \ {0}, devices : (SUBSET Computers) \ {{}}, over : SUBSET Nat]
                 /\ published[i].over \subseteq 1 .. i - 1
      <4>1. published[i] \in Roster /\ Descends(published, i)
        BY <1>1 DEF IInv, WebInv, RosterTyped
      <4> QED
        BY <4>1 DEF Descends, Roster
    <3> QED
      BY <3>1, <3>2 DEF PairingTypeOK, Code
  <2>2. keys.identity \in 0 .. Len(accepted) /\ session.failures \in 0 .. MAX_FAILURES - 1
    BY <1>1, ReadersAssumption DEF IInv, DeskInv, DeskTyped, Session
  <2>3. session.key = 0 \/ session.key \notin zeroed
    BY <1>1 DEF IInv, CardInv, KeysNumbered
  <2> QED
    BY <1>1, <2>1, <2>2, <2>3 DEF IInv, WebInv, ServerTyped, CardInv, CardsTyped, TypeOK
<1> QED
  BY <1>1, Invariant, PTL

\* PairingService: a code admits one computer at most and closes after
\* MAX_ATTEMPTS wrong claims, for any number of codes and claims at once.
THEOREM OneUsePerCode == Spec => []CodeWorksOnce
<1>1. ASSUME IInv PROVE CodeWorksOnce
  <2>1. ASSUME NEW i \in DOMAIN codes PROVE codes[i] \in Code /\ Counted(codes[i])
    BY <1>1 DEF IInv, ServiceInv, ServiceTyped
  <2>2. ASSUME NEW code \in Code, Counted(code)
        PROVE  /\ code.used <= 1 /\ code.compared <= MAX_ATTEMPTS + code.used
               /\ code.used = 1 => code.attempts < MAX_ATTEMPTS
    BY <2>2, PairingAssumption DEF Code, Counted
  <2> QED
    BY <2>1, <2>2 DEF CodeWorksOnce
<1> QED
  BY <1>1, Invariant, PTL

\* UnlockSession: every unlock that is asked of a locked session out of its pause, refused before the key is
\* derived or answered after it, opens exactly when the passphrase is right, the identity is still the one it
\* began with, no older roster came back and wrap and mark can be read, after any history of resets, damaged
\* marks and restored keystores.
THEOREM UnlocksAnsweredRightly == Spec => []AnsweredRightly
<1>1. IInv => AnsweredRightly
  BY DEF IInv, DeskInv
<1> QED
  BY <1>1, Invariant, PTL

\* UnlockSession: no more than MAX_FAILURES passphrases between two pauses,
\* however many unlocks are asked for at once.
THEOREM GuessesAlwaysBounded == Spec => []GuessesBounded
<1>1. ASSUME IInv PROVE GuessesBounded
  BY <1>1, ReadersAssumption DEF IInv, DeskInv, DeskTyped, OneGuess, Session, GuessesBounded
<1> QED
  BY <1>1, Invariant, PTL

\* UnlockSession.lock: a card build opens nothing with a key that is no longer
\* the open session's.
THEOREM LockEndsReading == Spec => NothingOpenedAfterLock
<1>1. ASSUME IInv, [Next]_vars
      PROVE  [\A s \in Slots : s \in cards'.opened \ cards.opened => session.key = cards.key]_<<cards, session>>
  <2>1. CASE \E s \in Slots : OpenCard(s)
    BY <1>1, <2>1, OpensWithOpenKey DEF IInv
  <2>2. CASE GetCards \/ Quit
    <3>1. cards' = NoCards \/ cards' = [key |-> session.key, todo |-> Slots, opened |-> {}]
      BY <2>2 DEF GetCards, Quit
    <3>2. cards'.opened = {}
      BY <3>1 DEF NoCards
    <3> QED
      BY <3>2
  <2>3. CASE UNCHANGED cards
    BY <2>3
  <2>4. (\E s \in Slots : OpenCard(s)) \/ GetCards \/ Quit \/ UNCHANGED cards
    BY <1>1
    DEF Next, PairingNext, DesktopNext, BrowserNext, ServerNext, vars, desktopVars, desk, AskUnlock, BeginUnlock,
        FinishUnlock, Cools, Lock, Reset, Setup, Rewrap, DiskFails, Submit, SignIn, FetchKeys, CallFails,
        OpenSession, LockTab, FetchRows, OpenSlot, StorageTrouble, inTab, Upload, Distribute, ServerBack
  <2> QED
    BY <2>1, <2>2, <2>3, <2>4
<1> QED
  BY <1>1, Invariant, PTL DEF Spec, NothingOpenedAfterLock

\* The web dashboard shows only what its session's roster vouches for, and never again under a roster that an
\* accepted one descends from, whichever bundles the changes of rosters were made from.
THEOREM RevokedNeverReturns == Spec => []RevokedStaysOut
<1>1. ASSUME IInv PROVE RevokedStaysOut
  <2> SUFFICES ASSUME NEW t \in Tabs, NEW x \in tabs[t].shown
               PROVE  /\ x.row.by \in published[tabs[t].bundle].devices
                      /\ \A r \in tabs[t].before : tabs[t].bundle \notin published[r].over
    BY DEF RevokedStaysOut
  <2>1. TabHolds(tabs[t]) /\ tabs[t].at = "in"
    BY <1>1 DEF IInv, WebInv, TabsHold, TabHolds
  <2>2. ASSUME NEW r \in tabs[t].before, tabs[t].bundle \in published[r].over PROVE FALSE
    <3>1. r \in DOMAIN published /\ published[r].version <= published[tabs[t].bundle].version
      BY <2>1, <2>2 DEF TabHolds
    <3>2. published[tabs[t].bundle].version < published[r].version
      BY <1>1, <2>2, <3>1 DEF IInv, WebInv, RosterTyped, Descends
    <3>3. published[r].version \in Nat /\ published[tabs[t].bundle].version \in Nat
      BY <1>1, <2>1, <3>1, RosterIs DEF IInv, WebInv, TabHolds
    <3> QED
      BY <3>1, <3>2, <3>3
  <2> QED
    BY <2>1, <2>2 DEF TabHolds
<1> QED
  BY <1>1, Invariant, PTL

\* The web dashboard never replaces a figure by an earlier one, in any tab.
THEOREM FiguresOnlyAdvance == Spec => []FiguresNeverGoBack
<1>1. ASSUME IInv PROVE FiguresNeverGoBack
  BY <1>1 DEF IInv, WebInv, TabsHold, TabHolds, FiguresNeverGoBack
<1> QED
  BY <1>1, Invariant, PTL
=============================================================================
