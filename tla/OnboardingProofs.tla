-------------------------- MODULE OnboardingProofs --------------------------
(***************************************************************************)
(* What setting up keeps for any number of companies, project names, runs  *)
(* and retries, whatever is refused or lost on the way and wherever the    *)
(* process ends: a server that can be used when the wizard goes on with it *)
(* and, as soon as the Bridge can sync, one key here and there.            *)
(***************************************************************************)
EXTENDS Onboarding, TLAPS

-----------------------------------------------------------------------------
(* The invariant *)

Finding == {"probing", "waiting", "ready", "awaitIdentity"}
Building == {"awaitToken", "provisioning", "needsHuman", "cloudProblem"}
Locking == {"entry", "wrapping", "passProblem"}
Ending == {"sheet", "verify"}

\* What the host holds in each phase, and which effect is under way.
Staged ==
  /\ "probe" \in host.flights => wizard.phase = "probing"
  /\ "identity" \in host.flights => wizard.phase = "awaitIdentity"
  /\ provisioning.at # "idle" => wizard.phase \in {"provisioning", "needsHuman"}
  /\ wrapping.at # "idle" => wizard.phase = "wrapping" /\ wrapping.wrap # 0 /\ device # Absent
  /\ registered => wizard.phase \in Locking \cup Ending \cup {"done"}
  /\ wizard.phase \in Finding \cup {"done"} => host.identity = Absent /\ host.cloud = 0 /\ host.sheet = 0
  /\ wizard.phase \in Building =>
       host.identity # Absent /\ wizard.identity = host.identity /\ host.cloud = 0 /\ host.sheet = 0
  /\ wizard.phase \in Locking => host.identity # Absent /\ host.cloud # 0 /\ host.sheet = 0
  /\ wizard.phase \in Ending => host.identity # Absent /\ host.cloud # 0

\* The calls of provision that come after one of them.
AfterDeploy == {"awaitDeploy", "verifyLive"}
AfterEnv == {"uploadFiles", "deploy"} \cup AfterDeploy
AfterConnect == {"setEnv"} \cup AfterEnv
AfterDatabase == {"connectDatabase"} \cup AfterConnect
AfterOpened == {"provisionNeon", "awaitDatabase"} \cup AfterDatabase

\* What the calls answered so far have left on the project and of the deployment.
Provisioned ==
  LET r == provisioning.run
      d == deployed[r]
  IN  /\ provisioning.at \in AfterOpened => project.open
      /\ provisioning.at \in AfterDatabase => r \in available
      /\ provisioning.at \in AfterConnect => project.database = r /\ project.ready
      /\ provisioning.at \in AfterEnv => project.env = r /\ project.identity = wizard.identity
      /\ provisioning.at \in AfterDeploy =>
           /\ d.live /\ d.ready /\ d.database = r /\ d.name = provisioning.name
           /\ d.env = r /\ d.identity = wizard.identity

\* What completeSetup has done so far at the server it goes on with.
Enrolled ==
  /\ registered => device # Absent
  /\ registered /\ host.cloud # 0 => server[here].device = device
  /\ wrapping.at = "registerDevice" => ~registered
  /\ wrapping.at \in {"putWrappedKeys", "persist"} => registered
  /\ wrapping.at = "persist" =>
       server[here].pass = blob /\ server[here].recovery = blob /\ server[here].credential = wrapping.wrap

\* The server the keystore names has enrolled this device and holds keys of it.
Served ==
  currentCycle =>
    LET r == keystore["server.url"]
    IN  /\ r \in Runs /\ server[r].device = keystore["device.sk"] /\ keystore["device.id"] = keystore["device.sk"]
        /\ deployed[r].env = keystore["tenant.id"] /\ deployed[r].identity = keystore["identity.pk"]
        /\ server[r].pass # NoBlob /\ server[r].recovery # NoBlob /\ server[r].credential # Absent

\* A keystore with no more in it than the device of an attempt cut short.
Blank ==
  /\ \A e \in {"identity.pk", "tenant.id", "server.url"} : keystore[e] = Absent
  /\ ~HasWrap

\* Writes of this very host, cut short, before it tries again.
Begun ==
  /\ wizard.phase \in Locking /\ ~HasWrap /\ Served /\ device # Absent
  /\ keystore["server.url"] \in {Absent, here}
  /\ \A e \in {"device.id", "device.sk"} : keystore[e] = device
  /\ keystore["identity.pk"] = host.identity
  /\ keystore["tenant.id"] \in {Absent, here}

\* Writes that are over: the wizard is at its end, or out of sight in a new process.
Settled ==
  /\ isProvisioned /\ Served /\ OneKeyEverywhere
  /\ \/ wizard.phase \in Ending \cup {"done"}
     \/ wizard.phase = "probing" /\ host.flights = {} /\ screen = "dashboard"

\* Remains of a wipe cut short, after which no write is cut short any more.
Wrecked == faults["torn"] = 0 /\ ~currentCycle

KeysKept == Blank \/ Begun \/ Settled \/ Wrecked

\* Two writes cut short mix keystores of two setups only if a reset lies between.
TornMet == faults["torn"] <= 1 \/ faults["reset"] = 0

IInv == TypeOK /\ Staged /\ Provisioned /\ Enrolled /\ UsableWhenLive
KInv == KeysKept /\ TornMet

-----------------------------------------------------------------------------
(* The screens, the calls and the keystore, by cases                       *)

\* Which screen has the button for which event of the owner.
LEMMA Buttons ==
  ASSUME TypeOK
  PROVE
  /\ Sent("select_company") => wizard.phase = "ready"
  /\ Sent("submit_token") => wizard.phase = "awaitToken"
  /\ Sent("submit_passphrase") => wizard.phase = "entry"
  /\ Sent("submit_verify") => wizard.phase = "verify"
  /\ \A intent : Sent(intent) => screen = "wizard"
<1>1. /\ DOMAIN FindTallyScreen = Finding \ {"awaitIdentity"}
      /\ DOMAIN ConnectCloudScreen = {"awaitIdentity"} \cup Building
  BY DEF FindTallyScreen, ConnectCloudScreen, Finding, Building
<1>2. /\ \A x \in DOMAIN FindTallyScreen :
           /\ "submit_token" \notin FindTallyScreen[x] /\ "submit_passphrase" \notin FindTallyScreen[x]
           /\ "submit_verify" \notin FindTallyScreen[x]
           /\ "select_company" \in FindTallyScreen[x] => x = "ready"
      /\ \A x \in DOMAIN ConnectCloudScreen :
           /\ "submit_passphrase" \notin ConnectCloudScreen[x] /\ "submit_verify" \notin ConnectCloudScreen[x]
           /\ "select_company" \notin ConnectCloudScreen[x]
           /\ "submit_token" \in ConnectCloudScreen[x] => x = "awaitToken"
  BY <1>1 DEF FindTallyScreen, ConnectCloudScreen, Finding, Building
<1>3. ASSUME wizard.phase \in Phases, wizard.phase \notin DOMAIN FindTallyScreen, wizard.phase \notin DOMAIN ConnectCloudScreen
      PROVE  wizard.phase \in {"entry", "wrapping", "sheet", "verify", "passProblem", "done"}
  BY <1>1, <1>3 DEF Finding, Building, Phases
<1>4. \A x \in {"entry", "wrapping", "sheet", "verify", "passProblem", "done"} :
        /\ "submit_token" \notin SetPassphraseScreen[x] /\ "select_company" \notin SetPassphraseScreen[x]
        /\ "submit_passphrase" \in SetPassphraseScreen[x] => x = "entry"
        /\ "submit_verify" \in SetPassphraseScreen[x] => x = "verify"
  BY DEF SetPassphraseScreen
<1> QED
  BY <1>2, <1>3, <1>4 DEF Sent, describeWizard, TypeOK, WizardTypes, WizardState

\* The call that follows each call of provision.
LEMMA CallsInOrder ==
  /\ After("verifyToken") = "findNeon" /\ After("findNeon") = "awaitNeon"
  /\ After("awaitNeon") = "ensureProject" /\ After("ensureProject") = "disableProtection"
  /\ After("disableProtection") = "provisionNeon" /\ After("provisionNeon") = "awaitDatabase"
  /\ After("awaitDatabase") = "connectDatabase" /\ After("connectDatabase") = "setEnv"
  /\ After("setEnv") = "uploadFiles" /\ After("uploadFiles") = "deploy"
  /\ After("deploy") = "awaitDeploy" /\ After("awaitDeploy") = "verifyLive"
<1>1. DOMAIN Calls = 1 .. 13
  BY DEF Calls
<1>2. ASSUME NEW i \in 1 .. 13 PROVE (CHOOSE j \in DOMAIN Calls : Calls[j] = Calls[i]) = i
  <2>1. \A j \in 1 .. 13 : Calls[j] = Calls[i] => j = i
    BY <1>2 DEF Calls
  <2> QED
    BY <1>1, <1>2, <2>1
<1>3. ASSUME NEW i \in 1 .. 13 PROVE After(Calls[i]) = Calls[1 + i]
  <2>1. (CHOOSE j \in DOMAIN Calls : Calls[j] = Calls[i]) = i
    BY <1>2
  <2> QED
    BY <2>1, Zenon DEF After
<1>4. /\ Calls[1] = "verifyToken" /\ Calls[2] = "findNeon" /\ Calls[3] = "awaitNeon" /\ Calls[4] = "ensureProject"
      /\ Calls[5] = "disableProtection" /\ Calls[6] = "provisionNeon" /\ Calls[7] = "awaitDatabase"
      /\ Calls[8] = "connectDatabase" /\ Calls[9] = "setEnv" /\ Calls[10] = "uploadFiles" /\ Calls[11] = "deploy"
      /\ Calls[12] = "awaitDeploy" /\ Calls[13] = "verifyLive"
  BY DEF Calls
<1> QED
  BY <1>3, <1>4

\* The names of the calls.
LEMMA CallNames ==
  {Calls[i] : i \in DOMAIN Calls} =
    {"verifyToken", "findNeon", "awaitNeon", "ensureProject", "disableProtection", "provisionNeon", "awaitDatabase",
     "connectDatabase", "setEnv", "uploadFiles", "deploy", "awaitDeploy", "verifyLive"}
<1>1. DOMAIN Calls = 1 .. 13
  BY DEF Calls
<1> QED
  BY <1>1 DEF Calls

\* The entries of the keystore.
LEMMA EntryNames ==
  Entries = {"device.id", "device.pk", "device.sk", "identity.pk", "tenant.id", "server.url", "wrapped.pass"}
<1>1. DOMAIN KeystoreEntries = 1 .. 7
  BY DEF KeystoreEntries
<1> QED
  BY <1>1 DEF KeystoreEntries, Entries

-----------------------------------------------------------------------------
(* Steps that only move the wizard                                         *)

\* What applyInternal leaves of a wizard and a host.
LEMMA Settles ==
  ASSUME NEW w \in WizardState, NEW h \in HostState, Settle(w, h)
  PROVE  /\ wizard' = w /\ host' \in HostState
         /\ w.phase \notin {"probing", "awaitIdentity"} => host'.flights = h.flights
         /\ w.phase = "probing" => host'.flights = h.flights \cup {"probe"}
         /\ w.phase = "awaitIdentity" => host'.flights = h.flights \cup {"identity"}
         /\ w.phase # "done" =>
              host'.identity = h.identity /\ host'.cloud = h.cloud /\ host'.sheet = h.sheet
         /\ w.phase = "done" => host'.identity = Absent /\ host'.cloud = 0 /\ host'.sheet = 0
<1> DEFINE g == IF w.phase = "done" THEN [h EXCEPT !.identity = Absent, !.cloud = 0, !.sheet = 0] ELSE h
<1>1. /\ g \in HostState /\ g.flights = h.flights
      /\ w.phase # "done" => g = h
      /\ w.phase = "done" => g.identity = Absent /\ g.cloud = 0 /\ g.sheet = 0
  <2>1. 0 \in Nat /\ 0 \in 0 .. MaxRuns /\ 0 \in 0 .. MaxWraps
    BY OnboardingAssumption
  <2>2. CASE w.phase = "done"
    <3>1. g = [h EXCEPT !.identity = Absent, !.cloud = 0, !.sheet = 0]
      BY <2>2
    <3> QED
      BY <2>1, <2>2, <3>1 DEF HostState, Absent
  <2> QED
    BY <2>2
<1>2. wizard' = w /\ host' = kick(w, g)
  BY DEF Settle
<1> HIDE DEF g
<1>3. /\ w.phase \notin {"probing", "awaitIdentity"} => kick(w, g) = [g EXCEPT !.flights = @ \cup {}]
      /\ w.phase = "probing" => kick(w, g) = [g EXCEPT !.flights = @ \cup {"probe"}]
      /\ w.phase = "awaitIdentity" => kick(w, g) = [g EXCEPT !.flights = @ \cup {"identity"}]
  BY DEF kick
<1> QED
  BY <1>1, <1>2, <1>3 DEF HostState

\* The wizard out of sight, in a process that began with a keystore.
Parked == wizard.phase = "probing" /\ host.flights = {} /\ screen = "dashboard"

\* The ways of the owner and of the probes: nothing but the wizard moves.
Ways ==
  {<<"probing", "waiting">>, <<"probing", "ready">>, <<"waiting", "probing">>, <<"ready", "awaitIdentity">>,
   <<"cloudProblem", "awaitToken">>, <<"passProblem", "entry">>, <<"entry", "passProblem">>, <<"sheet", "verify">>}

SameHost == host'.identity = host.identity /\ host'.cloud = host.cloud /\ host'.sheet = host.sheet

Moves ==
  /\ UNCHANGED <<screen, outside>>
  /\ wizard' \in WizardState /\ host' \in HostState /\ faults' \in [Faults -> Nat]
  /\ faults'["torn"] = faults["torn"] /\ faults'["reset"] = faults["reset"]
  /\ wizard'.identity = wizard.identity
  /\ "probe" \in host'.flights => wizard'.phase = "probing"
  /\ "identity" \in host'.flights => wizard'.phase = "awaitIdentity"
  /\ ~Parked
  /\ \/ wizard'.phase = wizard.phase /\ SameHost
     \/ <<wizard.phase, wizard'.phase>> \in Ways /\ SameHost
     \/ /\ wizard.phase = "verify" /\ wizard'.phase = "done"
        /\ host'.identity = Absent /\ host'.cloud = 0 /\ host'.sheet = 0

\* A fault spent leaves the others alone.
LEMMA Spent ==
  ASSUME TypeOK, NEW f \in Faults, Spend(f)
  PROVE  /\ faults' \in [Faults -> Nat] /\ faults'[f] = faults[f] - 1 /\ faults[f] > 0
         /\ \A g \in Faults \ {f} : faults'[g] = faults[g]
BY DEF Spend, TypeOK, WizardTypes

\* A wizard sent to another phase.
LEMMA Sends ==
  ASSUME TypeOK, NEW phase \in Phases
  PROVE  To(phase) \in WizardState /\ To(phase).phase = phase /\ To(phase).identity = wizard.identity
BY DEF To, TypeOK, WizardTypes, WizardState

\* A host that has got one of its answers.
LEMMA LandsWell ==
  ASSUME TypeOK, NEW flight
  PROVE  /\ Lands(flight) \in HostState /\ Lands(flight).flights = host.flights \ {flight}
         /\ Lands(flight).identity = host.identity /\ Lands(flight).cloud = host.cloud
         /\ Lands(flight).sheet = host.sheet
BY DEF Lands, TypeOK, WizardTypes, HostState

\* The probe for Tally moves the wizard.
LEMMA ProbeMoves ==
  ASSUME TypeOK, Staged, ProbeFails \/ \E found \in SUBSET Companies : ProbeSucceeds(found)
  PROVE  Moves
<1>1. "probe" \in host.flights /\ wizard.phase = "probing" /\ UNCHANGED <<screen, outside>>
  BY DEF ProbeFails, ProbeSucceeds, Staged
<1>2. /\ faults' \in [Faults -> Nat] /\ faults'["torn"] = faults["torn"] /\ faults'["reset"] = faults["reset"]
  BY Spent DEF ProbeFails, ProbeSucceeds, Faults, TypeOK, WizardTypes
<1>3. PICK w \in WizardState : w.phase \in {"waiting", "ready"} /\ w.identity = wizard.identity /\ Settle(w, Lands("probe"))
  <2>1. CASE ProbeFails
    BY <2>1, Sends DEF ProbeFails, Phases
  <2>2. ASSUME NEW found \in SUBSET Companies, ProbeSucceeds(found)
        PROVE  \E w \in WizardState : w.phase \in {"waiting", "ready"} /\ w.identity = wizard.identity /\ Settle(w, Lands("probe"))
    <3>1. CASE found = {}
      BY <2>2, <3>1, Sends DEF ProbeSucceeds, Phases
    <3>2. CASE found # {}
      <4> DEFINE c == IF Cardinality(found) = 1 THEN CHOOSE c \in found : TRUE ELSE NoOne
                 w == [To("ready") EXCEPT !.companies = found, !.company = c]
      <4>1. c \in Companies \cup {NoOne}
        BY <2>2, <3>2
      <4>2. Settle(w, Lands("probe"))
        BY <2>2, <3>2 DEF ProbeSucceeds
      <4> HIDE DEF c
      <4>3. w \in WizardState /\ w.phase = "ready" /\ w.identity = wizard.identity
        BY <2>2, <4>1, Sends DEF WizardState, Phases
      <4> QED
        BY <4>2, <4>3
    <3> QED
      BY <3>1, <3>2
  <2> QED
    BY <2>1, <2>2
<1>4. Lands("probe") \in HostState
  BY LandsWell
<1>5. wizard' = w /\ host' \in HostState /\ host'.flights = host.flights \ {"probe"} /\ SameHost
  BY <1>3, <1>4, Settles, LandsWell DEF SameHost
<1> QED
  BY <1>1, <1>2, <1>3, <1>5 DEF Moves, Ways, Parked, Staged

\* A button of the owner moves the wizard.
LEMMA OwnerMoves ==
  ASSUME TypeOK, Staged, Retry \/ Continue \/ VerifyWords \/ RefusePassphrase \/ \E c \in Companies : SelectCompany(c)
  PROVE  Moves
<1>1. UNCHANGED <<screen, outside, faults>> /\ screen = "wizard"
  BY Buttons DEF Retry, Continue, VerifyWords, RefusePassphrase, SelectCompany
<1>2. host \in HostState /\ wizard \in WizardState /\ faults \in [Faults -> Nat]
  BY DEF TypeOK, WizardTypes
<1>3. PICK w \in WizardState : /\ Settle(w, host) /\ w.identity = wizard.identity /\ wizard.phase # "probing"
                             /\ \/ <<wizard.phase, w.phase>> \in Ways \/ w.phase = wizard.phase
                                \/ wizard.phase = "verify" /\ w.phase = "done"
  <2> DEFINE Way(w) == /\ Settle(w, host) /\ w.identity = wizard.identity /\ wizard.phase # "probing"
                       /\ \/ <<wizard.phase, w.phase>> \in Ways \/ w.phase = wizard.phase
                          \/ wizard.phase = "verify" /\ w.phase = "done"
  <2> SUFFICES \E w \in WizardState : Way(w)
    OBVIOUS
  <2>1. CASE Retry
    <3>1. CASE wizard.phase = "waiting" /\ Settle(To("probing"), host)
      <4>1. To("probing") \in WizardState /\ Way(To("probing"))
        BY <3>1, Sends DEF Ways, Phases
      <4> QED
        BY <4>1
    <3>2. CASE wizard.phase = "cloudProblem" /\ Settle(To("awaitToken"), host)
      <4>1. To("awaitToken") \in WizardState /\ Way(To("awaitToken"))
        BY <3>2, Sends DEF Ways, Phases
      <4> QED
        BY <4>1
    <3>3. CASE wizard.phase = "passProblem" /\ Settle(To("entry"), host)
      <4>1. To("entry") \in WizardState /\ Way(To("entry"))
        BY <3>3, Sends DEF Ways, Phases
      <4> QED
        BY <4>1
    <3> QED
      BY <2>1, <3>1, <3>2, <3>3 DEF Retry
  <2>2. CASE Continue
    <3>1. CASE wizard.phase = "sheet" /\ Settle(To("verify"), host)
      <4>1. To("verify") \in WizardState /\ Way(To("verify"))
        BY <3>1, Sends DEF Ways, Phases
      <4> QED
        BY <4>1
    <3>2. CASE wizard.phase = "ready" /\ Settle([To("awaitIdentity") EXCEPT !.companies = {}], host)
      <4> DEFINE w == [To("awaitIdentity") EXCEPT !.companies = {}]
      <4>1. w \in WizardState /\ w.phase = "awaitIdentity" /\ w.identity = wizard.identity
        BY Sends DEF WizardState, Phases
      <4>2. Way(w)
        BY <3>2, <4>1 DEF Ways
      <4> QED
        BY <4>1, <4>2
    <3> QED
      BY <2>2, <3>1, <3>2 DEF Continue
  <2>3. CASE VerifyWords
    <3>1. To("done") \in WizardState /\ Way(To("done"))
      BY <2>3, Sends, Buttons DEF VerifyWords, Phases
    <3> QED
      BY <3>1
  <2>4. CASE RefusePassphrase
    <3>1. To("passProblem") \in WizardState /\ Way(To("passProblem"))
      BY <2>4, Sends, Buttons DEF RefusePassphrase, Ways, Phases
    <3> QED
      BY <3>1
  <2>5. ASSUME NEW c \in Companies, SelectCompany(c) PROVE \E w \in WizardState : Way(w)
    <3> DEFINE w == [wizard EXCEPT !.company = c]
    <3>1. w \in WizardState /\ w.phase = wizard.phase /\ w.identity = wizard.identity
      BY <1>2, <2>5 DEF WizardState
    <3>2. Way(w)
      BY <2>5, <3>1, Buttons DEF SelectCompany
    <3> QED
      BY <3>1, <3>2
  <2> QED
    BY <2>1, <2>2, <2>3, <2>4, <2>5
<1>4. w.phase = "done" => wizard.phase \in {"verify", "done"}
  BY <1>3 DEF Ways
<1>5. /\ "probe" \in host'.flights => w.phase = "probing"
      /\ "identity" \in host'.flights => w.phase = "awaitIdentity"
  <2>1. ("probe" \in host.flights => wizard.phase = "probing") /\ ("identity" \in host.flights => wizard.phase = "awaitIdentity")
    BY DEF Staged
  <2>2. /\ w.phase \notin {"probing", "awaitIdentity"} => host'.flights = host.flights
        /\ w.phase = "probing" => host'.flights = host.flights \cup {"probe"}
        /\ w.phase = "awaitIdentity" => host'.flights = host.flights \cup {"identity"}
    BY <1>2, <1>3, Settles
  <2> QED
    BY <1>3, <2>1, <2>2 DEF Ways
<1>7. wizard' = w /\ host' \in HostState
  BY <1>2, <1>3, Settles
<1>8. CASE w.phase # "done"
  <2>1. SameHost
    BY <1>2, <1>3, <1>8, Settles DEF SameHost
  <2> QED
    BY <1>1, <1>2, <1>3, <1>5, <1>7, <1>8, <2>1 DEF Moves, Parked
<1>9. CASE w.phase = "done"
  <2>1. host'.identity = Absent /\ host'.cloud = 0 /\ host'.sheet = 0
    BY <1>2, <1>3, <1>9, Settles
  <2>2. CASE wizard.phase = "done"
    BY <1>1, <1>2, <1>3, <1>5, <1>7, <1>9, <2>1, <2>2 DEF Moves, Parked, SameHost, Staged
  <2>3. CASE wizard.phase = "verify"
    BY <1>1, <1>2, <1>3, <1>5, <1>7, <1>9, <2>1, <2>3 DEF Moves, Parked
  <2> QED
    BY <1>4, <1>9, <2>2, <2>3
<1> QED
  BY <1>8, <1>9

\* The host's own moves: a nudge, a failed key generation, the end of a print.
LEMMA HostMoves ==
  ASSUME TypeOK, Staged, getState \/ IdentityFails \/ PrintEnds
  PROVE  Moves
<1>1. host \in HostState /\ wizard \in WizardState /\ faults \in [Faults -> Nat]
  BY DEF TypeOK, WizardTypes
<1>2. CASE getState
  <2>1. host' = [host EXCEPT !.flights = @ \cup (IF wizard.phase = "probing" THEN {"probe"} ELSE
                                                IF wizard.phase = "awaitIdentity" THEN {"identity"} ELSE {})]
    BY <1>2 DEF getState, kick
  <2>2. host' \in HostState /\ SameHost /\ UNCHANGED <<screen, wizard, outside, faults>> /\ screen = "wizard"
    BY <1>1, <1>2, <2>1 DEF HostState, SameHost, getState, outside
  <2> QED
    BY <1>1, <2>1, <2>2 DEF Moves, Parked, Staged, HostState
<1>3. CASE IdentityFails
  <2>1. faults' \in [Faults -> Nat] /\ faults'["torn"] = faults["torn"] /\ faults'["reset"] = faults["reset"]
    BY <1>3, Spent DEF IdentityFails, Faults
  <2>2. host' \in HostState /\ SameHost /\ UNCHANGED <<screen, wizard, outside>> /\ host'.flights \subseteq host.flights
    BY <1>3, LandsWell DEF IdentityFails, SameHost
  <2> QED
    BY <1>1, <1>3, <2>1, <2>2 DEF Moves, Parked, Staged, IdentityFails
<1>4. CASE PrintEnds
  <2>1. PICK w \in {print_failed(wizard), [wizard EXCEPT !.printProblem = FALSE]} : Settle(w, host)
    BY <1>4 DEF PrintEnds
  <2>2. w \in WizardState /\ w.phase = "sheet" /\ w.identity = wizard.identity /\ wizard.phase = "sheet"
    BY <1>1, <1>4, <2>1 DEF print_failed, WizardState, PrintEnds
  <2>3. wizard' = w /\ host' \in HostState /\ SameHost /\ host'.flights = host.flights
    BY <1>1, <2>1, <2>2, Settles DEF SameHost
  <2>4. UNCHANGED <<screen, outside, faults>>
    BY <1>4 DEF PrintEnds
  <2> QED
    BY <1>1, <2>2, <2>3, <2>4 DEF Moves, Parked, Staged
<1> QED
  BY <1>2, <1>3, <1>4

\* Where the keystore stays, a Blank one does and a Wrecked one does.
LEMMA KeystoreStays ==
  ASSUME UNCHANGED keystore, faults'["torn"] <= faults["torn"], faults["torn"] \in Nat, faults'["torn"] \in Nat
  PROVE  /\ Blank => Blank'
         /\ Wrecked => Wrecked'
BY DEF Blank, Wrecked, HasWrap, currentCycle

\* So does what depends on it.
LEMMA KeystoreFrame ==
  UNCHANGED keystore => isProvisioned' = isProvisioned /\ currentCycle' = currentCycle /\ HasWrap' = HasWrap
<1> SUFFICES ASSUME UNCHANGED keystore
             PROVE  isProvisioned' = isProvisioned /\ currentCycle' = currentCycle /\ HasWrap' = HasWrap
  OBVIOUS
<1> QED
  BY DEF isProvisioned, currentCycle, HasWrap

\* The effects and what they work on keep their types where they stay.
LEMMA EffectFrame ==
  EffectTypes /\ UNCHANGED <<device, registered, provisioning, wrapping, keystore>> => EffectTypes'
BY DEF EffectTypes

\* What exists on Vercel keeps its types where it stays.
LEMMA CloudFrame ==
  CloudTypes /\ UNCHANGED <<neon, available, projects, deployed, server>> => CloudTypes'
BY DEF CloudTypes

\* A setup that has ended stays so while nobody touches the keystore and the servers.
LEMMA ServedFrame == Served /\ UNCHANGED <<keystore, server, deployed>> => Served'
BY KeystoreFrame DEF Served

\* Steps that move the wizard keep everything.
LEMMA MovesKeep ==
  ASSUME IInv, Moves
  PROVE  IInv' /\ (KInv => KInv')
<1>1. UNCHANGED <<screen, device, registered, provisioning, wrapping, keystore, neon, available, projects, deployed,
                  server, minted, calm>>
  BY DEF Moves, outside, effects, vercel
<1>2. TypeOK'
  <2>1. WizardTypes'
    BY <1>1 DEF IInv, Moves, TypeOK, WizardTypes
  <2> QED
    BY <1>1, <2>1, EffectFrame, CloudFrame DEF IInv, TypeOK
<1>3. /\ wizard.phase \in {"provisioning", "needsHuman", "wrapping"} =>
           wizard'.phase = wizard.phase /\ wizard'.identity = wizard.identity /\ SameHost
      /\ host'.cloud # 0 => host'.cloud = host.cloud /\ host'.identity = host.identity
      /\ host'.sheet = host.sheet \/ host'.sheet = 0
  BY DEF Moves, Ways, SameHost
<1>4. Staged'
  <2>1. ("probe" \in host'.flights => wizard'.phase = "probing") /\ ("identity" \in host'.flights => wizard'.phase = "awaitIdentity")
    BY DEF Moves
  <2>2. /\ provisioning.at # "idle" => wizard'.phase \in {"provisioning", "needsHuman"}
        /\ wrapping.at # "idle" => wizard'.phase = "wrapping" /\ wrapping.wrap # 0 /\ device # Absent
    BY <1>3 DEF IInv, Staged
  <2>4. registered => wizard'.phase \in Locking \cup Ending \cup {"done"}
    BY DEF IInv, Staged, Moves, Ways, Locking, Ending
  <2>3. /\ wizard'.phase \in Finding \cup {"done"} => host'.identity = Absent /\ host'.cloud = 0 /\ host'.sheet = 0
        /\ wizard'.phase \in Building =>
             host'.identity # Absent /\ wizard'.identity = host'.identity /\ host'.cloud = 0 /\ host'.sheet = 0
        /\ wizard'.phase \in Locking => host'.identity # Absent /\ host'.cloud # 0 /\ host'.sheet = 0
        /\ wizard'.phase \in Ending => host'.identity # Absent /\ host'.cloud # 0
    <3>1. CASE wizard'.phase = wizard.phase /\ SameHost
      BY <3>1 DEF IInv, Staged, SameHost, Moves
    <3>2. CASE <<wizard.phase, wizard'.phase>> \in Ways /\ SameHost
      BY <3>2 DEF IInv, Staged, SameHost, Moves, Ways, Finding, Building, Locking, Ending
    <3>3. CASE wizard.phase = "verify" /\ wizard'.phase = "done" /\ host'.identity = Absent /\ host'.cloud = 0 /\ host'.sheet = 0
      BY <3>3 DEF Finding, Building, Locking, Ending
    <3> QED
      BY <3>1, <3>2, <3>3 DEF Moves
  <2> QED
    BY <1>1, <2>1, <2>2, <2>3, <2>4 DEF Staged
<1>5. Provisioned'
  <2>1. wizard'.identity = wizard.identity
    BY DEF Moves
  <2> QED
    BY <1>1, <2>1 DEF IInv, Provisioned, project
<1>6. Enrolled'
  <2>1. registered /\ host'.cloud # 0 => server[host'.cloud].device = device
    BY <1>3 DEF IInv, Enrolled, here
  <2>2. wrapping.at = "persist" => SameHost
    BY <1>3 DEF IInv, Staged
  <2>3. wrapping.at = "persist" => blob' = blob /\ here' = here
    BY <1>1, <2>2 DEF blob, here, SameHost
  <2> QED
    BY <1>1, <2>1, <2>3 DEF IInv, Enrolled, here
<1>7. UsableWhenLive'
  BY <1>1, <1>3 DEF IInv, UsableWhenLive
<1>8. ASSUME KInv PROVE KInv'
  <2>1. TornMet'
    BY <1>8 DEF KInv, TornMet, Moves
  <2>2. CASE Blank \/ Wrecked
    <3>1. faults["torn"] \in Nat /\ faults'["torn"] = faults["torn"]
      BY DEF Moves, IInv, TypeOK, WizardTypes, Faults
    <3>2. faults'["torn"] \in Nat /\ faults'["torn"] <= faults["torn"]
      BY <3>1
    <3> QED
      BY <1>1, <2>1, <2>2, <3>1, <3>2, KeystoreStays DEF KInv, KeysKept
  <2>3. CASE Begun
    <3>1. wizard'.phase \in Locking /\ SameHost
      BY <2>3 DEF Begun, Moves, Locking, Ways
    <3> QED
      BY <1>1, <2>1, <2>3, <3>1, KeystoreFrame, ServedFrame DEF KInv, KeysKept, Begun, SameHost, here
  <2>4. CASE Settled
    <3>1. wizard'.phase \in Ending \cup {"done"}
      BY <2>4 DEF Settled, Moves, Parked, Ending, Ways
    <3>2. OneKeyEverywhere'
      BY <1>1, <1>3, <2>4, KeystoreFrame DEF Settled, OneKeyEverywhere
    <3>3. isProvisioned' /\ Served'
      BY <1>1, <2>4, KeystoreFrame, ServedFrame DEF Settled
    <3> QED
      BY <2>1, <3>1, <3>2, <3>3 DEF Settled, KeysKept, KInv
  <2> QED
    BY <1>8, <2>1, <2>2, <2>3, <2>4 DEF KInv, KeysKept
<1> QED
  BY <1>2, <1>4, <1>5, <1>6, <1>7, <1>8 DEF IInv

-----------------------------------------------------------------------------
(* Screen 2: the key and the server                                        *)

\* A phase that waits on no effect of the host is all that moves.
LEMMA SettlesTo ==
  ASSUME TypeOK, NEW phase \in Phases \ {"done", "probing", "awaitIdentity"}, Settle(To(phase), host)
  PROVE  wizard' \in WizardState /\ wizard'.phase = phase /\ wizard'.identity = wizard.identity /\ host' = host
<1>1. host \in HostState
  BY DEF TypeOK, WizardTypes
<1>2. To(phase) \in WizardState /\ To(phase).phase = phase /\ To(phase).identity = wizard.identity
  BY Sends
<1>3. wizard' = To(phase) /\ host' = kick(To(phase), host)
  BY <1>2 DEF Settle
<1>4. kick(To(phase), host) = [host EXCEPT !.flights = @ \cup {}]
  BY <1>2 DEF kick
<1>5. kick(To(phase), host) = host
  BY <1>1, <1>4 DEF HostState
<1> QED
  BY <1>2, <1>3, <1>5

\* Until the wizard locks, nothing of this setup is in the keystore.
LEMMA KeysWait ==
  ASSUME KInv, TypeOK, wizard.phase \in Building \cup {"awaitIdentity"}, UNCHANGED keystore,
         faults' \in [Faults -> Nat], faults'["torn"] = faults["torn"], faults'["reset"] = faults["reset"]
  PROVE  KInv'
<1>1. TornMet'
  BY DEF KInv, TornMet
<1>2. faults["torn"] \in Nat /\ faults'["torn"] \in Nat /\ faults'["torn"] <= faults["torn"]
  BY DEF TypeOK, WizardTypes, Faults
<1>3. Blank \/ Wrecked
  BY DEF KInv, KeysKept, Begun, Settled, Building, Locking, Ending
<1> QED
  BY <1>1, <1>2, <1>3, KeystoreStays DEF KInv, KeysKept

\* Until the wizard locks, nothing is enrolled and no server is gone on with.
LEMMA BuildingKeeps ==
  ASSUME IInv, wizard.phase \in Building, host' = host, wizard'.phase \in Building, wizard'.identity = wizard.identity,
         UNCHANGED <<device, registered, wrapping>>,
         provisioning'.at # "idle" => wizard'.phase \in {"provisioning", "needsHuman"}
  PROVE  Staged' /\ Enrolled' /\ UsableWhenLive'
<1>1. wrapping.at = "idle" /\ host.flights \subseteq {} /\ host.cloud = 0 /\ host.sheet = 0
  BY DEF IInv, Staged, Building, TypeOK, WizardTypes, HostState
<1>2. host.identity # Absent /\ wizard'.identity = host.identity /\ ~registered
  BY DEF IInv, Staged, Building, Locking, Ending
<1>3. Staged'
  BY <1>1, <1>2 DEF Staged, Finding, Building, Locking, Ending
<1>4. Enrolled'
  BY <1>1 DEF IInv, Enrolled
<1>5. UsableWhenLive'
  BY <1>1 DEF UsableWhenLive
<1> QED
  BY <1>3, <1>4, <1>5

\* The key pair is ready: made before anything is provisioned.
LEMMA IdentityReadyKeeps ==
  ASSUME IInv, IdentityReady
  PROVE  IInv' /\ (KInv => KInv')
<1>1. wizard.phase = "awaitIdentity" /\ host.identity = Absent /\ host.cloud = 0 /\ host.sheet = 0
  BY DEF IdentityReady, IInv, Staged, Finding
<1>2. UNCHANGED <<screen, device, registered, provisioning, wrapping, keystore, neon, available, projects, deployed,
                  server, faults, calm>>
  BY DEF IdentityReady, effects, vercel
<1> DEFINE id == minted.identity + 1
<1>3. minted.identity \in Nat /\ id \in Nat /\ id # Absent /\ id > minted.identity
  BY DEF IInv, TypeOK, WizardTypes, Absent
<1>4. PICK i : i = id
  OBVIOUS
<1>5. PICK w, h : /\ w = [To("awaitToken") EXCEPT !.identity = i] /\ h = [Lands("identity") EXCEPT !.identity = i]
                  /\ Settle(w, h)
  BY <1>1, <1>4 DEF IdentityReady
<1>6. minted' = [minted EXCEPT !.identity = i]
  BY <1>1, <1>3, <1>4 DEF IdentityReady
<1> HIDE DEF id
<1>7. w \in WizardState /\ w.phase = "awaitToken" /\ w.identity = i
  BY <1>3, <1>4, <1>5, Sends DEF IInv, WizardState, Phases
<1>8. h \in HostState /\ h.identity = i /\ h.cloud = 0 /\ h.sheet = 0 /\ "identity" \notin h.flights /\ "probe" \notin h.flights
  BY <1>1, <1>3, <1>4, <1>5, LandsWell DEF IInv, HostState, Staged
<1>9. /\ wizard' = w /\ host' \in HostState /\ host'.flights = h.flights
      /\ host'.identity = i /\ host'.cloud = 0 /\ host'.sheet = 0
  BY <1>5, <1>7, <1>8, Settles
<1>10. TypeOK'
  <2>1. WizardTypes'
    BY <1>2, <1>3, <1>4, <1>6, <1>7, <1>9 DEF IInv, TypeOK, WizardTypes
  <2> QED
    BY <1>2, <2>1, EffectFrame, CloudFrame DEF IInv, TypeOK
<1>11. Staged'
  <2>1. provisioning.at = "idle" /\ wrapping.at = "idle" /\ ~registered
    BY <1>1 DEF IInv, Staged, Locking, Ending
  <2> QED
    BY <1>2, <1>3, <1>4, <1>7, <1>8, <1>9, <2>1 DEF Staged, Finding, Building, Locking, Ending
<1>12. Provisioned' /\ Enrolled' /\ UsableWhenLive'
  <2>1. provisioning.at = "idle" /\ wrapping.at = "idle"
    BY <1>1 DEF IInv, Staged
  <2>2. Provisioned'
    BY <1>2, <2>1 DEF Provisioned, AfterOpened, AfterDatabase, AfterConnect, AfterEnv, AfterDeploy
  <2>3. Enrolled'
    BY <1>2, <1>9, <2>1 DEF IInv, Enrolled
  <2> QED
    BY <1>9, <2>2, <2>3 DEF UsableWhenLive
<1>13. KInv => KInv'
  BY <1>1, <1>2, KeysWait DEF IInv, TypeOK, WizardTypes
<1> QED
  BY <1>10, <1>11, <1>12, <1>13 DEF IInv

\* A token is pasted: a new run of provision begins.
LEMMA PasteTokenKeeps ==
  ASSUME IInv, NEW n \in Names, PasteToken(n)
  PROVE  IInv' /\ (KInv => KInv')
<1>1. wizard.phase = "awaitToken"
  BY Buttons DEF PasteToken, IInv
<1>2. UNCHANGED <<screen, device, registered, wrapping, keystore, neon, available, projects, deployed, server, faults, calm>>
  BY DEF PasteToken, effects, vercel
<1>3. wizard' \in WizardState /\ wizard'.phase = "provisioning" /\ wizard'.identity = wizard.identity /\ host' = host
  BY SettlesTo DEF PasteToken, IInv, Phases
<1>4. minted' = [minted EXCEPT !.run = @ + 1] /\ minted.run < MaxRuns /\ minted.run \in 0 .. MaxRuns
  BY DEF PasteToken, IInv, TypeOK, WizardTypes
<1>5. minted'.run \in Runs /\ minted' \in [identity : Nat, device : Nat, run : 0 .. MaxRuns, wrap : 0 .. MaxWraps]
  BY <1>4, OnboardingAssumption DEF Runs, IInv, TypeOK, WizardTypes
<1>6. provisioning' = [run |-> minted'.run, name |-> n, at |-> "verifyToken"]
  BY DEF PasteToken
<1>7. TypeOK'
  <2>1. WizardTypes'
    BY <1>2, <1>3, <1>5 DEF IInv, TypeOK, WizardTypes
  <2>2. EffectTypes'
    <3>1. provisioning' \in [run : Runs, name : Names, at : {Calls[i] : i \in DOMAIN Calls}]
      BY <1>5, <1>6, CallNames
    <3> QED
      BY <1>2, <3>1 DEF IInv, TypeOK, EffectTypes
  <2> QED
    BY <1>2, <2>1, <2>2, CloudFrame DEF IInv, TypeOK
<1>8. Staged' /\ Enrolled' /\ UsableWhenLive'
  BY <1>1, <1>2, <1>3, BuildingKeeps DEF Building
<1>9. Provisioned'
  BY <1>6 DEF Provisioned, AfterOpened, AfterDatabase, AfterConnect, AfterEnv, AfterDeploy
<1>10. KInv => KInv'
  BY <1>1, <1>2, KeysWait DEF IInv, TypeOK, WizardTypes, Building
<1> QED
  BY <1>7, <1>8, <1>9, <1>10 DEF IInv

\* A run of provision under way has its project, and the wizard waits for it.
LEMMA Underway ==
  ASSUME IInv, provisioning.at # "idle"
  PROVE  /\ provisioning.run \in Runs /\ provisioning.name \in Names
         /\ provisioning.at \in {Calls[i] : i \in DOMAIN Calls}
         /\ provisioning = [run |-> provisioning.run, name |-> provisioning.name, at |-> provisioning.at]
         /\ wizard.phase \in {"provisioning", "needsHuman"}
<1>1. provisioning # Idle
  BY DEF Idle
<1> QED
  BY <1>1 DEF IInv, TypeOK, EffectTypes, Staged

\* What a call leaves of Vercel keeps its types, and a call that sets nothing leaves it alone.
LEMMA EffectTyped ==
  ASSUME IInv, NEW call, call = provisioning.at, call # "idle", Effect(call)
  PROVE  /\ UNCHANGED <<neon, available>>
         /\ projects' \in [Names -> [exists : BOOLEAN, open : BOOLEAN, database : 0 .. MaxRuns, ready : BOOLEAN,
                                    env : 0 .. MaxRuns, identity : Nat]]
         /\ deployed' \in [Runs -> [live : BOOLEAN, name : Names \cup {NoOne}, database : 0 .. MaxRuns, ready : BOOLEAN,
                                   env : 0 .. MaxRuns, identity : Nat]]
<1> DEFINE Project == [exists : BOOLEAN, open : BOOLEAN, database : 0 .. MaxRuns, ready : BOOLEAN,
                       env : 0 .. MaxRuns, identity : Nat]
           p == CASE call = "ensureProject"     -> ensureProject(project)
                  [] call = "disableProtection" -> disableDeploymentProtection(project)
                  [] call = "connectDatabase"   -> connectDatabase(project)
                  [] call = "setEnv"            -> setEnv(project)
                  [] OTHER                      -> project
<1>1. provisioning.run \in Runs /\ provisioning.name \in Names /\ provisioning.run \in 0 .. MaxRuns
  BY Underway, OnboardingAssumption DEF Runs
<1>2. project \in Project /\ wizard.identity \in Nat
  BY <1>1 DEF IInv, TypeOK, CloudTypes, WizardTypes, WizardState, project
<1>3. p \in Project
  <2> HIDE DEF Project
  <2>1. ensureProject(project) \in Project /\ disableDeploymentProtection(project) \in Project
    BY <1>2 DEF Project, ensureProject, disableDeploymentProtection
  <2>2. setEnv(project) \in Project
    BY <1>1, <1>2 DEF Project, setEnv
  <2>3. CASE provisioning.run \in available
    <3>1. connectDatabase(project) = [project EXCEPT !.database = provisioning.run, !.ready = TRUE]
      BY <2>3 DEF connectDatabase
    <3>2. connectDatabase(project) \in Project
      BY <1>1, <1>2, <3>1 DEF Project
    <3> QED
      BY <1>2, <2>1, <2>2, <3>2
  <2>4. CASE provisioning.run \notin available
    <3>1. (provisioning.run \in available) = FALSE
      BY <2>4
    <3>2. connectDatabase(project) = [project EXCEPT !.database = provisioning.run, !.ready = FALSE]
      BY <3>1, Zenon DEF connectDatabase
    <3>3. connectDatabase(project) \in Project
      BY <1>1, <1>2, <3>2 DEF Project
    <3> QED
      BY <1>2, <2>1, <2>2, <3>3
  <2> QED
    BY <2>3, <2>4
<1>4. projects' = [projects EXCEPT ![provisioning.name] = p]
  BY DEF Effect, project
<1>5. CASE call = "deploy"
  <2>1. deployed' = [deployed EXCEPT ![provisioning.run] = deploy(project)]
    BY <1>5 DEF Effect
  <2>2. deploy(project) \in [live : BOOLEAN, name : Names \cup {NoOne}, database : 0 .. MaxRuns, ready : BOOLEAN,
                            env : 0 .. MaxRuns, identity : Nat]
    BY <1>1, <1>2 DEF deploy
  <2> HIDE DEF p
  <2> QED
    BY <1>1, <1>3, <1>4, <2>1, <2>2 DEF Effect, IInv, TypeOK, CloudTypes
<1>6. CASE call # "deploy"
  <2>1. deployed' = deployed
    BY <1>6 DEF Effect
  <2> HIDE DEF p
  <2> QED
    BY <1>1, <1>3, <1>4, <2>1 DEF Effect, IInv, TypeOK, CloudTypes
<1> QED
  BY <1>5, <1>6

\* What each call leaves of the project and of the run's deployment.
LEMMA EffectIs ==
  ASSUME IInv, NEW call, call = provisioning.at, call # "idle", Effect(call)
  PROVE  /\ project.open => projects'[provisioning.name].open
         /\ call = "disableProtection" => projects'[provisioning.name].open
         /\ call = "connectDatabase" =>
              /\ projects'[provisioning.name].database = provisioning.run
              /\ provisioning.run \in available => projects'[provisioning.name].ready
         /\ call # "connectDatabase" =>
              /\ projects'[provisioning.name].database = project.database
              /\ projects'[provisioning.name].ready = project.ready
         /\ call = "setEnv" =>
              /\ projects'[provisioning.name].env = provisioning.run
              /\ projects'[provisioning.name].identity = wizard.identity
         /\ call # "setEnv" =>
              /\ projects'[provisioning.name].env = project.env
              /\ projects'[provisioning.name].identity = project.identity
         /\ call = "deploy" =>
              /\ deployed'[provisioning.run].live /\ deployed'[provisioning.run].name = provisioning.name
              /\ deployed'[provisioning.run].database = project.database
              /\ deployed'[provisioning.run].ready = project.ready /\ deployed'[provisioning.run].env = project.env
              /\ deployed'[provisioning.run].identity = project.identity
         /\ call # "deploy" => deployed' = deployed
<1>1. provisioning.run \in Runs /\ provisioning.name \in Names
  BY Underway
<1>2. project \in [exists : BOOLEAN, open : BOOLEAN, database : 0 .. MaxRuns, ready : BOOLEAN, env : 0 .. MaxRuns, identity : Nat]
  BY <1>1 DEF IInv, TypeOK, CloudTypes, project
<1>3. projects'[provisioning.name] =
        CASE call = "ensureProject"     -> ensureProject(project)
          [] call = "disableProtection" -> disableDeploymentProtection(project)
          [] call = "connectDatabase"   -> connectDatabase(project)
          [] call = "setEnv"            -> setEnv(project)
          [] OTHER                      -> project
  BY <1>1 DEF Effect, project, IInv, TypeOK, CloudTypes
<1>4. call = "deploy" => deployed'[provisioning.run] = deploy(project)
  BY <1>1 DEF Effect, IInv, TypeOK, CloudTypes
<1>5. CASE call = "ensureProject"
  BY <1>2, <1>3, <1>5 DEF Effect, ensureProject
<1>6. CASE call = "disableProtection"
  <2>1. projects'[provisioning.name] = [project EXCEPT !.open = TRUE]
    BY <1>3, <1>6 DEF disableDeploymentProtection
  <2>2. /\ projects'[provisioning.name].open
        /\ projects'[provisioning.name].database = project.database /\ projects'[provisioning.name].ready = project.ready
        /\ projects'[provisioning.name].env = project.env /\ projects'[provisioning.name].identity = project.identity
    BY <1>2, <2>1
  <2>3. deployed' = deployed
    BY <1>6 DEF Effect
  <2> QED
    BY <1>6, <2>2, <2>3
<1>7. CASE call = "connectDatabase"
  <2>1. projects'[provisioning.name] = connectDatabase(project)
    BY <1>3, <1>7
  <2>2. /\ project.open => projects'[provisioning.name].open
        /\ projects'[provisioning.name].database = provisioning.run
        /\ projects'[provisioning.name].env = project.env /\ projects'[provisioning.name].identity = project.identity
    BY <1>2, <2>1 DEF connectDatabase
  <2>3. provisioning.run \in available => projects'[provisioning.name].ready
    BY <1>2, <2>1 DEF connectDatabase
  <2>4. deployed' = deployed
    BY <1>7 DEF Effect
  <2>5. call # "disableProtection" /\ call # "setEnv" /\ call # "deploy"
    BY <1>7
  <2>6. call = "connectDatabase" =>
          projects'[provisioning.name].database = provisioning.run /\ (provisioning.run \in available => projects'[provisioning.name].ready)
    BY <2>2, <2>3
  <2>7. call # "connectDatabase" =>
          projects'[provisioning.name].database = project.database /\ projects'[provisioning.name].ready = project.ready
    BY <1>7
  <2>8. /\ call = "disableProtection" => projects'[provisioning.name].open
        /\ call = "setEnv" => projects'[provisioning.name].env = provisioning.run /\ projects'[provisioning.name].identity = wizard.identity
        /\ call = "deploy" =>
             /\ deployed'[provisioning.run].live /\ deployed'[provisioning.run].name = provisioning.name
             /\ deployed'[provisioning.run].database = project.database
             /\ deployed'[provisioning.run].ready = project.ready /\ deployed'[provisioning.run].env = project.env
             /\ deployed'[provisioning.run].identity = project.identity
    BY <2>5
  <2>9. call # "setEnv" => /\ projects'[provisioning.name].env = project.env
                           /\ projects'[provisioning.name].identity = project.identity
    BY <2>2
  <2>10. call # "deploy" => deployed' = deployed
    BY <2>4
  <2> QED
    BY <2>2, <2>6, <2>7, <2>8, <2>9, <2>10, Zenon
<1>8. CASE call = "setEnv"
  <2>1. projects'[provisioning.name] = [project EXCEPT !.env = provisioning.run, !.identity = wizard.identity]
    BY <1>3, <1>8 DEF setEnv
  <2>2. /\ projects'[provisioning.name].open = project.open
        /\ projects'[provisioning.name].database = project.database /\ projects'[provisioning.name].ready = project.ready
        /\ projects'[provisioning.name].env = provisioning.run
        /\ projects'[provisioning.name].identity = wizard.identity
    BY <1>2, <2>1
  <2>3. deployed' = deployed
    BY <1>8 DEF Effect
  <2> QED
    BY <1>8, <2>2, <2>3
<1>9. CASE call = "deploy"
  BY <1>2, <1>3, <1>4, <1>9 DEF deploy
<1>10. CASE call \notin {"ensureProject", "disableProtection", "connectDatabase", "setEnv", "deploy"}
  BY <1>2, <1>3, <1>10 DEF Effect
<1> QED
  BY <1>5, <1>6, <1>7, <1>8, <1>9, <1>10

\* A call that is answered takes the run one call further.
LEMMA CallAnsweredKeeps ==
  ASSUME IInv, CallAnswered
  PROVE  IInv' /\ (KInv => KInv')
<1>1. PICK call : call = provisioning.at
  OBVIOUS
<1>2. call \notin {"idle", "verifyLive"} /\ Answers(call) /\ Effect(call)
  BY <1>1 DEF CallAnswered
<1>3. PICK next : /\ next = (IF call = "findNeon" /\ neon THEN After("awaitNeon") ELSE After(call))
                  /\ provisioning' = [provisioning EXCEPT !.at = next]
                  /\ Settle(To(IF next = "awaitNeon" THEN "needsHuman" ELSE "provisioning"), host)
  BY <1>1 DEF CallAnswered
<1>4. UNCHANGED <<screen, device, registered, wrapping, keystore, server, minted, faults, calm>>
  BY DEF CallAnswered, effects
<1>5. /\ provisioning.run \in Runs /\ provisioning.name \in Names
      /\ provisioning = [run |-> provisioning.run, name |-> provisioning.name, at |-> call]
      /\ call \in {Calls[i] : i \in DOMAIN Calls} /\ wizard.phase \in {"provisioning", "needsHuman"}
  BY <1>1, <1>2, Underway
<1>6. provisioning' = [run |-> provisioning.run, name |-> provisioning.name, at |-> next]
  BY <1>3, <1>5
<1>7. /\ next \in {Calls[i] : i \in DOMAIN Calls}
      /\ next \in AfterOpened <=> call \in AfterOpened \cup {"disableProtection"}
      /\ next \in AfterDatabase <=> call \in AfterDatabase \cup {"awaitDatabase"}
      /\ next \in AfterConnect <=> call \in AfterConnect \cup {"connectDatabase"}
      /\ next \in AfterEnv <=> call \in AfterEnv \cup {"setEnv"}
      /\ next \in AfterDeploy <=> call \in AfterDeploy \cup {"deploy"}
  BY <1>2, <1>3, <1>5, CallNames, CallsInOrder
  DEF AfterOpened, AfterDatabase, AfterConnect, AfterEnv, AfterDeploy
<1>8. /\ wizard' \in WizardState /\ wizard'.phase \in {"provisioning", "needsHuman"}
      /\ wizard'.identity = wizard.identity /\ host' = host
  <2>1. PICK phase \in {"provisioning", "needsHuman"} : Settle(To(phase), host)
    BY <1>3
  <2> QED
    BY <2>1, SettlesTo DEF IInv, Phases
<1>9. TypeOK'
  <2>1. WizardTypes'
    BY <1>4, <1>8 DEF IInv, TypeOK, WizardTypes
  <2>2. EffectTypes'
    <3>1. provisioning' \in [run : Runs, name : Names, at : {Calls[i] : i \in DOMAIN Calls}]
      BY <1>5, <1>6, <1>7
    <3> QED
      BY <1>4, <3>1 DEF IInv, TypeOK, EffectTypes
  <2>3. CloudTypes'
    BY <1>1, <1>2, <1>4, EffectTyped DEF IInv, TypeOK, CloudTypes
  <2> QED
    BY <2>1, <2>2, <2>3 DEF TypeOK
<1>10. Staged' /\ Enrolled' /\ UsableWhenLive'
  BY <1>4, <1>5, <1>8, BuildingKeeps DEF Building
<1>11. Provisioned'
  <2>1. UNCHANGED available
    BY <1>2 DEF Effect
  <2>2. provisioning'.run = provisioning.run /\ provisioning'.name = provisioning.name /\ provisioning'.at = next
    BY <1>6
  <2>3. project' = projects'[provisioning.name]
    BY <2>2 DEF project
  <2>4. next \in AfterOpened => project'.open
    BY <1>1, <1>2, <1>7, <2>3, EffectIs DEF IInv, Provisioned
  <2>5. next \in AfterDatabase => provisioning.run \in available
    BY <1>1, <1>2, <1>7 DEF IInv, Provisioned, Answers, awaitDatabaseReady
  <2>6. next \in AfterConnect => project'.database = provisioning.run /\ project'.ready
    <3>1. CASE call = "connectDatabase"
      BY <1>1, <1>2, <2>3, <3>1, EffectIs DEF IInv, Provisioned, AfterDatabase
    <3>2. CASE call # "connectDatabase"
      BY <1>1, <1>2, <1>7, <2>3, <3>2, EffectIs DEF IInv, Provisioned
    <3> QED
      BY <3>1, <3>2
  <2>7. next \in AfterEnv => project'.env = provisioning.run /\ project'.identity = wizard'.identity
    <3>1. CASE call = "setEnv"
      BY <1>1, <1>2, <1>8, <2>3, <3>1, EffectIs
    <3>2. CASE call # "setEnv"
      BY <1>1, <1>2, <1>7, <1>8, <2>3, <3>2, EffectIs DEF IInv, Provisioned
    <3> QED
      BY <3>1, <3>2
  <2>8. ASSUME next \in AfterDeploy
        PROVE  LET d == deployed'[provisioning.run]
               IN  /\ d.live /\ d.ready /\ d.database = provisioning.run /\ d.name = provisioning.name
                   /\ d.env = provisioning.run /\ d.identity = wizard'.identity
    <3>1. CASE call = "deploy"
      <4>1. call \in AfterConnect /\ call \in AfterEnv
        BY <3>1 DEF AfterConnect, AfterEnv
      <4>2. /\ project.database = provisioning.run /\ project.ready
            /\ project.env = provisioning.run /\ project.identity = wizard.identity
        BY <1>1, <4>1 DEF IInv, Provisioned
      <4> QED
        BY <1>1, <1>2, <1>8, <3>1, <4>2, EffectIs
    <3>2. CASE call # "deploy"
      BY <1>1, <1>2, <1>7, <1>8, <2>8, <3>2, EffectIs DEF IInv, Provisioned
    <3> QED
      BY <3>1, <3>2
  <2> QED
    BY <2>1, <2>2, <2>4, <2>5, <2>6, <2>7, <2>8 DEF Provisioned
<1>12. KInv => KInv'
  BY <1>4, <1>5, KeysWait DEF IInv, TypeOK, WizardTypes, Building
<1> QED
  BY <1>9, <1>10, <1>11, <1>12 DEF IInv

\* The last call found the server open to the world: the wizard goes on with it.
LEMMA ProvisionSucceedsKeeps ==
  ASSUME IInv, ProvisionSucceeds
  PROVE  IInv' /\ (KInv => KInv')
<1>1. /\ provisioning.run \in Runs /\ provisioning.name \in Names /\ wizard.phase \in {"provisioning", "needsHuman"}
      /\ provisioning.at = "verifyLive" /\ provisioning' = Idle
  BY Underway DEF ProvisionSucceeds
<1>2. UNCHANGED <<screen, device, registered, wrapping, keystore, neon, available, projects, deployed, server, minted, faults, calm>>
  BY DEF ProvisionSucceeds, effects, vercel
<1>3. /\ host.identity # Absent /\ wizard.identity = host.identity /\ host.sheet = 0 /\ ~registered /\ wrapping.at = "idle"
      /\ host.flights = {}
  <2>1. "probe" \notin host.flights /\ "identity" \notin host.flights
    BY <1>1 DEF IInv, Staged
  <2>2. host.flights \subseteq {"probe", "identity"}
    BY DEF IInv, TypeOK, WizardTypes, HostState
  <2> QED
    BY <1>1, <2>1, <2>2 DEF IInv, Staged, Building, Locking, Ending
<1>4. PICK w, h : w = To("entry") /\ h = [host EXCEPT !.cloud = provisioning.run] /\ Settle(w, h)
  BY DEF ProvisionSucceeds
<1>5. w \in WizardState /\ w.phase = "entry"
  BY <1>4, Sends DEF IInv, Phases
<1>6. /\ h \in HostState /\ h.cloud = provisioning.run /\ h.identity = host.identity /\ h.sheet = host.sheet
      /\ h.flights = host.flights
  BY <1>1, <1>4 DEF IInv, TypeOK, WizardTypes, HostState, Runs
<1>7. /\ wizard' = w /\ host' \in HostState /\ host'.flights = {}
      /\ host'.identity = host.identity /\ host'.cloud = provisioning.run /\ host'.sheet = 0
  BY <1>3, <1>4, <1>5, <1>6, Settles
<1>8. TypeOK'
  <2>1. WizardTypes'
    BY <1>2, <1>5, <1>7 DEF IInv, TypeOK, WizardTypes
  <2>2. EffectTypes'
    BY <1>1, <1>2 DEF IInv, TypeOK, EffectTypes
  <2> QED
    BY <1>2, <2>1, <2>2, CloudFrame DEF IInv, TypeOK
<1>9. provisioning.run # 0
  BY <1>1 DEF Runs
<1>10. Staged'
  BY <1>1, <1>2, <1>3, <1>5, <1>7, <1>9 DEF Staged, Idle, Finding, Building, Locking, Ending
<1>11. Provisioned'
  BY <1>1 DEF Provisioned, Idle, AfterOpened, AfterDatabase, AfterConnect, AfterEnv, AfterDeploy
<1>12. Enrolled'
  BY <1>2, <1>3 DEF Enrolled
<1>13. UsableWhenLive'
  <2>1. /\ project.open
        /\ deployed[provisioning.run].live /\ deployed[provisioning.run].ready
        /\ deployed[provisioning.run].database = provisioning.run /\ deployed[provisioning.run].name = provisioning.name
        /\ deployed[provisioning.run].env = provisioning.run /\ deployed[provisioning.run].identity = wizard.identity
    BY <1>1 DEF IInv, Provisioned, AfterOpened, AfterDatabase, AfterConnect, AfterEnv, AfterDeploy
  <2> QED
    BY <1>2, <1>3, <1>7, <2>1 DEF UsableWhenLive, project
<1>14. KInv => KInv'
  BY <1>1, <1>2, KeysWait DEF IInv, TypeOK, WizardTypes, Building
<1> QED
  BY <1>8, <1>10, <1>11, <1>12, <1>13, <1>14 DEF IInv

\* A run of provision that fails may have had its effect; the next one begins anew.
LEMMA ProvisionFailsKeeps ==
  ASSUME IInv, ProvisionFails
  PROVE  IInv' /\ (KInv => KInv')
<1>1. /\ provisioning.run \in Runs /\ provisioning.name \in Names /\ wizard.phase \in {"provisioning", "needsHuman"}
      /\ provisioning.at # "idle" /\ provisioning' = Idle
  BY Underway DEF ProvisionFails
<1>2. UNCHANGED <<screen, device, registered, wrapping, keystore, server, minted, calm>>
  BY DEF ProvisionFails, effects
<1>3. faults' \in [Faults -> Nat] /\ faults'["torn"] = faults["torn"] /\ faults'["reset"] = faults["reset"]
  BY Spent DEF ProvisionFails, OpensAPage, Faults, IInv
<1>4. UNCHANGED vercel \/ Effect(provisioning.at)
  BY DEF ProvisionFails
<1>5. CloudTypes'
  <2>1. CASE UNCHANGED vercel
    BY <1>2, <2>1, CloudFrame DEF IInv, TypeOK, vercel
  <2>2. CASE Effect(provisioning.at)
    <3>1. PICK call : call = provisioning.at
      OBVIOUS
    <3> QED
      BY <1>1, <1>2, <2>2, <3>1, EffectTyped DEF IInv, TypeOK, CloudTypes
  <2> QED
    BY <1>4, <2>1, <2>2
<1>6. wizard' \in WizardState /\ wizard'.phase = "cloudProblem" /\ wizard'.identity = wizard.identity /\ host' = host
  <2>1. CASE Settle(To("cloudProblem"), host)
    BY <2>1, SettlesTo DEF IInv, Phases
  <2>2. CASE Settle([To("cloudProblem") EXCEPT !.opens = TRUE], host)
    <3>1. PICK w : w = [To("cloudProblem") EXCEPT !.opens = TRUE] /\ Settle(w, host)
      BY <2>2
    <3>2. w \in WizardState /\ w.phase = "cloudProblem" /\ w.identity = wizard.identity
      BY <3>1, Sends DEF IInv, WizardState, Phases
    <3>3. wizard' = w /\ host' = kick(w, host)
      BY <3>1, <3>2 DEF Settle
    <3>4. kick(w, host) = [host EXCEPT !.flights = @ \cup {}]
      BY <3>2 DEF kick
    <3>5. kick(w, host) = host
      BY <3>4 DEF IInv, TypeOK, WizardTypes, HostState
    <3> QED
      BY <3>2, <3>3, <3>5
  <2> QED
    BY <2>1, <2>2 DEF ProvisionFails
<1>7. TypeOK'
  <2>1. WizardTypes'
    BY <1>2, <1>3, <1>6 DEF IInv, TypeOK, WizardTypes
  <2>2. EffectTypes'
    BY <1>1, <1>2 DEF IInv, TypeOK, EffectTypes
  <2> QED
    BY <1>5, <2>1, <2>2 DEF TypeOK
<1>8. Staged' /\ Enrolled' /\ UsableWhenLive'
  BY <1>1, <1>2, <1>6, BuildingKeeps DEF Building, Idle
<1>9. Provisioned'
  BY <1>1 DEF Provisioned, Idle, AfterOpened, AfterDatabase, AfterConnect, AfterEnv, AfterDeploy
<1>10. KInv => KInv'
  BY <1>1, <1>2, <1>3, KeysWait DEF IInv, Building
<1> QED
  BY <1>7, <1>8, <1>9, <1>10 DEF IInv

\* Neon is installed, a database starts.
LEMMA VercelKeeps ==
  ASSUME IInv, NeonInstalled \/ DatabaseStarts
  PROVE  IInv' /\ (KInv => KInv')
<1>1. /\ provisioning.run \in Runs /\ wizard.phase \in {"provisioning", "needsHuman"} /\ provisioning.at # "idle"
  BY Underway DEF NeonInstalled, DatabaseStarts
<1>2. UNCHANGED <<screen, wizard, host, device, registered, provisioning, wrapping, keystore, projects, deployed, server,
                  minted, faults, calm>>
  BY DEF NeonInstalled, DatabaseStarts, effects
<1>3. neon' \in BOOLEAN /\ available \subseteq available' /\ available' \subseteq Runs
  BY <1>1 DEF NeonInstalled, DatabaseStarts, IInv, TypeOK, CloudTypes
<1>4. TypeOK'
  <2>1. WizardTypes'
    BY <1>2 DEF IInv, TypeOK, WizardTypes
  <2>2. CloudTypes'
    BY <1>2, <1>3 DEF IInv, TypeOK, CloudTypes
  <2> QED
    BY <1>2, <2>1, <2>2, EffectFrame DEF IInv, TypeOK
<1>5. Staged' /\ Enrolled' /\ UsableWhenLive'
  <2>1. provisioning.at # "idle" => wizard.phase \in {"provisioning", "needsHuman"}
    BY <1>1
  <2> QED
    BY <1>1, <1>2, <2>1, BuildingKeeps DEF Building
<1>6. Provisioned'
  <2>1. project' = project
    BY <1>2 DEF project
  <2> QED
    BY <1>2, <1>3, <2>1 DEF IInv, Provisioned
<1>7. KInv => KInv'
  BY <1>1, <1>2, KeysWait DEF IInv, TypeOK, WizardTypes, Building
<1> QED
  BY <1>4, <1>5, <1>6, <1>7 DEF IInv

-----------------------------------------------------------------------------
(* Screen 3: the passphrase and the enrolment                              *)

\* A step of completeSetup leaves the wizard waiting for the next, or in front of a problem.
Proceeds(at) ==
  /\ wrapping' = [wrapping EXCEPT !.at = at] /\ UNCHANGED <<wizard, host>>
  /\ at \in {"wrapIdentity", "registerDevice", "putWrappedKeys", "persist"}
Steps == WrapFails \/ \E at \in {"registerDevice", "putWrappedKeys", "persist"} : Proceeds(at)

\* What the host holds is what it held, and the wizard is still locking.
LEMMA StepsKeep ==
  ASSUME IInv, wrapping.at # "idle", Steps, registered' \in BOOLEAN, faults' \in [Faults -> Nat],
         UNCHANGED <<screen, device, provisioning, neon, available, projects, deployed, minted, calm>>
  PROVE  /\ WizardTypes' /\ Staged' /\ Provisioned' /\ UsableWhenLive'
         /\ wizard.phase = "wrapping" /\ wizard'.phase \in Locking /\ host' = host
         /\ here \in Runs /\ here # 0 /\ host.identity # Absent /\ device # Absent
         /\ wrapping.wrap \in 1 .. MaxWraps /\ blob \in Blob /\ blob # NoBlob
         /\ wrapping' \in [wrap : 0 .. MaxWraps, at : {"idle", "wrapIdentity", "registerDevice", "putWrappedKeys", "persist"}]
<1>1. /\ wizard.phase = "wrapping" /\ wrapping.wrap # 0 /\ device # Absent /\ provisioning.at = "idle"
      /\ host.identity # Absent /\ host.cloud # 0 /\ host.sheet = 0
  BY DEF IInv, Staged, Locking
<1>2. /\ host \in HostState /\ wizard \in WizardState
      /\ wrapping \in [wrap : 0 .. MaxWraps, at : {"idle", "wrapIdentity", "registerDevice", "putWrappedKeys", "persist"}]
  BY DEF IInv, TypeOK, WizardTypes, EffectTypes
<1>3. wrapping.wrap \in 1 .. MaxWraps /\ here \in Runs
  BY <1>1, <1>2, OnboardingAssumption DEF HostState, here, Runs
<1>4. blob \in Blob /\ blob # NoBlob
  <2>1. blob = [wrap |-> wrapping.wrap, identity |-> host.identity] /\ wrapping.wrap \in 0 .. MaxWraps /\ host.identity \in Nat
    BY <1>2 DEF blob, HostState
  <2>2. blob.wrap # NoBlob.wrap
    BY <1>1, <2>1 DEF NoBlob
  <2> QED
    BY <2>1, <2>2 DEF Blob
<1>5. /\ wizard' \in WizardState /\ wizard'.phase \in {"wrapping", "passProblem"} /\ wizard'.identity = wizard.identity
      /\ host' = host
      /\ (wizard'.phase = "wrapping" /\ wrapping'.wrap = wrapping.wrap) \/ wrapping'.at = "idle"
      /\ wrapping' \in [wrap : 0 .. MaxWraps, at : {"idle", "wrapIdentity", "registerDevice", "putWrappedKeys", "persist"}]
  <2>1. CASE WrapFails
    <3>1. wrapping' = NotWrapping /\ Settle(To("passProblem"), host)
      BY <2>1 DEF WrapFails
    <3>2. wizard' \in WizardState /\ wizard'.phase = "passProblem" /\ wizard'.identity = wizard.identity /\ host' = host
      BY <3>1, SettlesTo DEF IInv, Phases
    <3> QED
      BY <3>1, <3>2, OnboardingAssumption DEF NotWrapping
  <2>2. ASSUME NEW at \in {"registerDevice", "putWrappedKeys", "persist"}, Proceeds(at)
        PROVE  /\ wizard' \in WizardState /\ wizard'.phase = "wrapping" /\ wizard'.identity = wizard.identity /\ host' = host
               /\ wrapping'.wrap = wrapping.wrap
               /\ wrapping' \in [wrap : 0 .. MaxWraps,
                                 at : {"idle", "wrapIdentity", "registerDevice", "putWrappedKeys", "persist"}]
    BY <1>1, <1>2, <2>2 DEF Proceeds
  <2> QED
    BY <2>1, <2>2 DEF Steps
<1>6. WizardTypes'
  BY <1>2, <1>5 DEF IInv, TypeOK, WizardTypes
<1>7. Staged'
  <2>1. "probe" \notin host.flights /\ "identity" \notin host.flights
    BY <1>1 DEF IInv, Staged
  <2> QED
    BY <1>1, <1>5, <2>1 DEF Staged, Finding, Building, Locking, Ending
<1>8. Provisioned'
  BY <1>1 DEF Provisioned, AfterOpened, AfterDatabase, AfterConnect, AfterEnv, AfterDeploy
<1>9. UsableWhenLive'
  BY <1>5 DEF IInv, UsableWhenLive
<1>10. here # 0 /\ wizard'.phase \in Locking
  BY <1>1, <1>5 DEF here, Locking
<1> QED
  BY <1>1, <1>3, <1>4, <1>5, <1>6, <1>7, <1>8, <1>9, <1>10

\* The keystore is not written before the last step, and what it names stays served.
LEMMA KeysWhileLocking ==
  ASSUME KInv, wizard.phase \in Locking, wizard'.phase \in Locking, host' = host, TypeOK,
         UNCHANGED keystore, device # Absent => device' = device, Served => Served',
         faults' \in [Faults -> Nat], faults'["torn"] = faults["torn"], faults'["reset"] = faults["reset"]
  PROVE  KInv'
<1>1. TornMet'
  BY DEF KInv, TornMet
<1>2. faults["torn"] \in Nat /\ faults'["torn"] \in Nat /\ faults'["torn"] <= faults["torn"]
  BY DEF TypeOK, WizardTypes, Faults
<1>3. CASE Blank \/ Wrecked
  BY <1>1, <1>2, <1>3, KeystoreStays DEF KInv, KeysKept
<1>4. CASE Begun
  <2>1. Begun'
    BY <1>4, KeystoreFrame DEF Begun, here
  <2> QED
    BY <1>1, <2>1 DEF KInv, KeysKept
<1>5. ~Settled
  BY DEF Settled, Locking, Ending
<1> QED
  BY <1>3, <1>4, <1>5 DEF KInv, KeysKept

\* A passphrase is accepted; the device, once minted, is the device of every later attempt.
LEMMA AcceptPassphraseKeeps ==
  ASSUME IInv, AcceptPassphrase
  PROVE  IInv' /\ (KInv => KInv')
<1>1. wizard.phase = "entry"
  BY Buttons DEF AcceptPassphrase, IInv
<1>2. UNCHANGED <<screen, registered, provisioning, keystore, neon, available, projects, deployed, server, faults, calm>>
  BY DEF AcceptPassphrase, vercel
<1>3. wizard' \in WizardState /\ wizard'.phase = "wrapping" /\ wizard'.identity = wizard.identity /\ host' = host
  BY SettlesTo DEF AcceptPassphrase, IInv, Phases
<1>4. /\ minted \in [identity : Nat, device : Nat, run : 0 .. MaxRuns, wrap : 0 .. MaxWraps] /\ minted.wrap < MaxWraps
      /\ device \in Nat
  BY DEF AcceptPassphrase, IInv, TypeOK, WizardTypes, EffectTypes
<1>5. device' \in Nat /\ device' # Absent /\ (device # Absent => device' = device)
  BY <1>4 DEF AcceptPassphrase, Absent
<1>6. /\ minted' \in [identity : Nat, device : Nat, run : 0 .. MaxRuns, wrap : 0 .. MaxWraps]
      /\ minted'.wrap \in 0 .. MaxWraps /\ minted'.wrap # 0
  <2>1. PICK d : d = (IF device' > minted.device THEN device' ELSE minted.device)
    OBVIOUS
  <2>2. d \in Nat
    BY <1>4, <1>5, <2>1
  <2>3. minted' = [minted EXCEPT !.wrap = @ + 1, !.device = d]
    BY <2>1 DEF AcceptPassphrase
  <2>4. minted.wrap + 1 \in 0 .. MaxWraps /\ minted.wrap + 1 # 0
    BY <1>4, OnboardingAssumption
  <2> QED
    BY <1>4, <2>2, <2>3, <2>4
<1>7. wrapping' = [wrap |-> minted'.wrap, at |-> "wrapIdentity"]
  BY DEF AcceptPassphrase
<1>8. TypeOK'
  <2>1. WizardTypes'
    BY <1>2, <1>3, <1>6 DEF IInv, TypeOK, WizardTypes
  <2>2. EffectTypes'
    BY <1>2, <1>5, <1>6, <1>7 DEF IInv, TypeOK, EffectTypes
  <2> QED
    BY <1>2, <2>1, <2>2, CloudFrame DEF IInv, TypeOK
<1>9. /\ provisioning.at = "idle" /\ "probe" \notin host.flights /\ "identity" \notin host.flights
      /\ host.identity # Absent /\ host.cloud # 0 /\ host.sheet = 0
  BY <1>1 DEF IInv, Staged, Locking
<1>10. Staged'
  BY <1>2, <1>3, <1>5, <1>6, <1>7, <1>9 DEF Staged, Finding, Building, Locking, Ending
<1>11. Provisioned'
  BY <1>2, <1>9 DEF Provisioned, AfterOpened, AfterDatabase, AfterConnect, AfterEnv, AfterDeploy
<1>12. Enrolled'
  BY <1>2, <1>3, <1>5, <1>7 DEF IInv, Enrolled, here
<1>13. UsableWhenLive'
  BY <1>2, <1>3 DEF IInv, UsableWhenLive
<1>14. KInv => KInv'
  BY <1>1, <1>2, <1>3, <1>5, ServedFrame, KeysWhileLocking DEF IInv, TypeOK, WizardTypes, Locking
<1> QED
  BY <1>8, <1>10, <1>11, <1>12, <1>13, <1>14 DEF IInv

\* The identity is wrapped, or is not.
LEMMA WrapIdentityKeeps ==
  ASSUME IInv, WrapIdentity
  PROVE  IInv' /\ (KInv => KInv')
<1>1. wrapping.at = "wrapIdentity"
  BY DEF WrapIdentity, Step
<1>2. UNCHANGED <<screen, device, registered, provisioning, keystore, neon, available, projects, deployed, server, minted, calm>>
  BY DEF WrapIdentity, effects, vercel
<1>3. faults' \in [Faults -> Nat] /\ faults'["torn"] = faults["torn"] /\ faults'["reset"] = faults["reset"]
  BY Spent DEF WrapIdentity, Faults, IInv, TypeOK, WizardTypes
<1>4. \/ WrapFails
      \/ Proceeds(IF registered THEN "putWrappedKeys" ELSE "registerDevice")
  BY <1>1 DEF WrapIdentity, Proceed, Follows, Proceeds
<1>5. Steps
  BY <1>4 DEF Steps
<1>6. registered' \in BOOLEAN
  BY <1>2 DEF IInv, TypeOK, EffectTypes
<1>7. /\ WizardTypes' /\ Staged' /\ Provisioned' /\ UsableWhenLive' /\ wizard'.phase \in Locking /\ host' = host
      /\ wizard.phase = "wrapping"
      /\ wrapping' \in [wrap : 0 .. MaxWraps, at : {"idle", "wrapIdentity", "registerDevice", "putWrappedKeys", "persist"}]
  BY <1>1, <1>2, <1>3, <1>5, <1>6, StepsKeep
<1>8. TypeOK'
  <2>1. EffectTypes'
    BY <1>2, <1>7 DEF IInv, TypeOK, EffectTypes
  <2> QED
    BY <1>2, <1>7, <2>1, CloudFrame DEF IInv, TypeOK
<1>9. Enrolled'
  <2>1. /\ wrapping'.at = "registerDevice" => ~registered
        /\ wrapping'.at \in {"putWrappedKeys", "persist"} => registered
        /\ wrapping'.at # "persist"
    <3>1. CASE WrapFails
      BY <3>1 DEF WrapFails, NotWrapping
    <3>2. CASE Proceeds(IF registered THEN "putWrappedKeys" ELSE "registerDevice")
      <4>1. wrapping'.at = IF registered THEN "putWrappedKeys" ELSE "registerDevice"
        BY <3>2 DEF Proceeds, IInv, TypeOK, EffectTypes
      <4> QED
        BY <4>1
    <3> QED
      BY <1>4, <3>1, <3>2
  <2> QED
    BY <1>2, <1>7, <2>1 DEF IInv, Enrolled, here
<1>10. KInv => KInv'
  BY <1>2, <1>3, <1>7, ServedFrame, KeysWhileLocking DEF IInv, Locking
<1> QED
  BY <1>7, <1>8, <1>9, <1>10 DEF IInv

\* The device knocks at the server: only a success that is answered counts as an enrolment.
LEMMA RegisterDeviceKeeps ==
  ASSUME IInv, RegisterDevice
  PROVE  IInv' /\ (KInv => KInv')
<1>1. wrapping.at = "registerDevice" /\ ~registered
  BY DEF RegisterDevice, Step, IInv, Enrolled
<1>2. UNCHANGED <<screen, device, provisioning, keystore, neon, available, projects, deployed, minted, calm>>
  BY DEF RegisterDevice, vercel
<1>3. faults' \in [Faults -> Nat] /\ faults'["torn"] = faults["torn"] /\ faults'["reset"] = faults["reset"]
  BY Spent DEF RegisterDevice, Faults, IInv, TypeOK, WizardTypes
<1>4. \/ registered' = TRUE /\ Proceeds("putWrappedKeys") /\ Enrols /\ server' = [server EXCEPT ![here].device = device]
      \/ /\ WrapFails /\ registered' = registered
         /\ \/ Enrols /\ server' = [server EXCEPT ![here].device = device]
            \/ server' = server
  BY <1>1 DEF RegisterDevice, Proceed, Follows, Proceeds
<1>5. Steps /\ registered' \in BOOLEAN
  BY <1>4 DEF Steps, IInv, TypeOK, EffectTypes
<1>6. /\ WizardTypes' /\ Staged' /\ Provisioned' /\ UsableWhenLive' /\ wizard'.phase \in Locking /\ host' = host
      /\ wizard.phase = "wrapping" /\ here \in Runs /\ device # Absent
      /\ wrapping' \in [wrap : 0 .. MaxWraps, at : {"idle", "wrapIdentity", "registerDevice", "putWrappedKeys", "persist"}]
  BY <1>1, <1>2, <1>3, <1>5, StepsKeep
<1>7. here' = here /\ device \in Nat
  BY <1>6 DEF here, IInv, TypeOK, EffectTypes
<1>8. /\ server' \in [Runs -> [device : Nat, pass : Blob, recovery : Blob, credential : 0 .. MaxWraps]]
      /\ \A r \in Runs \ {here} : server'[r] = server[r]
      /\ server' # server => server[here].device = Absent /\ server'[here].device = device
  <2>1. CASE server' = server
    BY <2>1 DEF IInv, TypeOK, CloudTypes
  <2>2. CASE Enrols /\ server' = [server EXCEPT ![here].device = device]
    BY <1>6, <1>7, <2>2 DEF Enrols, IInv, TypeOK, CloudTypes
  <2> QED
    BY <1>4, <2>1, <2>2
<1>9. TypeOK'
  <2>1. EffectTypes'
    BY <1>2, <1>5, <1>6 DEF IInv, TypeOK, EffectTypes
  <2>2. CloudTypes'
    BY <1>2, <1>8 DEF IInv, TypeOK, CloudTypes
  <2> QED
    BY <1>6, <2>1, <2>2 DEF TypeOK
<1>10. Enrolled'
  <2>1. CASE registered' = TRUE /\ Proceeds("putWrappedKeys")
    <3>1. wrapping'.at = "putWrappedKeys"
      BY <2>1 DEF Proceeds, IInv, TypeOK, EffectTypes
    <3>2. server'[here].device = device
      BY <1>1, <1>4, <1>6, <1>7, <2>1 DEF IInv, TypeOK, CloudTypes
    <3> QED
      BY <1>2, <1>6, <1>7, <2>1, <3>1, <3>2 DEF Enrolled
  <2>2. CASE WrapFails /\ registered' = registered
    BY <1>1, <2>2 DEF Enrolled, WrapFails, NotWrapping
  <2> QED
    BY <1>4, <2>1, <2>2
<1>11. ASSUME Served PROVE Served'
  <2> SUFFICES ASSUME currentCycle'
               PROVE  LET r == keystore'["server.url"]
                      IN  /\ r \in Runs /\ server'[r].device = keystore'["device.sk"]
                          /\ keystore'["device.id"] = keystore'["device.sk"]
                          /\ deployed'[r].env = keystore'["tenant.id"] /\ deployed'[r].identity = keystore'["identity.pk"]
                          /\ server'[r].pass # NoBlob /\ server'[r].recovery # NoBlob /\ server'[r].credential # Absent
    BY DEF Served
  <2>1. currentCycle
    BY <1>2, KeystoreFrame
  <2>2. keystore["device.sk"] # Absent
    BY <2>1 DEF currentCycle
  <2>3. keystore["server.url"] \in Runs /\ server[keystore["server.url"]].device = keystore["device.sk"]
    BY <1>11, <2>1 DEF Served
  <2>4. server'[keystore["server.url"]] = server[keystore["server.url"]]
    BY <1>8, <2>2, <2>3
  <2> QED
    BY <1>2, <1>11, <2>1, <2>4 DEF Served
<1>12. KInv => KInv'
  BY <1>2, <1>3, <1>6, <1>11, KeysWhileLocking DEF IInv, Locking
<1> QED
  BY <1>6, <1>9, <1>10, <1>12 DEF IInv

\* The wrapped keys are put, some of them, or none.
LEMMA PutWrappedKeysKeeps ==
  ASSUME IInv, PutWrappedKeys
  PROVE  IInv' /\ (KInv => KInv')
<1>1. wrapping.at = "putWrappedKeys" /\ registered
  BY DEF PutWrappedKeys, Step, IInv, Enrolled
<1>2. UNCHANGED <<screen, device, registered, provisioning, keystore, neon, available, projects, deployed, minted, calm>>
  BY DEF PutWrappedKeys, vercel, effects
<1>3. faults' \in [Faults -> Nat] /\ faults'["torn"] = faults["torn"] /\ faults'["reset"] = faults["reset"]
  BY Spent DEF PutWrappedKeys, Faults, IInv, TypeOK, WizardTypes
<1>4. \/ Proceeds("persist") /\ server' = [server EXCEPT ![here] = Stored(@, 3)]
      \/ WrapFails /\ \E k \in 1 .. 3 : server' = [server EXCEPT ![here] = Stored(@, k)]
      \/ WrapFails /\ server' = server
  BY <1>1 DEF PutWrappedKeys, Proceed, Follows, Proceeds
<1>5. Steps /\ registered' \in BOOLEAN
  BY <1>2, <1>4 DEF Steps, IInv, TypeOK, EffectTypes
<1>6. /\ WizardTypes' /\ Staged' /\ Provisioned' /\ UsableWhenLive' /\ wizard'.phase \in Locking /\ host' = host
      /\ wizard.phase = "wrapping" /\ here \in Runs /\ here # 0 /\ device # Absent
      /\ wrapping.wrap \in 1 .. MaxWraps /\ blob \in Blob /\ blob # NoBlob
      /\ wrapping' \in [wrap : 0 .. MaxWraps, at : {"idle", "wrapIdentity", "registerDevice", "putWrappedKeys", "persist"}]
  BY <1>1, <1>2, <1>3, <1>5, StepsKeep
<1>7. here' = here
  BY <1>6 DEF here
<1>8. server[here] \in [device : Nat, pass : Blob, recovery : Blob, credential : 0 .. MaxWraps] /\ server[here].device = device
  BY <1>1, <1>6 DEF IInv, TypeOK, CloudTypes, Enrolled, here
<1>9. ASSUME NEW k \in 1 .. 3
      PROVE  /\ Stored(server[here], k) \in [device : Nat, pass : Blob, recovery : Blob, credential : 0 .. MaxWraps]
             /\ Stored(server[here], k).device = device
             /\ Stored(server[here], k).pass = blob
             /\ Stored(server[here], k).recovery \in {server[here].recovery, blob}
             /\ Stored(server[here], k).credential \in {server[here].credential, wrapping.wrap}
             /\ k = 3 => /\ Stored(server[here], k).recovery = blob
                         /\ Stored(server[here], k).credential = wrapping.wrap
  <2>1. PICK b, w : /\ b = (IF k >= 2 THEN blob ELSE server[here].recovery)
                    /\ w = (IF k >= 3 THEN wrapping.wrap ELSE server[here].credential)
    OBVIOUS
  <2>2. Stored(server[here], k) = [server[here] EXCEPT !.pass = blob, !.recovery = b, !.credential = w]
    <3>1. k >= 1
      OBVIOUS
    <3> QED
      BY <1>8, <2>1, <3>1 DEF Stored
  <2>3. b \in Blob /\ w \in 0 .. MaxWraps
    <3>1. wrapping.wrap \in 0 .. MaxWraps
      BY <1>6
    <3> QED
      BY <1>6, <1>8, <2>1, <3>1
  <2>4. PICK t : t = [server[here] EXCEPT !.pass = blob, !.recovery = b, !.credential = w]
    OBVIOUS
  <2>5. /\ t \in [device : Nat, pass : Blob, recovery : Blob, credential : 0 .. MaxWraps]
        /\ t.device = device /\ t.pass = blob /\ t.recovery = b /\ t.credential = w
    BY <1>6, <1>8, <2>3, <2>4
  <2>6. /\ b \in {server[here].recovery, blob} /\ w \in {server[here].credential, wrapping.wrap}
        /\ k = 3 => b = blob /\ w = wrapping.wrap
    BY <2>1
  <2> QED
    BY <2>2, <2>4, <2>5, <2>6
<1>10. /\ server' \in [Runs -> [device : Nat, pass : Blob, recovery : Blob, credential : 0 .. MaxWraps]]
       /\ \A r \in Runs \ {here} : server'[r] = server[r]
       /\ server'[here] = server[here] \/ \E k \in 1 .. 3 : server'[here] = Stored(server[here], k)
       /\ Proceeds("persist") /\ ~WrapFails => server'[here] = Stored(server[here], 3)
  <2>1. CASE WrapFails /\ server' = server
    BY <2>1 DEF IInv, TypeOK, CloudTypes
  <2>2. ASSUME NEW k \in 1 .. 3, server' = [server EXCEPT ![here] = Stored(@, k)]
        PROVE  /\ server' \in [Runs -> [device : Nat, pass : Blob, recovery : Blob, credential : 0 .. MaxWraps]]
               /\ \A r \in Runs \ {here} : server'[r] = server[r]
               /\ server'[here] = Stored(server[here], k)
    <3>1. PICK t : t = Stored(server[here], k)
      OBVIOUS
    <3>2. server' = [server EXCEPT ![here] = t] /\ t \in [device : Nat, pass : Blob, recovery : Blob, credential : 0 .. MaxWraps]
      BY <1>9, <2>2, <3>1
    <3> QED
      BY <1>6, <3>1, <3>2 DEF IInv, TypeOK, CloudTypes
  <2>3. CASE Proceeds("persist") /\ server' = [server EXCEPT ![here] = Stored(@, 3)]
    BY <2>2, <2>3
  <2>4. ASSUME WrapFails, NEW k \in 1 .. 3, server' = [server EXCEPT ![here] = Stored(@, k)]
        PROVE  /\ server' \in [Runs -> [device : Nat, pass : Blob, recovery : Blob, credential : 0 .. MaxWraps]]
               /\ \A r \in Runs \ {here} : server'[r] = server[r]
               /\ \E j \in 1 .. 3 : server'[here] = Stored(server[here], j)
    BY <2>2, <2>4
  <2> QED
    BY <1>4, <2>1, <2>3, <2>4
<1>11. TypeOK'
  <2>1. EffectTypes'
    BY <1>2, <1>5, <1>6 DEF IInv, TypeOK, EffectTypes
  <2>2. CloudTypes'
    BY <1>2, <1>10 DEF IInv, TypeOK, CloudTypes
  <2> QED
    BY <1>6, <2>1, <2>2 DEF TypeOK
<1>12. Enrolled'
  <2>1. server'[here].device = device
    BY <1>8, <1>9, <1>10
  <2>2. CASE WrapFails
    BY <1>1, <1>2, <1>6, <1>7, <2>1, <2>2 DEF Enrolled, WrapFails, NotWrapping
  <2>3. CASE Proceeds("persist") /\ ~WrapFails
    <3>1. wrapping'.at = "persist" /\ wrapping'.wrap = wrapping.wrap
      BY <2>3 DEF Proceeds, IInv, TypeOK, EffectTypes
    <3>2. blob' = blob
      BY <1>6, <3>1 DEF blob
    <3>3. server'[here].pass = blob /\ server'[here].recovery = blob /\ server'[here].credential = wrapping.wrap
      BY <1>9, <1>10, <2>3
    <3> QED
      BY <1>1, <1>2, <1>6, <1>7, <2>1, <3>1, <3>2, <3>3 DEF Enrolled
  <2> QED
    BY <1>4, <2>2, <2>3
<1>13. ASSUME Served PROVE Served'
  <2> SUFFICES ASSUME currentCycle'
               PROVE  LET r == keystore'["server.url"]
                      IN  /\ r \in Runs /\ server'[r].device = keystore'["device.sk"]
                          /\ keystore'["device.id"] = keystore'["device.sk"]
                          /\ deployed'[r].env = keystore'["tenant.id"] /\ deployed'[r].identity = keystore'["identity.pk"]
                          /\ server'[r].pass # NoBlob /\ server'[r].recovery # NoBlob /\ server'[r].credential # Absent
    BY DEF Served
  <2>1. PICK r : r = keystore["server.url"]
    OBVIOUS
  <2>2. /\ r \in Runs /\ server[r].device = keystore["device.sk"] /\ keystore["device.id"] = keystore["device.sk"]
        /\ deployed[r].env = keystore["tenant.id"] /\ deployed[r].identity = keystore["identity.pk"]
        /\ server[r].pass # NoBlob /\ server[r].recovery # NoBlob /\ server[r].credential # Absent
    BY <1>2, <1>13, <2>1, KeystoreFrame DEF Served
  <2>3. wrapping.wrap # Absent
    BY <1>6 DEF Absent
  <2>4. /\ server'[r].device = server[r].device
        /\ server'[r].pass # NoBlob /\ server'[r].recovery # NoBlob /\ server'[r].credential # Absent
    <3>1. CASE r # here
      BY <1>10, <2>2, <3>1
    <3>2. CASE r = here
      <4>1. CASE server'[here] = server[here]
        BY <2>2, <3>2, <4>1
      <4>2. ASSUME NEW k \in 1 .. 3, server'[here] = Stored(server[here], k)
            PROVE  /\ server'[here].device = device /\ server'[here].pass # NoBlob
                   /\ server'[here].recovery # NoBlob /\ server'[here].credential # Absent
        BY <1>6, <1>9, <2>2, <2>3, <3>2, <4>2
      <4> QED
        BY <1>8, <1>10, <3>2, <4>1, <4>2
    <3> QED
      BY <3>1, <3>2
  <2> QED
    BY <1>2, <2>1, <2>2, <2>4
<1>14. KInv => KInv'
  BY <1>2, <1>3, <1>6, <1>13, KeysWhileLocking DEF IInv, Locking
<1> QED
  BY <1>6, <1>11, <1>12, <1>14 DEF IInv

-----------------------------------------------------------------------------
(* The keystore: written in one order, wiped in another                    *)

\* The keystore after the first k of the seven writes.
LEMMA WrittenIs ==
  ASSUME TypeOK, NEW k \in 0 .. 7, keystore' = Written(k)
  PROVE  /\ keystore' = [e \in Entries |-> keystore'[e]]
         /\ \A e \in Entries : keystore'[e] \in {keystore[e], Value(e)}
         /\ k >= 1 => keystore'["device.id"] = Value("device.id")
         /\ k >= 3 => keystore'["device.sk"] = Value("device.sk")
         /\ k >= 4 => keystore'["identity.pk"] = Value("identity.pk")
         /\ k <= 3 => \A e \in {"identity.pk", "tenant.id", "server.url"} : keystore'[e] = keystore[e]
         /\ k <= 6 => keystore'["wrapped.pass"] = keystore["wrapped.pass"]
         /\ k = 7 => \A e \in Entries : keystore'[e] = Value(e)
<1> DEFINE Has(e) == \E i \in 1 .. k : KeystoreEntries[i] = e
<1>1. DOMAIN keystore = Entries
  BY DEF TypeOK, EffectTypes
<1>2. keystore' = [e \in Entries |-> keystore'[e]] /\ \A e \in Entries : keystore'[e] = IF Has(e) THEN Value(e) ELSE keystore[e]
  BY <1>1 DEF Written
<1>3. /\ KeystoreEntries[1] = "device.id" /\ KeystoreEntries[2] = "device.pk" /\ KeystoreEntries[3] = "device.sk"
      /\ KeystoreEntries[4] = "identity.pk" /\ KeystoreEntries[5] = "tenant.id" /\ KeystoreEntries[6] = "server.url"
      /\ KeystoreEntries[7] = "wrapped.pass"
  BY DEF KeystoreEntries
<1>4. /\ k >= 1 => Has("device.id")
      /\ k >= 3 => Has("device.sk")
      /\ k >= 4 => Has("identity.pk")
      /\ k <= 3 => ~Has("identity.pk") /\ ~Has("tenant.id") /\ ~Has("server.url")
      /\ k <= 6 => ~Has("wrapped.pass")
      /\ k = 7 => \A e \in Entries : Has(e)
  <2>1. k >= 1 => Has("device.id")
    BY <1>3
  <2>2. k >= 3 => Has("device.sk")
    BY <1>3
  <2>3. k >= 4 => Has("identity.pk")
    BY <1>3
  <2>4. k <= 3 => ~Has("identity.pk") /\ ~Has("tenant.id") /\ ~Has("server.url")
    <3>1. \A i \in 1 .. 3 : KeystoreEntries[i] \in {"device.id", "device.pk", "device.sk"}
      BY <1>3
    <3> QED
      BY <3>1
  <2>5. k <= 6 => ~Has("wrapped.pass")
    <3>1. \A i \in 1 .. 6 : KeystoreEntries[i] # "wrapped.pass"
      BY <1>3
    <3> QED
      BY <3>1
  <2>6. k = 7 => \A e \in Entries : Has(e)
    BY DEF Entries, KeystoreEntries
  <2> QED
    BY <2>1, <2>2, <2>3, <2>4, <2>5, <2>6
<1> HIDE DEF Has
<1>5. {"device.id", "device.sk", "identity.pk", "tenant.id", "server.url", "wrapped.pass"} \subseteq Entries
  BY EntryNames
<1> QED
  BY <1>2, <1>4, <1>5

\* Each entry has its type whatever part of the writes is done.
LEMMA WrittenTyped ==
  ASSUME TypeOK, NEW k \in 0 .. 7, keystore' = Written(k), blob \in Blob, here \in Nat
  PROVE  \A e \in Entries : keystore'[e] \in (IF e = "wrapped.pass" THEN Blob ELSE Nat)
<1>1. \A e \in Entries : keystore'[e] \in {keystore[e], Value(e)}
  BY WrittenIs
<1>2. \A e \in Entries : Value(e) \in (IF e = "wrapped.pass" THEN Blob ELSE Nat)
  BY EntryNames DEF Value, TypeOK, EffectTypes, WizardTypes, HostState
<1>3. \A e \in Entries : keystore[e] \in (IF e = "wrapped.pass" THEN Blob ELSE Nat)
  BY DEF TypeOK, EffectTypes
<1> QED
  BY <1>1, <1>2, <1>3

\* What the last step of completeSetup leaves, whole or cut short, of a keystore that was fit for it.
LEMMA PersistWrites ==
  ASSUME IInv, wrapping.at = "persist", NEW k \in 0 .. 7, keystore' = Written(k), UNCHANGED <<server, deployed>>,
         Blank \/ Begun \/ k = 7,
         here \in Runs, here # 0, device # Absent, host.identity # Absent, blob # NoBlob, wrapping.wrap # Absent
  PROVE  \/ Blank' /\ k # 7
         \/ /\ Served' /\ isProvisioned'
            /\ \A e \in {"device.id", "device.sk"} : keystore'[e] = device
            /\ keystore'["identity.pk"] = host.identity
            /\ keystore'["tenant.id"] \in {Absent, here} /\ keystore'["server.url"] \in {Absent, here}
            /\ IF k = 7 THEN keystore'["wrapped.pass"] = blob /\ keystore'["server.url"] = here ELSE ~HasWrap'
<1>1. /\ \A e \in {"device.id", "device.sk"} : Value(e) = device
      /\ Value("identity.pk") = host.identity /\ Value("wrapped.pass") = blob
      /\ Value("tenant.id") = here /\ Value("server.url") = here
  BY DEF Value
<1>2. /\ \A e \in {"device.id", "device.sk", "identity.pk", "tenant.id", "server.url", "wrapped.pass"} :
           keystore'[e] \in {keystore[e], Value(e)} /\ (k = 7 => keystore'[e] = Value(e))
      /\ k >= 1 => keystore'["device.id"] = Value("device.id")
      /\ k >= 3 => keystore'["device.sk"] = Value("device.sk")
      /\ k >= 4 => keystore'["identity.pk"] = Value("identity.pk")
      /\ k <= 3 => \A e \in {"identity.pk", "tenant.id", "server.url"} : keystore'[e] = keystore[e]
      /\ k <= 6 => keystore'["wrapped.pass"] = keystore["wrapped.pass"]
  BY WrittenIs, EntryNames DEF IInv
<1>3. CASE Blank /\ k <= 3
  <2>1. keystore'["wrapped.pass"] = NoBlob
    BY <1>2, <1>3 DEF Blank, HasWrap
  <2> QED
    BY <1>2, <1>3, <2>1 DEF Blank, HasWrap
<1>4. CASE Begun \/ k >= 4
  <2>1. Blank \/ Begun \/ k = 7
    OBVIOUS
  <2>2. /\ \A e \in {"device.id", "device.sk"} : keystore'[e] = device
        /\ keystore'["identity.pk"] = host.identity
    <3>1. CASE Begun
      BY <1>1, <1>2, <3>1 DEF Begun
    <3>2. CASE k >= 4
      BY <1>1, <1>2, <3>2
    <3> QED
      BY <1>4, <3>1, <3>2
  <2>3. keystore'["tenant.id"] \in {Absent, here} /\ keystore'["server.url"] \in {Absent, here}
    <3>1. CASE k = 7
      BY <1>1, <1>2, <3>1
    <3>2. CASE Blank \/ Begun
      BY <1>1, <1>2, <3>2 DEF Blank, Begun
    <3> QED
      BY <2>1, <3>1, <3>2
  <2>4. IF k = 7 THEN keystore'["wrapped.pass"] = blob /\ keystore'["server.url"] = here ELSE ~HasWrap'
    <3>1. CASE k = 7
      BY <1>1, <1>2, <3>1
    <3>2. CASE k # 7
      <4>1. ~HasWrap /\ k <= 6
        BY <2>1, <3>2 DEF Blank, Begun
      <4> QED
        BY <1>2, <3>2, <4>1 DEF HasWrap
    <3> QED
      BY <3>1, <3>2
  <2>5. isProvisioned'
    BY <2>2 DEF isProvisioned
  <2>6. /\ server[here].device = device /\ server[here].pass = blob /\ server[here].recovery = blob
        /\ server[here].credential = wrapping.wrap
        /\ deployed[here].env = here /\ deployed[here].identity = host.identity
    BY DEF IInv, Enrolled, UsableWhenLive, here
  <2>7. Served'
    <3> SUFFICES ASSUME currentCycle'
                 PROVE  LET r == keystore'["server.url"]
                        IN  /\ r \in Runs /\ server'[r].device = keystore'["device.sk"]
                            /\ keystore'["device.id"] = keystore'["device.sk"]
                            /\ deployed'[r].env = keystore'["tenant.id"] /\ deployed'[r].identity = keystore'["identity.pk"]
                            /\ server'[r].pass # NoBlob /\ server'[r].recovery # NoBlob /\ server'[r].credential # Absent
      BY DEF Served
    <3>1. keystore'["tenant.id"] = here /\ keystore'["server.url"] = here
      BY <2>3 DEF currentCycle
    <3> QED
      BY <2>2, <2>6, <3>1
  <2> QED
    BY <2>2, <2>3, <2>4, <2>5, <2>7
<1> QED
  BY <1>3, <1>4

\* A new process has forgotten all but the keystore.
LEMMA StartsKeeps ==
  ASSUME IInv, Starts, faults' \in [Faults -> Nat], keystore' = [e \in Entries |-> keystore'[e]],
         \A e \in Entries : keystore'[e] \in (IF e = "wrapped.pass" THEN Blob ELSE Nat)
  PROVE  /\ IInv'
         /\ isProvisioned' => wizard'.phase = "probing" /\ host'.flights = {} /\ host'.sheet = 0 /\ screen' = "dashboard"
<1>1. /\ wizard' = NewWizard /\ host' = (IF isProvisioned' THEN NewHost ELSE kick(NewWizard, NewHost))
      /\ screen' = (IF isProvisioned' THEN "dashboard" ELSE "wizard")
      /\ device' = Absent /\ registered' = FALSE /\ provisioning' = Idle /\ wrapping' = NotWrapping
      /\ UNCHANGED <<neon, available, projects, deployed, server, minted, calm>>
  BY DEF Starts, vercel
<1>2. /\ NewWizard \in WizardState /\ NewWizard.phase = "probing"
      /\ NewHost \in HostState /\ NewHost.flights = {} /\ NewHost.identity = Absent /\ NewHost.cloud = 0 /\ NewHost.sheet = 0
  BY OnboardingAssumption DEF NewWizard, WizardState, Phases, NewHost, HostState, Absent
<1>3. kick(NewWizard, NewHost) = [NewHost EXCEPT !.flights = @ \cup {"probe"}]
  BY <1>2 DEF kick
<1>4. /\ host' \in HostState /\ host'.identity = Absent /\ host'.cloud = 0 /\ host'.sheet = 0
      /\ host'.flights \subseteq {"probe"} /\ (isProvisioned' => host'.flights = {})
  <2>1. CASE isProvisioned'
    BY <1>1, <1>2, <2>1
  <2>2. CASE ~isProvisioned'
    BY <1>1, <1>2, <1>3, <2>2 DEF HostState
  <2> QED
    BY <2>1, <2>2
<1>5. TypeOK'
  <2>1. WizardTypes'
    BY <1>1, <1>2, <1>4 DEF IInv, TypeOK, WizardTypes
  <2>2. EffectTypes'
    <3>1. wrapping' \in [wrap : 0 .. MaxWraps, at : {"idle", "wrapIdentity", "registerDevice", "putWrappedKeys", "persist"}]
      BY <1>1, OnboardingAssumption DEF NotWrapping
    <3>2. device' \in Nat /\ registered' \in BOOLEAN
      BY <1>1 DEF Absent
    <3> QED
      BY <1>1, <3>1, <3>2 DEF EffectTypes
  <2> QED
    BY <1>1, <2>1, <2>2, CloudFrame DEF IInv, TypeOK
<1>6. Staged'
  BY <1>1, <1>2, <1>4 DEF Staged, Idle, NotWrapping, Finding, Building, Locking, Ending
<1>7. Provisioned'
  BY <1>1 DEF Provisioned, Idle, AfterOpened, AfterDatabase, AfterConnect, AfterEnv, AfterDeploy
<1>8. Enrolled'
  BY <1>1 DEF Enrolled, NotWrapping
<1>9. UsableWhenLive'
  BY <1>4 DEF UsableWhenLive
<1> QED
  BY <1>1, <1>2, <1>4, <1>5, <1>6, <1>7, <1>8, <1>9 DEF IInv

\* The last step of completeSetup: whole, cut short, or cut short with the process.
LEMMA PersistKeeps ==
  ASSUME IInv, Persist
  PROVE  IInv' /\ (KInv => KInv')
<1>1. /\ wrapping.at = "persist" /\ wizard.phase = "wrapping" /\ device # Absent /\ wrapping.wrap # 0
      /\ host.identity # Absent /\ host.cloud # 0 /\ host.sheet = 0 /\ provisioning.at = "idle" /\ registered
      /\ "probe" \notin host.flights /\ "identity" \notin host.flights
  BY DEF Persist, Step, IInv, Staged, Enrolled, Locking
<1>2. /\ wrapping \in [wrap : 0 .. MaxWraps, at : {"idle", "wrapIdentity", "registerDevice", "putWrappedKeys", "persist"}]
      /\ host \in HostState /\ device \in Nat
  BY DEF IInv, TypeOK, WizardTypes, EffectTypes
<1>3. here \in Runs /\ here \in Nat /\ here # 0 /\ wrapping.wrap # Absent /\ wrapping.wrap \in 0 .. MaxWraps
  BY <1>1, <1>2, OnboardingAssumption DEF HostState, here, Runs, Absent
<1>4. blob \in Blob /\ blob # NoBlob
  <2>1. blob = [wrap |-> wrapping.wrap, identity |-> host.identity] /\ host.identity \in Nat
    BY <1>2 DEF blob, HostState
  <2>2. blob.wrap # NoBlob.wrap
    BY <1>1, <2>1 DEF NoBlob
  <2> QED
    BY <1>3, <2>1, <2>2 DEF Blob
<1>5. Len(KeystoreEntries) = 7
  BY DEF KeystoreEntries
<1>6. UNCHANGED <<deployed, server>>
  BY DEF Persist, vercel, Starts
<1>7. ASSUME NEW k \in 0 .. 7, keystore' = Written(k)
      PROVE  keystore' = [e \in Entries |-> keystore'[e]] /\ \A e \in Entries : keystore'[e] \in (IF e = "wrapped.pass" THEN Blob ELSE Nat)
  BY <1>3, <1>4, <1>7, WrittenIs, WrittenTyped DEF IInv
<1>8. CASE /\ keystore' = Written(Len(KeystoreEntries))
           /\ Proceed
           /\ Settle(To("sheet"), [host EXCEPT !.sheet = wrapping.wrap])
           /\ UNCHANGED <<screen, effects, provisioning, vercel, server, minted, faults, calm>>
  <2>1. PICK k \in 0 .. 7 : k = 7 /\ keystore' = Written(k)
    BY <1>5, <1>8
  <2>2. wrapping' = [wrapping EXCEPT !.at = "idle"]
    BY <1>1, <1>8 DEF Proceed, Follows
  <2>3. UNCHANGED <<screen, device, registered, provisioning, neon, available, projects, deployed, server, minted, faults, calm>>
    BY <1>8 DEF effects, vercel
  <2>4. PICK w, h : w = To("sheet") /\ h = [host EXCEPT !.sheet = wrapping.wrap] /\ Settle(w, h)
    BY <1>8
  <2>5. /\ w \in WizardState /\ w.phase = "sheet"
        /\ h \in HostState /\ h.sheet = wrapping.wrap /\ h.identity = host.identity /\ h.cloud = host.cloud
        /\ h.flights = host.flights
    BY <1>2, <1>3, <2>4, Sends DEF IInv, Phases, HostState
  <2>6. /\ wizard' = w /\ host' \in HostState /\ host'.flights = host.flights
        /\ host'.identity = host.identity /\ host'.cloud = host.cloud /\ host'.sheet = wrapping.wrap
    BY <2>4, <2>5, Settles
  <2>7. TypeOK'
    <3>1. WizardTypes'
      BY <2>3, <2>5, <2>6 DEF IInv, TypeOK, WizardTypes
    <3>2. EffectTypes'
      <4>1. wrapping' \in [wrap : 0 .. MaxWraps, at : {"idle", "wrapIdentity", "registerDevice", "putWrappedKeys", "persist"}]
        BY <1>2, <2>2
      <4>2. keystore' = [e \in Entries |-> keystore'[e]] /\ \A e \in Entries : keystore'[e] \in (IF e = "wrapped.pass" THEN Blob ELSE Nat)
        BY <1>7, <2>1
      <4> QED
        BY <2>3, <4>1, <4>2 DEF IInv, TypeOK, EffectTypes
    <3> QED
      BY <2>3, <3>1, <3>2, CloudFrame DEF IInv, TypeOK
  <2>8. wrapping'.at = "idle"
    BY <1>2, <2>2
  <2>9. Staged'
    BY <1>1, <2>3, <2>5, <2>6, <2>8 DEF Staged, Finding, Building, Locking, Ending
  <2>10. Provisioned'
    BY <1>1, <2>3 DEF Provisioned, AfterOpened, AfterDatabase, AfterConnect, AfterEnv, AfterDeploy
  <2>11. Enrolled'
    BY <2>3, <2>6, <2>8 DEF IInv, Enrolled, here
  <2>12. UsableWhenLive'
    BY <2>3, <2>6 DEF IInv, UsableWhenLive
  <2>13. ASSUME KInv PROVE KInv'
    <3>1. /\ Served' /\ isProvisioned' /\ keystore'["identity.pk"] = host.identity
          /\ keystore'["wrapped.pass"] = blob /\ keystore'["server.url"] = here
      BY <1>1, <1>3, <1>4, <1>6, <2>1, PersistWrites
    <3>2. server[here].pass = blob /\ server[here].recovery = blob /\ server[here].credential = wrapping.wrap
      BY <1>1 DEF IInv, Enrolled
    <3>3. blob.wrap = wrapping.wrap /\ blob.identity = host.identity
      BY DEF blob
    <3>4. OneKeyEverywhere'
      BY <2>3, <2>6, <3>1, <3>2, <3>3 DEF OneKeyEverywhere
    <3> QED
      BY <2>3, <2>5, <2>6, <2>13, <3>1, <3>4 DEF KInv, KeysKept, Settled, TornMet, Ending
  <2> QED
    BY <2>7, <2>9, <2>10, <2>11, <2>12, <2>13 DEF IInv
<1>9. CASE /\ Spend("torn")
           /\ \E k \in 0 .. Len(KeystoreEntries) - 1 : keystore' = Written(k)
           /\ \/ WrapFails /\ UNCHANGED <<screen, effects, provisioning, vercel, server, minted, calm>>
              \/ Starts
  <2>1. PICK k \in 0 .. 7 : k # 7 /\ keystore' = Written(k)
    BY <1>5, <1>9
  <2>2. /\ faults' \in [Faults -> Nat] /\ faults["torn"] # 0 /\ faults'["torn"] = faults["torn"] - 1
        /\ faults'["reset"] = faults["reset"]
    BY <1>9, Spent DEF IInv, Faults
  <2>3. TornMet => TornMet'
    BY <2>2 DEF TornMet, IInv, TypeOK, WizardTypes, Faults
  <2>4. ASSUME KInv
        PROVE  \/ Blank'
               \/ /\ Served' /\ isProvisioned' /\ ~HasWrap'
                  /\ \A e \in {"device.id", "device.sk"} : keystore'[e] = device
                  /\ keystore'["identity.pk"] = host.identity
                  /\ keystore'["tenant.id"] \in {Absent, here} /\ keystore'["server.url"] \in {Absent, here}
    <3>1. Blank \/ Begun
      BY <1>1, <2>2, <2>4 DEF KInv, KeysKept, Settled, Wrecked, Ending
    <3> QED
      BY <1>1, <1>3, <1>4, <1>6, <2>1, <3>1, PersistWrites
  <2>5. CASE WrapFails /\ UNCHANGED <<screen, effects, provisioning, vercel, server, minted, calm>>
    <3>1. UNCHANGED <<screen, device, registered, provisioning, neon, available, projects, deployed, server, minted, calm>>
      BY <2>5 DEF effects, vercel
    <3>2. Steps /\ registered' \in BOOLEAN
      BY <2>5, <3>1 DEF Steps, IInv, TypeOK, EffectTypes
    <3>3. /\ WizardTypes' /\ Staged' /\ Provisioned' /\ UsableWhenLive' /\ wizard'.phase \in Locking /\ host' = host
          /\ wrapping' \in [wrap : 0 .. MaxWraps, at : {"idle", "wrapIdentity", "registerDevice", "putWrappedKeys", "persist"}]
      BY <1>1, <2>2, <3>1, <3>2, StepsKeep
    <3>4. TypeOK'
      <4>1. keystore' = [e \in Entries |-> keystore'[e]] /\ \A e \in Entries : keystore'[e] \in (IF e = "wrapped.pass" THEN Blob ELSE Nat)
        BY <1>7, <2>1
      <4>2. EffectTypes'
        BY <3>1, <3>3, <4>1 DEF IInv, TypeOK, EffectTypes
      <4> QED
        BY <3>1, <3>3, <4>2, CloudFrame DEF IInv, TypeOK
    <3>5. Enrolled'
      <4>1. wrapping'.at = "idle"
        BY <2>5 DEF WrapFails, NotWrapping
      <4> QED
        BY <3>1, <3>3, <4>1 DEF IInv, Enrolled, here
    <3>6. ASSUME KInv PROVE KInv'
      <4>1. here' = here
        BY <3>3 DEF here
      <4>2. Blank' \/ Begun'
        BY <1>1, <2>4, <3>1, <3>3, <3>6, <4>1 DEF Begun
      <4> QED
        BY <2>3, <3>6, <4>2 DEF KInv, KeysKept
    <3> QED
      BY <3>3, <3>4, <3>5, <3>6 DEF IInv
  <2>6. CASE Starts
    <3>1. /\ IInv'
          /\ isProvisioned' => wizard'.phase = "probing" /\ host'.flights = {} /\ host'.sheet = 0 /\ screen' = "dashboard"
      BY <1>7, <2>1, <2>2, <2>6, StartsKeeps
    <3>2. ASSUME KInv PROVE KInv'
      <4>1. CASE Blank'
        BY <2>3, <3>2, <4>1 DEF KInv, KeysKept
      <4>2. CASE Served' /\ isProvisioned' /\ ~HasWrap'
        <5>1. OneKeyEverywhere'
          BY <4>2 DEF OneKeyEverywhere
        <5> QED
          BY <2>3, <3>1, <3>2, <4>2, <5>1 DEF KInv, KeysKept, Settled
      <4> QED
        BY <2>4, <3>2, <4>1, <4>2
    <3> QED
      BY <3>1, <3>2
  <2> QED
    BY <1>9, <2>5, <2>6
<1> QED
  BY <1>8, <1>9 DEF Persist

\* The process ends: what is in the keystore is what there is.
LEMMA QuitKeeps ==
  ASSUME IInv, Quit
  PROVE  IInv' /\ (KInv => KInv')
<1>1. /\ faults' \in [Faults -> Nat] /\ faults'["torn"] = faults["torn"] /\ faults'["reset"] = faults["reset"]
      /\ Starts /\ keystore' = keystore
  BY Spent DEF Quit, IInv, Faults
<1>2. UNCHANGED <<deployed, server>>
  BY <1>1 DEF Starts, vercel
<1>3. /\ IInv'
      /\ isProvisioned' => wizard'.phase = "probing" /\ host'.flights = {} /\ host'.sheet = 0 /\ screen' = "dashboard"
  BY <1>1, StartsKeeps DEF IInv, TypeOK, EffectTypes
<1>4. ASSUME KInv PROVE KInv'
  <2>1. TornMet'
    BY <1>1, <1>4 DEF KInv, TornMet
  <2>2. CASE Blank \/ Wrecked
    <3>1. faults["torn"] \in Nat /\ faults'["torn"] \in Nat /\ faults'["torn"] <= faults["torn"]
      BY <1>1 DEF IInv, TypeOK, WizardTypes, Faults
    <3> QED
      BY <1>1, <2>1, <2>2, <3>1, KeystoreStays DEF KInv, KeysKept
  <2>3. CASE Begun \/ Settled
    <3>1. isProvisioned
      BY <2>3 DEF Begun, Settled, isProvisioned, IInv, Staged
    <3>2. Served' /\ isProvisioned'
      BY <1>1, <1>2, <2>3, <3>1, KeystoreFrame, ServedFrame DEF Begun, Settled
    <3>3. OneKeyEverywhere'
      <4>1. CASE Begun
        BY <1>1, <4>1, KeystoreFrame DEF Begun, OneKeyEverywhere
      <4>2. CASE Settled
        BY <1>1, <1>2, <1>3, <3>2, <4>2, KeystoreFrame DEF Settled, OneKeyEverywhere
      <4> QED
        BY <2>3, <4>1, <4>2
    <3> QED
      BY <1>3, <2>1, <3>2, <3>3 DEF KInv, KeysKept, Settled
  <2> QED
    BY <1>4, <2>2, <2>3 DEF KInv, KeysKept
<1> QED
  BY <1>3, <1>4

\* A new window: who owns the screen is asked of the keystore.
LEMMA RouteKeeps ==
  ASSUME IInv, Route
  PROVE  IInv' /\ (KInv => KInv')
<1>1. UNCHANGED <<wizard, host, device, registered, provisioning, wrapping, keystore, neon, available, projects, deployed,
                  server, minted, faults, calm>>
  BY DEF Route, outside, effects, vercel
<1>2. screen' = (IF isProvisioned THEN "dashboard" ELSE "wizard")
  BY DEF Route
<1>3. TypeOK'
  <2>1. WizardTypes'
    BY <1>1, <1>2 DEF IInv, TypeOK, WizardTypes
  <2> QED
    BY <1>1, <2>1, EffectFrame, CloudFrame DEF IInv, TypeOK
<1>4. Staged' /\ Provisioned' /\ Enrolled' /\ UsableWhenLive'
  BY <1>1 DEF IInv, Staged, Provisioned, Enrolled, UsableWhenLive, project, here, blob
<1>5. ASSUME KInv PROVE KInv'
  <2>1. TornMet'
    BY <1>1, <1>5 DEF KInv, TornMet
  <2>2. CASE Blank \/ Wrecked
    <3>1. faults["torn"] \in Nat /\ faults'["torn"] \in Nat /\ faults'["torn"] <= faults["torn"]
      BY <1>1 DEF IInv, TypeOK, WizardTypes, Faults
    <3> QED
      BY <1>1, <2>1, <2>2, <3>1, KeystoreStays DEF KInv, KeysKept
  <2>3. CASE Begun
    BY <1>1, <2>1, <2>3, KeystoreFrame, ServedFrame DEF KInv, KeysKept, Begun, here
  <2>4. CASE Settled
    BY <1>1, <1>2, <2>1, <2>4, KeystoreFrame, ServedFrame DEF KInv, KeysKept, Settled, OneKeyEverywhere
  <2> QED
    BY <1>5, <2>2, <2>3, <2>4 DEF KInv, KeysKept
<1> QED
  BY <1>3, <1>4, <1>5 DEF IInv

\* The keystore after the first k of the seven deletions.
LEMMA WipedIs ==
  ASSUME TypeOK, NEW k \in 0 .. 7, keystore' = Wiped(k)
  PROVE  /\ keystore' = [e \in Entries |-> keystore'[e]]
         /\ \A e \in Entries : keystore'[e] \in (IF e = "wrapped.pass" THEN Blob ELSE Nat)
         /\ k = 0 => keystore' = keystore
         /\ k >= 1 => keystore'["device.id"] = Absent
         /\ k = 7 => keystore' = EmptyKeystore
<1> DEFINE Gone(e) == \E i \in 1 .. k : WipeOrder[i] = e
<1>1. DOMAIN keystore = Entries
  BY DEF TypeOK, EffectTypes
<1>2. keystore' = [e \in Entries |-> IF Gone(e) THEN EmptyKeystore[e] ELSE keystore[e]]
  BY <1>1 DEF Wiped
<1>3. /\ EmptyKeystore = [e \in Entries |-> IF e = "wrapped.pass" THEN NoBlob ELSE Absent]
      /\ \A e \in Entries : EmptyKeystore[e] \in (IF e = "wrapped.pass" THEN Blob ELSE Nat)
  <2>1. EmptyKeystore = [e \in Entries |-> IF e = "wrapped.pass" THEN NoBlob ELSE Absent]
    BY DEF EmptyKeystore, Entries
  <2>2. NoBlob \in Blob /\ Absent \in Nat
    BY OnboardingAssumption DEF NoBlob, Blob, Absent
  <2> QED
    BY <2>1, <2>2
<1>4. \A e \in Entries : keystore[e] \in (IF e = "wrapped.pass" THEN Blob ELSE Nat)
  BY DEF TypeOK, EffectTypes
<1>5. /\ WipeOrder[1] = "device.id" /\ WipeOrder[2] = "device.sk" /\ WipeOrder[3] = "device.pk"
      /\ WipeOrder[4] = "identity.pk" /\ WipeOrder[5] = "tenant.id" /\ WipeOrder[6] = "wrapped.pass"
      /\ WipeOrder[7] = "server.url"
  BY DEF WipeOrder
<1>6. k >= 1 => Gone("device.id")
  BY <1>5
<1>7. k = 7 => \A e \in Entries : Gone(e)
  BY <1>5, EntryNames
<1>8. k = 0 => \A e \in Entries : ~Gone(e)
  OBVIOUS
<1> HIDE DEF Gone
<1>9. k = 0 => keystore' = keystore
  <2>1. keystore = [e \in Entries |-> keystore[e]]
    BY <1>1 DEF TypeOK, EffectTypes
  <2> QED
    BY <1>2, <1>8, <2>1
<1>10. k = 7 => keystore' = EmptyKeystore
  <2>1. EmptyKeystore = [e \in Entries |-> EmptyKeystore[e]]
    BY <1>3
  <2> QED
    BY <1>2, <1>7, <2>1
<1>11. k >= 1 => keystore'["device.id"] = Absent
  BY <1>2, <1>3, <1>6, EntryNames
<1>12. \A e \in Entries : keystore'[e] \in (IF e = "wrapped.pass" THEN Blob ELSE Nat)
  BY <1>2, <1>3, <1>4
<1> QED
  BY <1>2, <1>9, <1>10, <1>11, <1>12

\* The dashboard is reset, whole or in part.
LEMMA ResetDashboardKeeps ==
  ASSUME IInv, ResetDashboard
  PROVE  IInv' /\ (KInv => KInv')
<1>1. UNCHANGED <<wizard, host, device, registered, provisioning, wrapping, neon, available, projects, deployed, server,
                  minted, calm>>
  BY DEF ResetDashboard, effects, vercel
<1>2. faults["torn"] \in Nat /\ faults["reset"] \in Nat /\ faults["reset"] # 0 /\ faults \in [Faults -> Nat]
  BY DEF ResetDashboard, IInv, TypeOK, WizardTypes, Faults
<1>3. PICK k \in 0 .. 7 :
        /\ keystore' = Wiped(k)
        /\ \/ /\ k = 7 /\ faults' = [faults EXCEPT !["reset"] = @ - 1] /\ screen' = "wizard"
           \/ /\ k # 7 /\ faults["torn"] > 0 /\ screen' = screen
              /\ faults' = [faults EXCEPT !["reset"] = @ - 1, !["torn"] = @ - 1]
  <2>1. Len(WipeOrder) = 7
    BY DEF WipeOrder
  <2> QED
    BY <2>1 DEF ResetDashboard
<1>4. /\ keystore' = [e \in Entries |-> keystore'[e]]
      /\ \A e \in Entries : keystore'[e] \in (IF e = "wrapped.pass" THEN Blob ELSE Nat)
      /\ k = 0 => keystore' = keystore
      /\ k >= 1 => keystore'["device.id"] = Absent
      /\ k = 7 => keystore' = EmptyKeystore
  BY <1>3, WipedIs DEF IInv
<1>5. faults' \in [Faults -> Nat] /\ faults'["reset"] = faults["reset"] - 1
  BY <1>2, <1>3 DEF Faults
<1>6. TypeOK'
  <2>1. WizardTypes'
    BY <1>1, <1>3, <1>5 DEF IInv, TypeOK, WizardTypes
  <2>2. EffectTypes'
    BY <1>1, <1>4 DEF IInv, TypeOK, EffectTypes
  <2> QED
    BY <1>1, <2>1, <2>2, CloudFrame DEF IInv, TypeOK
<1>7. Staged' /\ Provisioned' /\ Enrolled' /\ UsableWhenLive'
  BY <1>1 DEF IInv, Staged, Provisioned, Enrolled, UsableWhenLive, project, here, blob
<1>8. ASSUME KInv PROVE KInv'
  <2>1. faults["torn"] <= 1
    BY <1>2, <1>8 DEF KInv, TornMet
  <2>2. CASE k = 7
    <3>1. faults'["torn"] = faults["torn"]
      BY <1>2, <1>3, <2>2 DEF Faults
    <3>2. Blank'
      BY <1>4, <2>2, EntryNames DEF Blank, HasWrap, EmptyKeystore, Entries
    <3> QED
      BY <2>1, <3>1, <3>2 DEF KInv, KeysKept, TornMet
  <2>3. CASE k # 7
    <3>1. faults'["torn"] = 0 /\ faults["torn"] # 0 /\ screen' = screen
      BY <1>2, <1>3, <2>1, <2>3 DEF Faults
    <3>2. TornMet'
      BY <3>1 DEF TornMet
    <3>3. CASE k = 0
      <4>1. keystore' = keystore
        BY <1>4, <3>3
      <4>2. CASE Blank
        BY <1>2, <3>1, <3>2, <4>1, <4>2, KeystoreFrame DEF KInv, KeysKept, Blank
      <4>3. CASE Begun
        BY <1>1, <3>2, <4>1, <4>3, KeystoreFrame, ServedFrame DEF KInv, KeysKept, Begun, here
      <4>4. CASE Settled
        BY <1>1, <3>1, <3>2, <4>1, <4>4, KeystoreFrame, ServedFrame DEF KInv, KeysKept, Settled, OneKeyEverywhere
      <4> QED
        BY <1>8, <3>1, <4>2, <4>3, <4>4 DEF KInv, KeysKept, Wrecked
    <3>4. CASE k >= 1
      <4>1. ~currentCycle'
        BY <1>4, <3>4 DEF currentCycle
      <4> QED
        BY <3>1, <3>2, <4>1 DEF KInv, KeysKept, Wrecked
    <3> QED
      BY <3>3, <3>4
  <2> QED
    BY <2>2, <2>3
<1> QED
  BY <1>6, <1>7, <1>8 DEF IInv

-----------------------------------------------------------------------------
(* The theorems                                                            *)

\* A stutter changes nothing.
LEMMA StutterKeeps ==
  ASSUME UNCHANGED vars
  PROVE  (IInv => IInv') /\ (KInv => KInv')
<1>1. UNCHANGED <<screen, wizard, host, device, registered, provisioning, wrapping, keystore, neon, available, projects,
                  deployed, server, minted, faults, calm>>
  BY DEF vars, effects, vercel
<1>2. /\ WizardTypes => WizardTypes'
      /\ Staged => Staged'
      /\ Provisioned => Provisioned'
      /\ Enrolled => Enrolled'
      /\ UsableWhenLive => UsableWhenLive'
  BY <1>1 DEF WizardTypes, Staged, Provisioned, Enrolled, UsableWhenLive, project, here, blob
<1>3. KInv => KInv'
  BY <1>1, KeystoreFrame, ServedFrame
  DEF KInv, KeysKept, Blank, Begun, Settled, Wrecked, OneKeyEverywhere, TornMet, here, HasWrap
<1> QED
  BY <1>1, <1>2, <1>3, EffectFrame, CloudFrame DEF IInv, TypeOK

\* Every step keeps the invariants.
LEMMA NextKeeps ==
  ASSUME IInv, [Next]_vars
  PROVE  IInv' /\ (KInv => KInv')
<1>1. CASE ProbeFails \/ \E found \in SUBSET Companies : ProbeSucceeds(found)
  BY <1>1, ProbeMoves, MovesKeep DEF IInv
<1>2. CASE Retry \/ Continue \/ VerifyWords \/ RefusePassphrase \/ \E c \in Companies : SelectCompany(c)
  BY <1>2, OwnerMoves, MovesKeep DEF IInv
<1>3. CASE getState \/ IdentityFails \/ PrintEnds
  BY <1>3, HostMoves, MovesKeep DEF IInv
<1>4. CASE NeonInstalled \/ DatabaseStarts
  BY <1>4, VercelKeeps
<1>5. CASE \E n \in Names : PasteToken(n)
  BY <1>5, PasteTokenKeeps
<1>6. CASE IdentityReady \/ CallAnswered \/ ProvisionSucceeds \/ ProvisionFails
  BY <1>6, IdentityReadyKeeps, CallAnsweredKeeps, ProvisionSucceedsKeeps, ProvisionFailsKeeps
<1>7. CASE AcceptPassphrase \/ WrapIdentity \/ RegisterDevice \/ PutWrappedKeys \/ Persist
  BY <1>7, AcceptPassphraseKeeps, WrapIdentityKeeps, RegisterDeviceKeeps, PutWrappedKeysKeeps, PersistKeeps
<1>8. CASE Route \/ Quit \/ ResetDashboard
  BY <1>8, RouteKeeps, QuitKeeps, ResetDashboardKeeps
<1>9. CASE UNCHANGED vars
  BY <1>9, StutterKeeps
<1> QED
  BY <1>1, <1>2, <1>3, <1>4, <1>5, <1>6, <1>7, <1>8, <1>9 DEF Next, Host, Owner

\* A new installation, before anything was set up.
LEMMA InitKeeps == Init => IInv /\ Blank
<1> SUFFICES ASSUME Init PROVE IInv /\ Blank
  OBVIOUS
<1>1. /\ screen = "wizard" /\ wizard = NewWizard /\ host = kick(NewWizard, NewHost)
      /\ device = Absent /\ registered = FALSE /\ provisioning = Idle /\ wrapping = NotWrapping
      /\ keystore = EmptyKeystore /\ neon \in BOOLEAN /\ available = {}
      /\ projects = [n \in Names |-> NoProject]
      /\ deployed = [r \in Runs |-> NotDeployed] /\ server = [r \in Runs |-> EmptyServer]
      /\ minted = [identity |-> 0, device |-> 0, run |-> 0, wrap |-> 0]
      /\ faults \in Scenarios /\ calm \in BOOLEAN
  BY DEF Init
<1>2. /\ NewWizard \in WizardState /\ NewWizard.phase = "probing"
      /\ NewHost \in HostState /\ NewHost.flights = {} /\ NewHost.identity = Absent /\ NewHost.cloud = 0 /\ NewHost.sheet = 0
  BY OnboardingAssumption DEF NewWizard, WizardState, Phases, NewHost, HostState, Absent
<1>3. kick(NewWizard, NewHost) = [NewHost EXCEPT !.flights = @ \cup {"probe"}]
  BY <1>2 DEF kick
<1>4. host \in HostState /\ host.identity = Absent /\ host.cloud = 0 /\ host.sheet = 0 /\ host.flights = {"probe"}
  BY <1>1, <1>2, <1>3 DEF HostState
<1>5. keystore = [e \in Entries |-> IF e = "wrapped.pass" THEN NoBlob ELSE Absent]
  BY <1>1 DEF EmptyKeystore, Entries
<1>6. 0 \in Nat /\ 0 \in 0 .. MaxRuns /\ 0 \in 0 .. MaxWraps /\ NoBlob \in Blob
  BY OnboardingAssumption DEF NoBlob, Blob
<1>7. WizardTypes
  BY <1>1, <1>2, <1>4, <1>6, OnboardingAssumption DEF WizardTypes
<1>8. EffectTypes
  <2>1. \A e \in Entries : keystore[e] \in (IF e = "wrapped.pass" THEN Blob ELSE Nat)
    BY <1>5, <1>6 DEF Absent
  <2>2. wrapping \in [wrap : 0 .. MaxWraps, at : {"idle", "wrapIdentity", "registerDevice", "putWrappedKeys", "persist"}]
    BY <1>1, <1>6 DEF NotWrapping
  <2>3. device \in Nat /\ registered \in BOOLEAN /\ provisioning = Idle /\ keystore = [e \in Entries |-> keystore[e]]
    BY <1>1, <1>5 DEF Absent
  <2> QED
    BY <2>1, <2>2, <2>3 DEF EffectTypes
<1>9. CloudTypes
  <2>1. NoProject \in [exists : BOOLEAN, open : BOOLEAN, database : 0 .. MaxRuns, ready : BOOLEAN, env : 0 .. MaxRuns,
                       identity : Nat]
    BY <1>6 DEF NoProject
  <2>2. NotDeployed \in [live : BOOLEAN, name : Names \cup {NoOne}, database : 0 .. MaxRuns, ready : BOOLEAN,
                         env : 0 .. MaxRuns, identity : Nat]
    BY <1>6 DEF NotDeployed
  <2>3. EmptyServer \in [device : Nat, pass : Blob, recovery : Blob, credential : 0 .. MaxWraps]
    BY <1>6 DEF EmptyServer, Absent
  <2> QED
    BY <1>1, <2>1, <2>2, <2>3 DEF CloudTypes
<1>10. Staged
  BY <1>1, <1>2, <1>4 DEF Staged, Idle, NotWrapping, Finding, Building, Locking, Ending
<1>11. Provisioned /\ Enrolled /\ UsableWhenLive
  BY <1>1, <1>4 DEF Provisioned, Enrolled, UsableWhenLive, Idle, NotWrapping, AfterOpened, AfterDatabase, AfterConnect,
     AfterEnv, AfterDeploy
<1>12. Blank
  BY <1>5, EntryNames DEF Blank, HasWrap
<1> QED
  BY <1>7, <1>8, <1>9, <1>10, <1>11, <1>12 DEF IInv, TypeOK

\* Every variable keeps its type: the phases of the wizard, what the host holds, the project and its deployments,
\* the rows of the servers, the keystore.
THEOREM TypeCorrect == Spec => []TypeOK
<1>1. Init => IInv
  BY InitKeeps
<1>2. IInv /\ [Next]_vars => IInv'
  BY NextKeeps
<1>3. IInv => TypeOK
  BY DEF IInv
<1> QED
  BY <1>1, <1>2, <1>3, PTL DEF Spec

\* The server the wizard goes on with can be used, whatever went wrong before: it is open to the world, its
\* database had started, and it carries the secret, the tenant and the public key of this run (vercel.ts:551).
THEOREM UsableOnceLive == Spec => []UsableWhenLive
<1>1. Init => IInv
  BY InitKeeps
<1>2. IInv /\ [Next]_vars => IInv'
  BY NextKeeps
<1>3. IInv => UsableWhenLive
  BY DEF IInv
<1> QED
  BY <1>1, <1>2, <1>3, PTL DEF Spec

\* At most one write of the keystore is cut short, or nothing is ever reset: two writes cut short with a reset
\* between them do mix the entries of two setups (keystore.ts:240).
OneTear == \A f \in Scenarios : f["torn"] <= 1 \/ f["reset"] = 0

\* The keystore is empty, begun by this host, settled, or what a wipe left of it, as long as no two writes of it
\* are cut short around a reset.
LEMMA KeystoreInvariant == ASSUME OneTear PROVE Spec => [](IInv /\ KInv)
<1>1. Init => IInv /\ KInv
  BY InitKeeps DEF Init, OneTear, KInv, KeysKept, TornMet
<1>2. IInv /\ KInv /\ [Next]_vars => IInv' /\ KInv'
  BY NextKeeps
<1> QED
  BY <1>1, <1>2, PTL DEF Spec

\* A Bridge that can sync has a server that will have it: the server its keystore names has enrolled its device,
\* serves its tenant and holds both wrapped keys and a credential (wizard-effects.ts:211).
THEOREM SyncsEnrolled == ASSUME OneTear PROVE Spec => []SyncsOnlyWhenEnrolled
<1>1. IInv /\ KInv => SyncsOnlyWhenEnrolled
  <2> SUFFICES ASSUME IInv, KInv, currentCycle
               PROVE  LET r == keystore["server.url"]
                      IN  /\ server[r].device = keystore["device.sk"] /\ keystore["device.id"] = keystore["device.sk"]
                          /\ deployed[r].env = keystore["tenant.id"] /\ deployed[r].identity = keystore["identity.pk"]
                          /\ server[r].pass # NoBlob /\ server[r].recovery # NoBlob /\ server[r].credential # Absent
    BY DEF SyncsOnlyWhenEnrolled
  <2>1. Served
    BY DEF KInv, KeysKept, Blank, Begun, Settled, Wrecked, currentCycle
  <2> QED
    BY <2>1 DEF Served
<1> QED
  BY <1>1, KeystoreInvariant, PTL

\* One key here and there: the passphrase opens the same identity at the server and here, and the recovery sheet
\* on screen is the one of the blob the server holds (wizard-effects.ts:222).
THEOREM OneKey == ASSUME OneTear PROVE Spec => []OneKeyEverywhere
<1>1. IInv /\ KInv => OneKeyEverywhere
  BY DEF KInv, KeysKept, Blank, Begun, Settled, Wrecked, currentCycle, OneKeyEverywhere
<1> QED
  BY <1>1, KeystoreInvariant, PTL
=============================================================================
