----------------------------- MODULE Onboarding -----------------------------
(***************************************************************************)
(* Setting up: the wizard's state machine (next), the host that runs its   *)
(* effects (WizardHostMain), the effects themselves (provision against     *)
(* Vercel, completeSetup against the new server), the keystore they end    *)
(* in, and "Reset dashboard", which wipes it.                              *)
(*                                                                         *)
(* One action is the code between two awaits.  A call to Vercel or to the  *)
(* new server can fail before it had its effect or after it; the process   *)
(* can die anywhere.  Keys, projects and wraps are named by number: each   *)
(* is minted afresh and none is ever minted twice.                         *)
(***************************************************************************)
EXTENDS Integers, Sequences, FiniteSets

CONSTANTS
  Companies,      \* the companies open in Tally
  Names,          \* project names safeProjectName may come up with
  MaxRuns, MaxWraps,      \* bounds: runs of provision, runs of completeSetup
  Scenarios       \* what may go wrong in a behaviour, and how often

Faults == {"refused", "keyFails", "payment", "lost", "lostEnrolment", "torn", "quit", "reset"}

ASSUME OnboardingAssumption ==
  /\ MaxRuns \in Nat \ {0} /\ MaxWraps \in Nat \ {0}
  /\ Scenarios \subseteq [Faults -> Nat]

Absent == 0                                      \* a number not there
NoBlob == [wrap |-> 0, identity |-> 0]
NoOne == "none"
Runs == 1 .. MaxRuns

VARIABLES
  screen,      \* who owns the window: "wizard" or "dashboard"
  wizard,      \* WizardState: phase, companies, company, identity (public key), opens (the problem's action is
               \* a page to open), printProblem
  host,        \* WizardHostMain: identity, cloud, sheet, flights
  device, registered,     \* the closure of createWizardEffects
  provisioning,           \* the run of provision under way
  wrapping,               \* the run of completeSetup under way
  keystore,
  neon,                   \* Neon is installed on the owner's Vercel account
  available,              \* runs whose database has started
  projects,               \* name -> the project on Vercel, or NoProject
  deployed,               \* run -> what that run deployed
  server,                 \* run -> the rows of the server deployed by it
  minted,                 \* numbers given out so far
  faults,                 \* what may still go wrong
  calm                    \* this behaviour's scenario has no fault that leaves the owner without a button (history)

vercel == <<neon, available, projects, deployed>>
effects == <<device, registered>>
vars == <<screen, wizard, host, effects, provisioning, wrapping, keystore, vercel, server, minted, faults, calm>>

NoProject == [exists |-> FALSE, open |-> FALSE, database |-> 0, ready |-> FALSE, env |-> 0, identity |-> 0]
NotDeployed == [live |-> FALSE, name |-> NoOne, database |-> 0, ready |-> FALSE, env |-> 0, identity |-> 0]
EmptyServer == [device |-> Absent, pass |-> NoBlob, recovery |-> NoBlob, credential |-> Absent]
Idle == [run |-> 0, name |-> NoOne, at |-> "idle"]
NotWrapping == [wrap |-> 0, at |-> "idle"]

KeystoreEntries == <<"device.id", "device.pk", "device.sk", "identity.pk", "tenant.id", "server.url", "wrapped.pass">>
WipeOrder == <<"device.id", "device.sk", "device.pk", "identity.pk", "tenant.id", "wrapped.pass", "server.url">>
EmptyKeystore == [e \in {KeystoreEntries[i] : i \in DOMAIN KeystoreEntries} |->
                    IF e = "wrapped.pass" THEN NoBlob ELSE Absent]
HasWrap == keystore["wrapped.pass"] # NoBlob

\* What the wizard is shown by, and what the cycle is built from.
isProvisioned == keystore["device.sk"] # Absent /\ keystore["identity.pk"] # Absent
currentCycle ==
  \A e \in {"identity.pk", "device.sk", "device.id", "tenant.id", "server.url"} : keystore[e] # Absent

Spend(f) == faults[f] > 0 /\ faults' = [faults EXCEPT ![f] = @ - 1]

-----------------------------------------------------------------------------
(* WizardHostMain: applying an event, then starting what the new state waits on *)

NewWizard == [phase |-> "probing", companies |-> {}, company |-> NoOne, identity |-> Absent,
              opens |-> FALSE, printProblem |-> FALSE]
NewHost == [identity |-> Absent, cloud |-> 0, sheet |-> 0, flights |-> {}]

\* kick: a state that waits on an effect starts it, unless it is in flight.
kick(w, h) ==
  [h EXCEPT !.flights = @ \cup (CASE w.phase = "probing" -> {"probe"}
                                  [] w.phase = "awaitIdentity" -> {"identity"}
                                  [] OTHER -> {})]

\* applyInternal: reaching done drops the identity, the sheet and the cloud.
Settle(w, h) ==
  /\ wizard' = w
  /\ host' = kick(w, IF w.phase = "done" THEN [h EXCEPT !.identity = Absent, !.cloud = 0, !.sheet = 0] ELSE h)

To(phase) == [wizard EXCEPT !.phase = phase]
Lands(flight) == [host EXCEPT !.flights = @ \ {flight}]

\* getState, which the renderer asks for once, when its window is opened: nudges an effect that is due.
getState ==
  /\ screen = "wizard"
  /\ kick(wizard, host) # host
  /\ host' = kick(wizard, host)
  /\ UNCHANGED <<screen, wizard, effects, provisioning, wrapping, keystore, vercel, server, minted, faults, calm>>

\* describeWizard: the intents each screen has a button for.
FindTallyScreen ==
  [probing |-> {}, waiting |-> {"retry"},
   ready |-> {"select_company"} \cup (IF wizard.company = NoOne THEN {} ELSE {"continue"})]
ConnectCloudScreen ==
  [awaitIdentity |-> {}, awaitToken |-> {"submit_token", "open"}, provisioning |-> {}, needsHuman |-> {"open"},
   cloudProblem |-> IF wizard.opens THEN {"open"} ELSE {"retry"}]
SetPassphraseScreen ==
  [entry |-> {"submit_passphrase"}, wrapping |-> {}, sheet |-> {"continue", "print"}, verify |-> {"submit_verify"},
   passProblem |-> {"retry"}, done |-> {"continue"}]
describeWizard ==
  CASE wizard.phase \in DOMAIN FindTallyScreen    -> FindTallyScreen[wizard.phase]
    [] wizard.phase \in DOMAIN ConnectCloudScreen -> ConnectCloudScreen[wizard.phase]
    [] OTHER                                      -> SetPassphraseScreen[wizard.phase]

Sent(intent) == screen = "wizard" /\ intent \in describeWizard

outside == <<effects, provisioning, wrapping, keystore, vercel, server, minted, calm>>

-----------------------------------------------------------------------------
(* Screen 1: find Tally *)

\* probe_succeeded; one company is selected for the owner.
ProbeSucceeds(found) ==
  /\ "probe" \in host.flights
  /\ Settle(IF found = {} THEN To("waiting")
            ELSE [To("ready") EXCEPT !.companies = found,
                    !.company = IF Cardinality(found) = 1 THEN CHOOSE c \in found : TRUE ELSE NoOne],
            Lands("probe"))
  /\ UNCHANGED <<screen, outside, faults>>

\* probe_failed: describeTally's waiting or problem, both left by "retry".
ProbeFails ==
  /\ "probe" \in host.flights
  /\ Spend("refused")
  /\ Settle(To("waiting"), Lands("probe"))
  /\ UNCHANGED <<screen, outside>>

\* retry: a new probe while none is in flight; the button of every problem screen.
Retry ==
  /\ Sent("retry")
  /\ \/ wizard.phase = "waiting" /\ Settle(To("probing"), host)
     \/ wizard.phase = "cloudProblem" /\ Settle(To("awaitToken"), host)
     \/ wizard.phase = "passProblem" /\ Settle(To("entry"), host)
  /\ UNCHANGED <<screen, outside, faults>>

SelectCompany(c) ==
  /\ Sent("select_company") /\ c \in wizard.companies /\ c # wizard.company
  /\ Settle([wizard EXCEPT !.company = c], host)
  /\ UNCHANGED <<screen, outside, faults>>

\* continue: onward from the company list, and from the recovery sheet.
Continue ==
  /\ Sent("continue")
  /\ \/ /\ wizard.phase = "ready" /\ wizard.company \in wizard.companies
        /\ Settle([To("awaitIdentity") EXCEPT !.companies = {}], host)
     \/ wizard.phase = "sheet" /\ Settle(To("verify"), host)
  /\ UNCHANGED <<screen, outside, faults>>

\* runIdentity: the one key pair of this host, made before anything is provisioned.
IdentityReady ==
  /\ "identity" \in host.flights
  /\ LET id == IF host.identity = Absent THEN minted.identity + 1 ELSE host.identity
     IN  /\ Settle([To("awaitToken") EXCEPT !.identity = id], [Lands("identity") EXCEPT !.identity = id])
         /\ minted' = [minted EXCEPT !.identity = IF id > @ THEN id ELSE @]
  /\ UNCHANGED <<screen, effects, provisioning, wrapping, keystore, vercel, server, faults, calm>>

\* The wizard stays at awaitIdentity, a screen without a button, until the next getState.
IdentityFails ==
  /\ "identity" \in host.flights
  /\ Spend("keyFails")
  /\ host' = Lands("identity")
  /\ UNCHANGED <<screen, wizard, outside>>

-----------------------------------------------------------------------------
(* Screen 2: provision *)

\* A mutant: the environment is set after the deployment that was to carry it.
CallsDeployedEarly ==
  <<"verifyToken", "findNeon", "awaitNeon", "ensureProject", "disableProtection", "provisionNeon",
    "awaitDatabase", "connectDatabase", "uploadFiles", "deploy", "setEnv", "awaitDeploy", "verifyLive">>

\* The calls of provision, in its order.
Calls == <<"verifyToken", "findNeon", "awaitNeon", "ensureProject", "disableProtection", "provisionNeon",
           "awaitDatabase", "connectDatabase", "setEnv", "uploadFiles", "deploy", "awaitDeploy", "verifyLive">>

After(call) == Calls[1 + CHOOSE i \in DOMAIN Calls : Calls[i] = call]

project == projects[provisioning.name]

\* token_pasted: a new tenant and secret, and a project name with a random suffix.
PasteToken(name) ==
  /\ Sent("submit_token") /\ minted.run < MaxRuns
  /\ minted' = [minted EXCEPT !.run = @ + 1]
  /\ provisioning' = [run |-> minted'.run, name |-> name, at |-> "verifyToken"]
  /\ Settle(To("provisioning"), host)
  /\ UNCHANGED <<screen, effects, wrapping, keystore, vercel, server, faults, calm>>

\* What the three calls that poll wait for.
awaitNeonInstall == neon
awaitDatabaseReady == provisioning.run \in available
verifyLive == deployed[provisioning.run].live /\ project.open

Answers(call) ==
  /\ call = "awaitNeon" => awaitNeonInstall
  /\ call = "awaitDatabase" => awaitDatabaseReady
  /\ call = "verifyLive" => verifyLive

\* ensureProject adopts the project an earlier run left under this name.
ensureProject(p) == [p EXCEPT !.exists = TRUE]
disableDeploymentProtection(p) == [p EXCEPT !.open = TRUE]
connectDatabase(p) ==
  [p EXCEPT !.database = provisioning.run, !.ready = provisioning.run \in available]
setEnv(p) == [p EXCEPT !.env = provisioning.run, !.identity = wizard.identity]

\* A deployment keeps the environment and the database it was deployed with.
deploy(p) ==
  [live |-> TRUE, name |-> provisioning.name, database |-> p.database,
   ready |-> p.ready, env |-> p.env, identity |-> p.identity]

Effect(call) ==
  /\ projects' = [projects EXCEPT ![provisioning.name] =
       CASE call = "ensureProject"     -> ensureProject(@)
         [] call = "disableProtection" -> disableDeploymentProtection(@)
         [] call = "connectDatabase"   -> connectDatabase(@)
         [] call = "setEnv"            -> setEnv(@)
         [] OTHER                      -> @]
  /\ deployed' = IF call = "deploy" THEN [deployed EXCEPT ![provisioning.run] = deploy(project)] ELSE deployed
  /\ UNCHANGED <<neon, available>>

\* A call is answered; awaitNeon is skipped when Neon is there, and shows needs_human when not.
CallAnswered ==
  LET call == provisioning.at
      next == IF call = "findNeon" /\ neon THEN After("awaitNeon") ELSE After(call)
  IN  /\ call \notin {"idle", "verifyLive"} /\ Answers(call)
      /\ Effect(call)
      /\ provisioning' = [provisioning EXCEPT !.at = next]
      /\ Settle(To(IF next = "awaitNeon" THEN "needsHuman" ELSE "provisioning"), host)
      /\ UNCHANGED <<screen, effects, wrapping, keystore, server, minted, faults, calm>>

\* verifyLive got its {ok: true}: provision_succeeded.
ProvisionSucceeds ==
  /\ provisioning.at = "verifyLive" /\ Answers("verifyLive")
  /\ provisioning' = Idle
  /\ Settle(To("entry"), [host EXCEPT !.cloud = provisioning.run])
  /\ UNCHANGED <<screen, effects, wrapping, keystore, vercel, server, minted, faults, calm>>

\* actionForVercelError: two failures whose one action is a page to open.
OpensAPage == provisioning.at \in {"awaitNeon", "provisionNeon"} /\ Spend("payment")

\* A call is refused, times out, or is executed and its answer lost: provision_failed.
ProvisionFails ==
  /\ provisioning.at # "idle"
  /\ provisioning' = Idle
  /\ \/ /\ OpensAPage /\ UNCHANGED vercel
        /\ Settle([To("cloudProblem") EXCEPT !.opens = TRUE], host)
     \/ /\ \/ Spend("refused") /\ UNCHANGED vercel
           \/ Spend("lost") /\ Answers(provisioning.at) /\ Effect(provisioning.at)
        /\ Settle(To("cloudProblem"), host)
  /\ UNCHANGED <<screen, effects, wrapping, keystore, server, minted, calm>>

\* The owner clicks Install; Neon brings the database up.
NeonInstalled ==
  /\ provisioning.at = "awaitNeon" /\ ~neon /\ neon' = TRUE
  /\ UNCHANGED <<screen, wizard, host, effects, provisioning, wrapping, keystore, available, projects, deployed,
                 server, minted, faults, calm>>
DatabaseStarts ==
  /\ provisioning.at = "awaitDatabase" /\ provisioning.run \notin available
  /\ available' = available \cup {provisioning.run}
  /\ UNCHANGED <<screen, wizard, host, effects, provisioning, wrapping, keystore, neon, projects, deployed,
                 server, minted, faults, calm>>

-----------------------------------------------------------------------------
(* Screen 3: completeSetup *)

\* passphrase_submitted, and checkPassphrase refuses it.
RefusePassphrase ==
  /\ Sent("submit_passphrase")
  /\ Settle(To("passProblem"), host)
  /\ UNCHANGED <<screen, outside, faults>>

\* passphrase_submitted, and a run of completeSetup begins.  The device is minted once for all of them.
AcceptPassphrase ==
  /\ Sent("submit_passphrase") /\ minted.wrap < MaxWraps
  /\ Settle(To("wrapping"), host)
  /\ device' = IF device = Absent THEN minted.device + 1 ELSE device
  /\ minted' = [minted EXCEPT !.wrap = @ + 1, !.device = IF device' > @ THEN device' ELSE @]
  /\ wrapping' = [wrap |-> minted'.wrap, at |-> "wrapIdentity"]
  /\ UNCHANGED <<screen, registered, provisioning, keystore, vercel, server, faults, calm>>

\* A mutant: the keystore is written before the wrapped keys are put.
FollowsStoredFirst(step) ==
  CASE step = "wrapIdentity"   -> IF registered THEN "persist" ELSE "registerDevice"
    [] step = "registerDevice" -> "persist"
    [] OTHER                   -> "idle"

\* A mutant: a retry enrols once more.
FollowsKnocksAgain(step) ==
  CASE step = "wrapIdentity"   -> "registerDevice"
    [] step = "registerDevice" -> "putWrappedKeys"
    [] step = "putWrappedKeys" -> "persist"
    [] OTHER                   -> "idle"

\* The enrolment is knocked for once, the keystore is written last.
Follows(step) ==
  CASE step = "wrapIdentity"   -> IF registered THEN "putWrappedKeys" ELSE "registerDevice"
    [] step = "registerDevice" -> "putWrappedKeys"
    [] step = "putWrappedKeys" -> "persist"
    [] OTHER                   -> "idle"

Step(step) == wrapping.at = step
Proceed == wrapping' = [wrapping EXCEPT !.at = Follows(@)]
WrapFails == wrapping' = NotWrapping /\ Settle(To("passProblem"), host)
blob == [wrap |-> wrapping.wrap, identity |-> host.identity]
here == host.cloud

WrapIdentity ==
  /\ Step("wrapIdentity")
  /\ \/ Proceed /\ UNCHANGED <<wizard, host, faults>>
     \/ Spend("refused") /\ WrapFails
  /\ UNCHANGED <<screen, effects, provisioning, keystore, vercel, server, minted, calm>>

\* The server's side: the bootstrap secret and tenant it was deployed with, good for one device.
Enrols == deployed[here].env = here /\ server[here].device = Absent

RegisterDevice ==
  /\ Step("registerDevice")
  /\ \/ /\ Enrols
        /\ server' = [server EXCEPT ![here].device = device]
        /\ \/ registered' = TRUE /\ Proceed /\ UNCHANGED <<wizard, host, faults>>
           \/ Spend("lostEnrolment") /\ WrapFails /\ UNCHANGED registered
     \/ ~Enrols /\ WrapFails /\ UNCHANGED <<registered, server, faults>>
     \/ Spend("refused") /\ WrapFails /\ UNCHANGED <<registered, server>>
  /\ UNCHANGED <<screen, device, provisioning, keystore, vercel, minted, calm>>

\* A mutant: a blob that is there is not replaced.
StoredOnce(s, k) ==
  [s EXCEPT !.pass = IF k >= 1 /\ @ = NoBlob THEN blob ELSE @,
            !.recovery = IF k >= 2 /\ @ = NoBlob THEN blob ELSE @,
            !.credential = IF k >= 3 THEN wrapping.wrap ELSE @]

\* storeWrappedKeys after its first k statements: pass, recovery, credential.
Stored(s, k) ==
  [s EXCEPT !.pass = IF k >= 1 THEN blob ELSE @,
            !.recovery = IF k >= 2 THEN blob ELSE @,
            !.credential = IF k >= 3 THEN wrapping.wrap ELSE @]

PutWrappedKeys ==
  /\ Step("putWrappedKeys") /\ server[here].device = device
  /\ \/ Proceed /\ server' = [server EXCEPT ![here] = Stored(@, 3)] /\ UNCHANGED <<wizard, host, faults>>
     \/ /\ Spend("lost") /\ WrapFails
        /\ \E k \in 1 .. 3 : server' = [server EXCEPT ![here] = Stored(@, k)]
     \/ Spend("refused") /\ WrapFails /\ UNCHANGED server
  /\ UNCHANGED <<screen, effects, provisioning, keystore, vercel, minted, calm>>

\* The first k writes of the commit.
Value(e) ==
  CASE e \in {"device.id", "device.pk", "device.sk"} -> device
    [] e = "identity.pk" -> host.identity
    [] e = "wrapped.pass" -> blob
    [] OTHER -> here
Written(k) ==
  [e \in DOMAIN keystore |->
     IF \E i \in 1 .. k : KeystoreEntries[i] = e THEN Value(e) ELSE keystore[e]]

-----------------------------------------------------------------------------
(* The process, the window and the end of setup *)

\* A new process: the wizard is back at its beginning and has forgotten device, identity, cloud and sheet.
Starts ==
  /\ screen' = IF isProvisioned' THEN "dashboard" ELSE "wizard"
  /\ wizard' = NewWizard
  /\ host' = IF isProvisioned' THEN NewHost ELSE kick(NewWizard, NewHost)
  /\ device' = Absent /\ registered' = FALSE
  /\ provisioning' = Idle /\ wrapping' = NotWrapping
  /\ UNCHANGED <<vercel, server, minted, calm>>

\* The last step of completeSetup, seven writes in one go: done, cut short by one that throws, or by the end
\* of the process.
Persist ==
  /\ Step("persist")
  /\ \/ /\ keystore' = Written(Len(KeystoreEntries))
        /\ Proceed
        /\ Settle(To("sheet"), [host EXCEPT !.sheet = wrapping.wrap])
        /\ UNCHANGED <<screen, effects, provisioning, vercel, server, minted, faults, calm>>
     \/ /\ Spend("torn")
        /\ \E k \in 0 .. Len(KeystoreEntries) - 1 : keystore' = Written(k)
        /\ \/ WrapFails /\ UNCHANGED <<screen, effects, provisioning, vercel, server, minted, calm>>
           \/ Starts

\* printRecoverySheet ends; a failure annotates the sheet and leaves it on screen.
print_failed(w) == [w EXCEPT !.printProblem = TRUE]
PrintEnds ==
  /\ host.sheet # 0 /\ wizard.phase = "sheet"
  /\ \E w \in {print_failed(wizard), [wizard EXCEPT !.printProblem = FALSE]} : w # wizard /\ Settle(w, host)
  /\ UNCHANGED <<screen, outside, faults>>

\* verify_submitted with the right words.
VerifyWords ==
  /\ Sent("submit_verify")
  /\ Settle(To("done"), host)
  /\ UNCHANGED <<screen, outside, faults>>

\* onDone, or a new window: route() asks who owns the screen.
Route ==
  /\ \/ screen = "wizard" /\ wizard.phase = "done"
     \/ screen = "wizard" /\ isProvisioned
     \/ screen = "dashboard" /\ ~isProvisioned
  /\ screen' = IF isProvisioned THEN "dashboard" ELSE "wizard"
  /\ UNCHANGED <<wizard, host, outside, faults>>

Quit == Spend("quit") /\ UNCHANGED keystore /\ Starts

\* keystore.wipe after its first k deletions.
Wiped(k) ==
  [e \in DOMAIN keystore |->
     IF \E i \in 1 .. k : WipeOrder[i] = e THEN EmptyKeystore[e] ELSE keystore[e]]

\* resetDashboard, whole or cut short by a file that cannot be deleted.
ResetDashboard ==
  /\ screen = "dashboard" /\ faults["reset"] > 0
  /\ \/ /\ keystore' = Wiped(Len(WipeOrder))
        /\ faults' = [faults EXCEPT !["reset"] = @ - 1]
        /\ screen' = "wizard"
     \/ /\ faults["torn"] > 0
        /\ \E k \in 0 .. Len(WipeOrder) - 1 : keystore' = Wiped(k)
        /\ faults' = [faults EXCEPT !["reset"] = @ - 1, !["torn"] = @ - 1]
        /\ UNCHANGED screen
  /\ UNCHANGED <<wizard, host, effects, provisioning, wrapping, vercel, server, minted, calm>>

-----------------------------------------------------------------------------
Init ==
  /\ screen = "wizard"
  /\ wizard = NewWizard /\ host = kick(NewWizard, NewHost)
  /\ device = Absent /\ registered = FALSE
  /\ provisioning = Idle /\ wrapping = NotWrapping
  /\ keystore = EmptyKeystore
  /\ neon \in BOOLEAN /\ available = {}
  /\ projects = [n \in Names |-> NoProject]
  /\ deployed = [r \in Runs |-> NotDeployed]
  /\ server = [r \in Runs |-> EmptyServer]
  /\ minted = [identity |-> 0, device |-> 0, run |-> 0, wrap |-> 0]
  /\ faults \in Scenarios
  /\ calm = (\A f \in {"keyFails", "payment", "lostEnrolment", "torn", "reset"} : faults[f] = 0)

\* What the host does by itself, and what an owner who wants a dashboard does next.
Host ==
  \/ IdentityReady \/ CallAnswered \/ ProvisionSucceeds \/ DatabaseStarts
  \/ WrapIdentity \/ RegisterDevice \/ PutWrappedKeys \/ Persist
Owner ==
  \/ Retry \/ Continue \/ NeonInstalled \/ VerifyWords
  \/ \E n \in Names : PasteToken(n)
  \/ \E c \in Companies : wizard.company = NoOne /\ SelectCompany(c)

Next ==
  \/ Host \/ Owner \/ AcceptPassphrase \/ Route \/ getState
  \/ \E found \in SUBSET Companies : ProbeSucceeds(found)
  \/ \E c \in Companies : SelectCompany(c)
  \/ ProbeFails \/ IdentityFails \/ ProvisionFails
  \/ RefusePassphrase \/ PrintEnds \/ Quit \/ ResetDashboard

Spec == Init /\ [][Next]_vars

(* Effects the host has started run to their end.  The owner is one who goes on: opens Tally, presses the
   button of a problem screen, picks a company, installs Neon, gets the passphrase and the words right in
   the end.  Nothing is assumed of failures, quits and printers, nor that a window is closed and opened again. *)
Fairness ==
  /\ WF_vars(Host) /\ WF_vars(Owner) /\ WF_vars(Route)
  /\ SF_vars(ProbeSucceeds(Companies)) /\ SF_vars(AcceptPassphrase)

FairSpec == Spec /\ Fairness

-----------------------------------------------------------------------------
(* Properties *)

Phases ==
  {"probing", "waiting", "ready", "awaitIdentity", "awaitToken", "provisioning", "needsHuman", "cloudProblem",
   "entry", "wrapping", "sheet", "verify", "passProblem", "done"}
Blob == [wrap : 0 .. MaxWraps, identity : Nat]
Entries == {KeystoreEntries[i] : i \in DOMAIN KeystoreEntries}

WizardState ==
  [phase : Phases, companies : SUBSET Companies, company : Companies \cup {NoOne}, identity : Nat,
   opens : BOOLEAN, printProblem : BOOLEAN]
HostState ==
  [identity : Nat, cloud : 0 .. MaxRuns, sheet : 0 .. MaxWraps, flights : SUBSET {"probe", "identity"}]

\* Types of the wizard and its host.
WizardTypes ==
  /\ screen \in {"wizard", "dashboard"} /\ wizard \in WizardState /\ host \in HostState
  /\ minted \in [identity : Nat, device : Nat, run : 0 .. MaxRuns, wrap : 0 .. MaxWraps]
  /\ faults \in [Faults -> Nat] /\ calm \in BOOLEAN

\* Types of what an effect of the host works on.
EffectTypes ==
  /\ device \in Nat /\ registered \in BOOLEAN
  /\ \/ provisioning = Idle
     \/ provisioning \in [run : Runs, name : Names, at : {Calls[i] : i \in DOMAIN Calls}]
  /\ wrapping \in [wrap : 0 .. MaxWraps, at : {"idle", "wrapIdentity", "registerDevice", "putWrappedKeys", "persist"}]
  /\ keystore = [e \in Entries |-> keystore[e]]
  /\ \A e \in Entries : keystore[e] \in (IF e = "wrapped.pass" THEN Blob ELSE Nat)

\* Types of what exists on Vercel and on the servers deployed there.
CloudTypes ==
  /\ neon \in BOOLEAN /\ available \subseteq Runs
  /\ projects \in [Names -> [exists : BOOLEAN, open : BOOLEAN, database : 0 .. MaxRuns, ready : BOOLEAN,
                             env : 0 .. MaxRuns, identity : Nat]]
  /\ deployed \in [Runs -> [live : BOOLEAN, name : Names \cup {NoOne}, database : 0 .. MaxRuns, ready : BOOLEAN,
                            env : 0 .. MaxRuns, identity : Nat]]
  /\ server \in [Runs -> [device : Nat, pass : Blob, recovery : Blob, credential : 0 .. MaxWraps]]

\* Every variable has its type.
TypeOK == WizardTypes /\ EffectTypes /\ CloudTypes

(* "ORDER IS LOAD-BEARING" (vercel.ts:551): a deployment the wizard goes on with is open to the world, stands
   on a database that had started, and was deployed with the secret, the tenant and the public key of this very
   run and host, whatever earlier runs left behind on the project it adopted. *)
UsableWhenLive ==
  host.cloud # 0 =>
    LET d == deployed[host.cloud]
    IN  /\ d.live /\ d.ready /\ d.database = host.cloud /\ projects[d.name].open
        /\ d.env = host.cloud /\ d.identity = host.identity

(* "while the reverse order would leave a syncing Bridge whose every upload 401s" (wizard-effects.ts:211): as
   soon as the cycle can be built from the keystore, the server it names has enrolled that device, serves that
   tenant, was given that identity, and holds both wrapped keys and a credential to log in with. *)
SyncsOnlyWhenEnrolled ==
  currentCycle =>
    LET r == keystore["server.url"]
    IN  /\ server[r].device = keystore["device.sk"] /\ keystore["device.id"] = keystore["device.sk"]
        /\ deployed[r].env = keystore["tenant.id"] /\ deployed[r].identity = keystore["identity.pk"]
        /\ server[r].pass # NoBlob /\ server[r].recovery # NoBlob /\ server[r].credential # Absent

(* "a retry converges, it cannot interleave two runs" (wizard-effects.ts:222): the passphrase opens here and
   there the same identity the figures are sealed to, and the recovery sheet on screen is the one of the blob
   the server holds; every copy is of the one run of completeSetup that succeeded. *)
OneKeyEverywhere ==
  currentCycle /\ HasWrap =>
    LET s == server[keystore["server.url"]]
        b == keystore["wrapped.pass"]
    IN  /\ s.pass = b /\ s.recovery = b /\ s.credential = b.wrap
        /\ b.identity = keystore["identity.pk"]
        /\ host.sheet # 0 => host.sheet = b.wrap

(* "a fresh keypair would find the bootstrap door already closed and brick the setup" (wizard-effects.ts:119)
   does not happen: whatever is refused or lost on the way, a printer that fails included, an owner who goes
   on ends up with a keystore that is complete and the dashboard on screen.  Excepted are
   the failures after which no button leads on: of the key generation (no button at all until the window is
   opened again), one whose button opens a page, an enrolment whose answer is lost, a keystore write that
   throws; and a reset. *)
SetupCompletes == calm => <>[](currentCycle /\ HasWrap /\ screen = "dashboard")

=============================================================================
