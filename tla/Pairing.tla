------------------------------ MODULE Pairing ------------------------------
(***************************************************************************)
(* Adding a second computer: PairingService, which hands out a six digit   *)
(* code and takes claims on it, and the rosters of device keys: one that   *)
(* is extended by an admitted claim or shortened by a revocation makes the *)
(* next, from whichever bundle the caller has open.                        *)
(*                                                                         *)
(* issue() and claim() run one after the other on a promise queue; each    *)
(* awaits a hash in its middle.  cancel() is not queued.  The screens that *)
(* call the service are not part of the repository yet: who calls what,    *)
(* and when, is free here.                                                 *)
(***************************************************************************)
EXTENDS Integers, Sequences, FiniteSets, SequencesExt

CONSTANTS
  Computers,      \* computers, each with a device key
  First,          \* the one that ran the setup
  MAX_ATTEMPTS,   \* wrong claims a code takes
  MaxCodes        \* bound: codes issued

ASSUME PairingAssumption ==
  /\ First \in Computers
  /\ MAX_ATTEMPTS \in Nat \ {0}
  /\ MaxCodes \in Nat

VARIABLES
  codes,       \* the Pairings issued, in order: attempts, used, expired, and the claims compared (history)
  active,      \* which of them is in force, 0 for none
  calls,       \* the service's queue
  running,     \* the calls between their two halves
  admitting,   \* claims that succeeded, still with their callers
  published    \* the rosters made, in order: version, device keys, and those it descends from (history)

service == <<codes, active, calls, running>>
pairingVars == <<service, admitting, published>>

PairingTypeOK ==
  /\ codes \in Seq([attempts : Nat, used : Nat, expired : BOOLEAN, compared : Nat])
  /\ active \in 0 .. Len(codes)
  /\ \A i \in DOMAIN published :
       /\ published[i] \in [version : Nat \ {0}, devices : (SUBSET Computers) \ {{}}, over : SUBSET Nat]
       /\ published[i].over \subseteq 1 .. i - 1
  /\ admitting \subseteq Computers

-----------------------------------------------------------------------------
(* The service *)

issue == [op |-> "issue"]
claim(c, guess) == [op |-> "claim", by |-> c, guess |-> guess]

Ask(call) == calls' = Append(calls, call) /\ UNCHANGED <<codes, active, running, admitting, published>>

AskIssue ==
  /\ Len(codes) + Len(SelectSeq(calls \o running, LAMBDA x : x.op = "issue")) < MaxCodes
  /\ Ask(issue)

\* A computer types a code it was shown, perhaps an old one, or mistypes it (0).
AskClaim(c) == \E guess \in 0 .. Len(codes) : Ask(claim(c, guess))

\* A mutant: calls run side by side.
EachAtOnce == TRUE

\* The next call waits for the one before.
turn == running = <<>>

\* The refusals claimNow makes before it hashes anything.
Refuses == \/ active = 0
           \/ codes[active].used > 0
           \/ codes[active].attempts >= MAX_ATTEMPTS
           \/ codes[active].expired

\* A claim goes on with the code in force when it begins.
taken(call) == [op |-> "claim", by |-> call.by, guess |-> call.guess, code |-> active]

Begin ==
  /\ calls # <<>> /\ turn
  /\ calls' = Tail(calls)
  /\ running' = CASE Head(calls).op = "issue" -> Append(running, Head(calls))
                  [] Head(calls).op = "claim" /\ ~Refuses -> Append(running, taken(Head(calls)))
                  [] OTHER -> running
  /\ UNCHANGED <<codes, active, admitting, published>>

\* Where the awaited hash arrives.
Finish ==
  /\ running # <<>>
  /\ running' = Tail(running)
  /\ LET call == Head(running) IN
     \/ /\ call.op = "issue"
        /\ codes' = Append(codes, [attempts |-> 0, used |-> 0, expired |-> FALSE, compared |-> 0])
        /\ active' = Len(codes) + 1
        /\ UNCHANGED admitting
     \/ /\ call.op = "claim" /\ call.guess # call.code
        /\ codes' = [codes EXCEPT ![call.code].attempts = @ + 1, ![call.code].compared = @ + 1]
        /\ UNCHANGED <<active, admitting>>
     \/ /\ call.op = "claim" /\ call.guess = call.code
        /\ codes' = [codes EXCEPT ![call.code].used = @ + 1, ![call.code].compared = @ + 1]
        /\ admitting' = admitting \cup {call.by}
        /\ UNCHANGED active
  /\ UNCHANGED <<calls, published>>

Cancel == active # 0 /\ active' = 0 /\ UNCHANGED <<codes, calls, running, admitting, published>>

\* PAIRING_TTL passes.
Expire ==
  /\ active # 0 /\ ~codes[active].expired
  /\ codes' = [codes EXCEPT ![active].expired = TRUE]
  /\ UNCHANGED <<active, calls, running, admitting, published>>

-----------------------------------------------------------------------------
(* The roster *)

initialRoster == <<[version |-> 1, devices |-> {First}, over |-> {}]>>

\* A roster made from the i-th one.  Two of them made from one bundle have one version.
Remade(i, devices) ==
  [version |-> published[i].version + 1, devices |-> devices, over |-> published[i].over \cup {i}]

\* The key offered is admitted when its safety code is the one read out at the computer that claimed.  The
\* roster extended is the caller's, of the bundle that is open there.
admitPairedDevice(c, offered, i) ==
  /\ c \in admitting
  /\ admitting' = admitting \ {c}
  /\ published' = IF offered = c /\ offered \notin published[i].devices
                  THEN Append(published, Remade(i, published[i].devices \cup {offered}))
                  ELSE published
  /\ UNCHANGED service

\* Neither a computer that is not listed nor the last one can be revoked.
revokeDevice(c, i) ==
  /\ c \in published[i].devices /\ published[i].devices # {c}
  /\ published' = Append(published, Remade(i, published[i].devices \ {c}))
  /\ UNCHANGED <<service, admitting>>

PairingInit ==
  /\ codes = <<>> /\ active = 0 /\ calls = <<>> /\ running = <<>>
  /\ admitting = {} /\ published = initialRoster

-----------------------------------------------------------------------------

\* A code admits one computer at most, and closes after MAX_ATTEMPTS wrong
\* claims, however many claims are made at once and whatever is issued or
\* cancelled while one is being compared.
CodeWorksOnce ==
  \A i \in DOMAIN codes :
    /\ codes[i].used <= 1
    /\ codes[i].compared <= MAX_ATTEMPTS + codes[i].used
    /\ codes[i].used = 1 => codes[i].attempts < MAX_ATTEMPTS
=============================================================================
