------------------------------- MODULE Account -------------------------------
(***************************************************************************)
(* The doors of the server other than uploads: registration of the one     *)
(* device, the wrapped keys it stores, prelogin, login, logout, the reads  *)
(* of a session and the revocation of a device; with the lazy migration    *)
(* every request passes first (handleHttpRequest, createMigrator).         *)
(*                                                                         *)
(* As in Ingest one action is one SQL statement, which commits by itself,  *)
(* with the code up to the next one; a reservation is two, since what its  *)
(* snapshot sees is older than its row lock.  A request lives through one  *)
(* minute boundary at most.  A token, a salt and a wrapped key are named   *)
(* by the run of the setup wizard that made them: each run derives all of  *)
(* them afresh.  The deployment has one tenant, that of its one device.    *)
(***************************************************************************)
EXTENDS Integers, FiniteSets, Functions

CONSTANTS
  Executors,        \* requests being served at a time
  Instances,        \* function instances, each with a migration memo
  InstanceOf,       \* executor -> the instance it runs in
  Devices, Addresses, Runs, None,
  Requests,
  Scenarios,        \* how a behaviour begins, and how often each request may come in it
  MaxTime, MaxSessions, MaxFaults,     \* bounds of the model
  BOOTSTRAP_TTL, SESSION_IDLE_TIMEOUT, SESSION_ABSOLUTE_TTL, AUTH_WINDOW,
  CapPerAddress, CapOverall      \* door -> attempts in one AUTH_WINDOW

Doors == {"login", "prelogin"}
Times == 0 .. MaxTime
Tokens == 1 .. MaxSessions
Buckets == Doors \X (Addresses \cup {"all"})

ASSUME ParameterAssumption ==
  /\ IsFiniteSet(Executors) /\ Executors # {}
  /\ InstanceOf \in [Executors -> Instances]
  /\ {MaxTime, MaxSessions, MaxFaults, BOOTSTRAP_TTL} \subseteq Nat
  /\ {SESSION_IDLE_TIMEOUT, SESSION_ABSOLUTE_TTL, AUTH_WINDOW} \subseteq Nat \ {0}
  /\ CapPerAddress \in [Doors -> Nat] /\ CapOverall \in [Doors -> Nat]
  /\ Scenarios \subseteq [begin : {"fresh", "live"}, left : [Requests -> Nat]]
  /\ "all" \notin Addresses
  /\ 1 \in Runs
  /\ Devices # {}
  /\ None \notin Executors \cup Runs \cup Times
  /\ None \notin {"active", "revoked"}
  /\ None \notin Requests \cup [expires : Nat, seen : Times]

\* What a handler finds in a request, once the router and zod have read it.
ASSUME RequestAssumption ==
  \A r \in Requests :
    /\ r.kind \in Doors \cup {"register", "putWrappedKey", "wrappedKeys", "logout", "revokeDevice"}
    /\ r.kind \in {"register", "putWrappedKey", "revokeDevice"} => r.device \in Devices
    /\ r.kind = "putWrappedKey" => r.run \in Runs
    /\ r.kind \in Doors => r.address \in Addresses
    /\ r.kind \in {"wrappedKeys", "logout", "revokeDevice"} => r.token \in Tokens

VARIABLES
  now,
  schema,           \* the time bootstrap.created_at has, or None before the first migration
  consumed,         \* bootstrap.consumed_at is set
  device,           \* rows of device: id -> "active", "revoked" or None
  wrapped_key,      \* kind -> the run whose blob is stored, or None
  login_credential, \* the run whose token and salt are stored, or None
  session,          \* token -> [expires, seen] or None
  auth_window,      \* bucket -> time -> attempts
  memo,             \* instance -> createMigrator's promise: "none", "running", "done"
  pc, req,          \* executor -> the statement it is at, the request
  bucket, attempts, \* executor -> the time of its reservation's statement, the count it makes
  crossed,          \* executors that served their request when the clock last moved
  left, minted,     \* requests still to come, sessions minted
  faults,           \* failures so far
  granted,          \* token -> what its lifetime should be (history)
  loggedOut,        \* tokens a logout was answered for (history)
  solo, lastPut,    \* the PUT storing alone; the run of the last one to finish alone (history)
  stranded,         \* a stop came between the UPDATE of bootstrap and the INSERT of device (history)
  arrived,          \* executor -> the time of its first reservation (history)
  admitted          \* bucket -> time counted in -> attempts (history): of an address, those that
                    \* were counted on the overall meter; of the overall meter, those let through

tables == <<schema, consumed, device, wrapped_key, login_credential, session, auth_window>>
keyTables == <<wrapped_key, login_credential>>
bootTables == <<schema, consumed, device>>
metering == <<bucket, attempts, arrived>>
server == <<pc, req, memo, metering>>
keyHistory == <<solo, lastPut>>
history == <<granted, loggedOut, solo, lastPut, stranded, admitted>>
bounds == <<left, minted, faults>>
vars == <<now, crossed, tables, server, bounds, history>>

Init ==
  \E scenario \in Scenarios :
    LET live == scenario.begin = "live"    \* set up by run 1
    IN  /\ now = 0
        /\ crossed = {}
        /\ schema = IF live THEN 0 ELSE None
        /\ consumed = live
        /\ device = [d \in Devices |-> IF live /\ d = (CHOOSE e \in Devices : TRUE) THEN "active" ELSE None]
        /\ wrapped_key = [kind \in {"pass", "recovery"} |-> IF live THEN 1 ELSE None]
        /\ login_credential = IF live THEN 1 ELSE None
        /\ session = [t \in Tokens |-> None]
        /\ auth_window = [b \in Buckets |-> [m \in Times |-> 0]]
        /\ memo = [i \in Instances |-> IF live THEN "done" ELSE "none"]
        /\ pc = [x \in Executors |-> "idle"]
        /\ req = [x \in Executors |-> None]
        /\ left = scenario.left /\ minted = 0 /\ faults = 0
        /\ granted = [t \in Tokens |-> None]
        /\ loggedOut = {}
        /\ solo = None
        /\ lastPut = IF live THEN 1 ELSE None
        /\ stranded = FALSE
        /\ admitted = [b \in Buckets |-> [m \in Times |-> 0]]
        /\ bucket = [x \in Executors |-> 0] /\ attempts = bucket /\ arrived = bucket

-----------------------------------------------------------------------------
At(x, statement) == pc[x] = statement

Goto(x, statement) ==
  /\ pc' = [pc EXCEPT ![x] = statement]
  /\ UNCHANGED <<req, memo, metering>>

\* The locals of a reservation are gone.
Drop(xs) ==
  /\ bucket' = [x \in Executors |-> IF x \in xs THEN 0 ELSE bucket[x]]
  /\ attempts' = [x \in Executors |-> IF x \in xs THEN 0 ELSE attempts[x]]
  /\ arrived' = [x \in Executors |-> IF x \in xs THEN 0 ELSE arrived[x]]

\* The handler returns.  What it answers changes nothing here; the code says which
\* of its returns this is.
Answer(x, code) ==
  /\ pc' = [pc EXCEPT ![x] = "idle"]
  /\ req' = [req EXCEPT ![x] = None]
  /\ Drop({x})
  /\ UNCHANGED memo

\* The first statement of the handler behind each route; 'session' routes pass
\* the router's own gate first, whose lookup the handler's check reuses.
First(r) ==
  CASE r.kind = "register"              -> "bootstrapConsumed"
    [] r.kind = "putWrappedKey"         -> "verifyRequest"
    [] r.kind \in Doors                 -> "meterAddress"
    [] r.kind \in {"wrappedKeys", "logout", "revokeDevice"} -> "requireSession"

\* A request reaches an instance and joins the migration, if it is not done.
handleHttpRequest(x, r) ==
  LET i == InstanceOf[x]
  IN  /\ At(x, "idle")
      /\ left[r] > 0
      /\ left' = [left EXCEPT ![r] = @ - 1]
      /\ req' = [req EXCEPT ![x] = r]
      /\ crossed' = crossed \ {x}
      /\ pc' = [pc EXCEPT ![x] = IF memo[i] = "done" THEN First(r) ELSE "migrating"]
      /\ memo' = [memo EXCEPT ![i] = IF @ = "none" THEN "running" ELSE @]
      /\ UNCHANGED <<now, tables, metering, minted, faults, history>>

Waiting(i) == {x \in Executors : InstanceOf[x] = i /\ At(x, "migrating")}

\* One transaction under the advisory lock; every statement is idempotent, so
\* the one shot of an older deployment is not handed out again.
runMigrations(i) ==
  /\ memo[i] = "running"
  /\ memo' = [memo EXCEPT ![i] = "done"]
  /\ schema' = IF schema = None THEN now ELSE schema
  /\ pc' = [x \in Executors |-> IF x \in Waiting(i) THEN First(req[x]) ELSE pc[x]]
  /\ UNCHANGED <<now, crossed, consumed, device, keyTables, session, auth_window, req, metering, bounds, history>>

\* A mutant: the failure is swallowed, and the promise that is kept has settled well.
Swallows(i) == [memo EXCEPT ![i] = "done"]

Forgets(i) == [memo EXCEPT ![i] = "none"]

Refuse500(xs) ==
  /\ pc' = [x \in Executors |-> IF x \in xs THEN "idle" ELSE pc[x]]
  /\ req' = [x \in Executors |-> IF x \in xs THEN None ELSE req[x]]
  /\ Drop(xs)

migrationFails(i) ==
  /\ memo[i] = "running"
  /\ faults < MaxFaults
  /\ faults' = faults + 1
  /\ Refuse500(Waiting(i))
  /\ memo' = Forgets(i)
  /\ UNCHANGED <<now, crossed, tables, left, minted, history>>

\* The platform stops an instance; the next request finds a new one.
Recycle(i) ==
  LET running == {x \in Executors : InstanceOf[x] = i /\ ~At(x, "idle")}
  IN  /\ memo[i] # "none"
      /\ faults < MaxFaults
      /\ faults' = faults + 1
      /\ Refuse500(running)
      /\ memo' = [memo EXCEPT ![i] = "none"]
      /\ stranded' = (stranded \/ \E x \in running : At(x, "registerDevice"))
      /\ UNCHANGED <<now, crossed, tables, left, minted, granted, loggedOut, keyHistory, admitted>>

-----------------------------------------------------------------------------
(* POST /api/register *)

bootstrapConsumed(x) ==
  /\ At(x, "bootstrapConsumed")
  /\ IF consumed THEN Answer(x, 403) ELSE Goto(x, "bootstrapAgeMs")
  /\ UNCHANGED <<now, crossed, tables, bounds, history>>

\* Then the fields, the secret and the key, none of which costs a statement.
bootstrapAgeMs(x) ==
  /\ At(x, "bootstrapAgeMs")
  /\ \/ now - schema > BOOTSTRAP_TTL /\ Answer(x, 403)
     \/ now - schema <= BOOTSTRAP_TTL /\ ~req[x].wellFormed /\ Answer(x, 400)
     \/ now - schema <= BOOTSTRAP_TTL /\ req[x].wellFormed /\ ~req[x].secret /\ Answer(x, 403)
     \/ now - schema <= BOOTSTRAP_TTL /\ req[x].wellFormed /\ req[x].secret /\ Goto(x, "consumeBootstrap")
  /\ UNCHANGED <<now, crossed, tables, bounds, history>>

\* A mutant: the UPDATE without its condition, after the pre-check has passed.
WinsAlways == TRUE

Wins == ~consumed

consumeBootstrap(x) ==
  /\ At(x, "consumeBootstrap")
  /\ consumed' = TRUE
  /\ IF Wins THEN Goto(x, "registerDevice") ELSE Answer(x, 403)
  /\ UNCHANGED <<now, crossed, schema, device, keyTables, session, auth_window, bounds, history>>

registerDevice(x) ==
  /\ At(x, "registerDevice")     \* no ON CONFLICT: the table is empty
  /\ device[req[x].device] = None
  /\ device' = [device EXCEPT ![req[x].device] = "active"]
  /\ Answer(x, 200)
  /\ UNCHANGED <<now, crossed, schema, consumed, keyTables, session, auth_window, bounds, history>>

-----------------------------------------------------------------------------
(* PUT /api/wrapped-keys *)

\* The device door; what else it may refuse for is Ingest's matter.  Then the body.
verifyRequest(x) ==
  /\ At(x, "verifyRequest")
  /\ \/ device[req[x].device] = None /\ Answer(x, 401)
     \/ device[req[x].device] = "revoked" /\ Answer(x, 403)
     \/ device[req[x].device] = "active" /\ ~req[x].wellFormed /\ Answer(x, 400)
     \/ device[req[x].device] = "active" /\ req[x].wellFormed /\ Goto(x, "storePass")
  /\ UNCHANGED <<now, crossed, tables, bounds, history>>

StoreStatements == {"storePass", "storeRecovery", "storeCredential"}

\* A mutant: the credential is written before the recovery blob, and the last blob never.
NextStoreEarly(statement) ==
  IF statement = "storePass" THEN "storeCredential" ELSE "idle"

\* Blobs first, credential last.
NextStore(statement) ==
  CASE statement = "storePass"     -> "storeRecovery"
    [] statement = "storeRecovery" -> "storeCredential"
    [] OTHER                       -> "idle"

\* storeWrappedKeys: three upserts, each a statement of its own.
storeWrappedKeys(x) ==
  LET s == pc[x]
      run == req[x].run
      others == {y \in Executors \ {x} : pc[y] \in {NextStore("storePass"), NextStore("storeRecovery")}}
  IN  /\ s \in StoreStatements
      /\ wrapped_key' = CASE s = "storePass" -> [wrapped_key EXCEPT !["pass"] = run]
                          [] s = "storeRecovery" -> [wrapped_key EXCEPT !["recovery"] = run]
                          [] OTHER -> wrapped_key
      /\ login_credential' = IF s = "storeCredential" THEN run ELSE login_credential
      /\ IF NextStore(s) = "idle" THEN Answer(x, 200) ELSE Goto(x, NextStore(s))
      /\ solo' = IF s = "storePass" THEN (IF others = {} THEN x ELSE None) ELSE solo
      /\ lastPut' = CASE s = "storePass" -> None
                      [] NextStore(s) = "idle" -> IF solo = x THEN run ELSE None
                      [] OTHER -> lastPut
      /\ UNCHANGED <<now, crossed, bootTables, session, auth_window, bounds, granted, loggedOut, stranded, admitted>>

-----------------------------------------------------------------------------
(* GET /api/prelogin, POST /api/login *)

\* The buckets of the trailing hour before the current one.
Earlier(t) == {m \in Times : m < t /\ m > t - AUTH_WINDOW}

\* A mutant: the meter over all addresses comes first.
ScopesSwapped(x) == IF pc[x] \in {"meterAddress", "addressLock"} THEN "all" ELSE req[x].address

Scope(x) == IF pc[x] \in {"meterAddress", "addressLock"} THEN req[x].address ELSE "all"

Meter(x) == <<req[x].kind, Scope(x)>>

CapOf(b) == IF b[2] = "all" THEN CapOverall[b[1]] ELSE CapPerAddress[b[1]]

\* reserveAuthAttempt is the upload_window mechanism on another table: one statement,
\* in two steps.  It fixes now() and sums the earlier buckets from its snapshot, which
\* misses an attempt still in flight across a boundary...
reserveAuthAttempt(x) ==
  /\ pc[x] \in {"meterAddress", "meterAll"}
  /\ pc' = [pc EXCEPT ![x] = IF @ = "meterAddress" THEN "addressLock" ELSE "allLock"]
  /\ bucket' = [bucket EXCEPT ![x] = now]
  /\ attempts' = [attempts EXCEPT ![x] = SumFunctionOnSet(auth_window[Meter(x)], Earlier(now))]
  /\ arrived' = IF At(x, "meterAddress") THEN [arrived EXCEPT ![x] = now] ELSE arrived
  /\ UNCHANGED <<now, crossed, tables, req, memo, bounds, history>>

\* What the overall meter counts, and what it lets through.
CountAll(x, passes) ==
  LET counted == [admitted EXCEPT ![<<req[x].kind, req[x].address>>][arrived[x]] = @ + 1]
  IN  admitted' = IF passes THEN [counted EXCEPT ![Meter(x)][bucket[x]] = @ + 1] ELSE counted

\* ...then adds its own bucket's count, exact because the row is locked.  overLimit
\* judges that, once for the address and once for all; then the body is parsed.
overLimit(x) ==
  LET over == attempts[x] + auth_window'[Meter(x)][bucket[x]] > CapOf(Meter(x))
      last == At(x, "allLock")
  IN  /\ pc[x] \in {"addressLock", "allLock"}
      /\ auth_window' = [auth_window EXCEPT ![Meter(x)][bucket[x]] = @ + 1]
      /\ \/ over /\ Answer(x, 429)
         \/ ~over /\ ~last /\ Goto(x, "meterAll")
         \/ ~over /\ last /\ req[x].wellFormed /\ Goto(x, "getLoginCredential")
         \/ ~over /\ last /\ ~req[x].wellFormed /\ Answer(x, 400)
      /\ IF Scope(x) = "all" THEN CountAll(x, ~over) ELSE UNCHANGED admitted
      /\ UNCHANGED <<now, crossed, bootTables, keyTables, session, bounds, granted, loggedOut, keyHistory, stranded>>

\* prelogin answers with a salt, the credential's or a decoy; login compares.
getLoginCredential(x) ==
  /\ At(x, "getLoginCredential")
  /\ \/ req[x].kind = "prelogin" /\ Answer(x, 200)
     \/ req[x].kind = "login" /\ login_credential # req[x].run /\ Answer(x, 401)
     \/ req[x].kind = "login" /\ login_credential = req[x].run /\ Goto(x, "createSession")
  /\ UNCHANGED <<now, crossed, tables, bounds, history>>

Swept(row) == row.expires < now \/ row.seen < now - SESSION_IDLE_TIMEOUT

createSession(x) ==
  LET token == minted + 1
      row == [expires |-> now + SESSION_ABSOLUTE_TTL, seen |-> now]
  IN  /\ At(x, "createSession")
      /\ minted < MaxSessions
      /\ minted' = token
      /\ session' = [t \in Tokens |-> IF t = token THEN row
                                      ELSE IF session[t] # None /\ Swept(session[t]) THEN None
                                      ELSE session[t]]
      /\ granted' = [granted EXCEPT ![token] = row]
      /\ Answer(x, 200)
      /\ UNCHANGED <<now, crossed, bootTables, keyTables, auth_window, left, faults, loggedOut, keyHistory, stranded, admitted>>

-----------------------------------------------------------------------------
(* Behind a session *)

Valid(row) == row # None /\ row.expires > now /\ row.seen > now - SESSION_IDLE_TIMEOUT

AfterSession(r) ==
  CASE r.kind = "wrappedKeys"  -> "getWrappedKeys"
    [] r.kind = "logout"       -> "deleteSession"
    [] r.kind = "revokeDevice" -> "revokeDevice"

\* One UPDATE ... RETURNING is the check and the slide of the idle timeout.
requireSession(x) ==
  LET t == req[x].token
  IN  /\ At(x, "requireSession")
      /\ \/ /\ ~Valid(session[t])
            /\ Answer(x, 401)
            /\ UNCHANGED <<session, granted>>
         \/ /\ Valid(session[t])
            /\ Goto(x, AfterSession(req[x]))
            /\ session' = [session EXCEPT ![t].seen = now]
            /\ granted' = [granted EXCEPT ![t].seen = now]
      /\ UNCHANGED <<now, crossed, bootTables, keyTables, auth_window, bounds, loggedOut, keyHistory, stranded, admitted>>

getWrappedKeys(x) ==
  /\ At(x, "getWrappedKeys")
  /\ Answer(x, 200)
  /\ UNCHANGED <<now, crossed, tables, bounds, history>>

\* A mutant: logout clears the cookie and leaves the row.
CookieOnly(t) == session

WithoutRow(t) == [session EXCEPT ![t] = None]

deleteSession(x) ==
  /\ At(x, "deleteSession")
  /\ session' = WithoutRow(req[x].token)
  /\ loggedOut' = loggedOut \cup {req[x].token}
  /\ Answer(x, 200)
  /\ UNCHANGED <<now, crossed, bootTables, keyTables, auth_window, bounds, granted, keyHistory, stranded, admitted>>

\* handleRevokeDevice: the owner of the device, then the UPDATE; another tenant's
\* device and an unknown one are the same 404.
revokeDevice(x) ==
  LET d == req[x].device
  IN  /\ At(x, "revokeDevice")
      /\ \/ device[d] = None /\ Answer(x, 404) /\ UNCHANGED device
         \/ device[d] # None /\ Answer(x, 200) /\ device' = [device EXCEPT ![d] = "revoked"]
      /\ UNCHANGED <<now, crossed, schema, consumed, keyTables, session, auth_window, bounds, history>>

-----------------------------------------------------------------------------
Statements ==
  {"bootstrapConsumed", "bootstrapAgeMs", "consumeBootstrap", "registerDevice", "verifyRequest",
   "meterAddress", "addressLock", "meterAll", "allLock", "getLoginCredential", "createSession", "requireSession",
   "getWrappedKeys", "deleteSession", "revokeDevice"} \cup StoreStatements

\* A statement fails.  A session that cannot be looked up is no session; anything
\* else is a 500.
Fails(x) ==
  /\ pc[x] \in Statements
  /\ faults < MaxFaults
  /\ faults' = faults + 1
  /\ Answer(x, IF At(x, "requireSession") THEN 401 ELSE 500)
  /\ stranded' = (stranded \/ At(x, "registerDevice"))
  /\ UNCHANGED <<now, crossed, tables, left, minted, granted, loggedOut, keyHistory, admitted>>

\* No request is served for long: the platform stops it.
Tick ==
  LET serving == {x \in Executors : ~At(x, "idle")}
  IN
  /\ now < MaxTime
  /\ serving \cap crossed = {}
  /\ crossed' = serving
  /\ now' = now + 1
  /\ UNCHANGED <<tables, server, bounds, history>>

Step(x) ==
  \/ \E r \in Requests : handleHttpRequest(x, r)
  \/ bootstrapConsumed(x) \/ bootstrapAgeMs(x) \/ consumeBootstrap(x) \/ registerDevice(x)
  \/ verifyRequest(x) \/ storeWrappedKeys(x)
  \/ reserveAuthAttempt(x) \/ overLimit(x) \/ getLoginCredential(x) \/ createSession(x)
  \/ requireSession(x) \/ getWrappedKeys(x) \/ deleteSession(x) \/ revokeDevice(x)
  \/ Fails(x)

Next ==
  \/ \E x \in Executors : Step(x)
  \/ \E i \in Instances : runMigrations(i) \/ migrationFails(i) \/ Recycle(i)
  \/ Tick

Spec == Init /\ [][Next]_vars

-----------------------------------------------------------------------------
Row == [expires : Nat, seen : Times]

\* The tables keep their types, and an executor at a statement has the request it
\* is about (schema.sql, and the handlers of auth.ts and read.ts).
TypeOK ==
  /\ now \in Times
  /\ schema \in Times \cup {None}
  /\ consumed \in BOOLEAN
  /\ device \in [Devices -> {"active", "revoked", None}]
  /\ wrapped_key \in [{"pass", "recovery"} -> Runs \cup {None}]
  /\ login_credential \in Runs \cup {None}
  /\ session \in [Tokens -> Row \cup {None}]
  /\ granted \in [Tokens -> Row \cup {None}]
  /\ auth_window \in [Buckets -> [Times -> Nat]]
  /\ memo \in [Instances -> {"none", "running", "done"}]
  /\ pc \in [Executors -> Statements \cup {"idle", "migrating"}]
  /\ req \in [Executors -> Requests \cup {None}]
  /\ crossed \subseteq Executors
  /\ left \in [Requests -> Nat]
  /\ {minted, faults} \subseteq Nat
  /\ loggedOut \subseteq Tokens
  /\ solo \in Executors \cup {None}
  /\ lastPut \in Runs \cup {None}
  /\ stranded \in BOOLEAN
  /\ bucket \in [Executors -> Times] /\ arrived \in [Executors -> Times]
  /\ attempts \in [Executors -> Nat]
  /\ admitted \in [Buckets -> [Times -> Nat]]

\* Two registrations that both pass the pre-check never both enrol.  The one shot is
\* spent by a request that goes on to enrol its device, or it was lost at one place
\* only: consumeBootstrap runs before registerDevice, and a stop or a failure between
\* the two spends it on nothing.
OneEnrolment ==
  /\ Cardinality({d \in Devices : device[d] # None}) <= 1
  /\ consumed =>
       \/ \E d \in Devices : device[d] # None
       \/ \E x \in Executors : At(x, "registerDevice")
       \/ stranded

\* "Degraded to one extra client-side Argon2id, not to a lockout; a retried PUT
\* heals it": a credential that lets a browser in finds both wrapped keys there,
\* and whatever earlier PUTs left half done, one that stores alone leaves the keys
\* and the credential of its own run.
KeysHeal ==
  /\ login_credential # None => None \notin {wrapped_key["pass"], wrapped_key["recovery"]}
  /\ lastPut # None => {wrapped_key["pass"], wrapped_key["recovery"], login_credential} = {lastPut}

InHour(m) == {k \in Times : k <= m /\ k > m - AUTH_WINDOW}

\* Over any hour of buckets a door lets through no more attempts than its overall cap
\* and those that can be in flight with the one counted last; and of what one address
\* sends in an hour, however often it tries, no more than its own cap and as many are
\* counted on the overall meter at all: it cannot close the door on the owner.
LoginCapsHold ==
  \A b \in Buckets, m \in Times :
    SumFunctionOnSet(admitted[b], InHour(m)) <= CapOf(b) + Cardinality(Executors) - 1

\* A request gets past the session gate exactly while the session it names was
\* granted, is not logged out, was used within the idle timeout and is younger
\* than the ceiling: the sweep of other people's logins neither ends a live session
\* nor lets a dead one live on, and no slide of the timeout revives a row that a
\* logout has deleted.
SessionExactlyWhileLive ==
  [][\A x \in Executors :
       LET t == req[x].token
       IN  At(x, "requireSession") /\ pc'[x] # pc[x] /\ faults' = faults =>
             (pc'[x] # "idle") = (t \notin loggedOut /\ Valid(granted[t]))]_vars

\* No statement of a handler meets a database without its tables, and no request
\* waits for a migration that is over: a failed one takes its waiters with it and
\* is tried again by the next request.
MigratedBeforeServed ==
  \A x \in Executors :
    /\ pc[x] \in Statements => schema # None
    /\ At(x, "migrating") => memo[InstanceOf[x]] = "running"
=============================================================================
