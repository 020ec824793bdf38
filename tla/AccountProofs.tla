--------------------------- MODULE AccountProofs ---------------------------
(***************************************************************************)
(* What the doors of the server keep for any number of executors,          *)
(* instances, devices, addresses, runs of the setup and sessions, whatever *)
(* requests arrive and wherever a failure or a recycled instance cuts one  *)
(* short.  The parts of the invariant are proved one by one: what a        *)
(* statement may assume of its request, the migration, the enrolment, the  *)
(* stored keys and the sessions.                                           *)
(***************************************************************************)
EXTENDS Account, SumLemmas

RegisterStatements == {"bootstrapConsumed", "bootstrapAgeMs", "consumeBootstrap", "registerDevice"}
LoginStatements ==
  {"meterAddress", "addressLock", "meterAll", "allLock", "getLoginCredential", "createSession"}
Behind == {"wrappedKeys", "logout", "revokeDevice"}

\* A statement runs for a request of its own route.
Fits(statement, r) ==
  /\ r \in Requests
  /\ statement \in RegisterStatements => r.kind = "register"
  /\ statement \in {"verifyRequest"} \cup StoreStatements => r.kind = "putWrappedKey"
  /\ statement \in LoginStatements => r.kind \in Doors
  /\ statement = "requireSession" => r.kind \in Behind
  /\ statement = "deleteSession" => r.kind = "logout"
  /\ statement = "revokeDevice" => r.kind = "revokeDevice"

Routed == \A x \in Executors : pc[x] # "idle" => Fits(pc[x], req[x])

\* An instance that remembers the migration as done is right.
Migrated ==
  /\ MigratedBeforeServed
  /\ \A i \in Instances : memo[i] = "done" => schema # None

\* The one shot, from its UPDATE to the INSERT of the device it is spent for.
Enrolled ==
  /\ \A d, e \in Devices : device[d] # None /\ device[e] # None => d = e
  /\ \A x, y \in Executors : At(x, "registerDevice") /\ At(y, "registerDevice") => x = y
  /\ \A x \in Executors : At(x, "registerDevice") => \A d \in Devices : device[d] = None
  /\ ~consumed => /\ \A d \in Devices : device[d] = None
                  /\ \A x \in Executors : ~At(x, "registerDevice")
  /\ consumed => \/ stranded
                 \/ \E d \in Devices : device[d] # None
                 \/ \E x \in Executors : At(x, "registerDevice")

\* A PUT between two of its three upserts.
HalfStored(x) == pc[x] \in {"storeRecovery", "storeCredential"}

\* Blobs first, credential last; and what a PUT that stores alone has written
\* so far is of its own run.
KeysStored ==
  /\ login_credential # None => wrapped_key["pass"] # None /\ wrapped_key["recovery"] # None
  /\ \A x \in Executors :
       /\ HalfStored(x) => wrapped_key["pass"] # None
       /\ pc[x] = "storeCredential" => wrapped_key["recovery"] # None
       /\ solo = x /\ HalfStored(x) =>
            /\ \A y \in Executors : HalfStored(y) => y = x
            /\ wrapped_key["pass"] = req[x].run
            /\ pc[x] = "storeCredential" => wrapped_key["recovery"] = req[x].run
  /\ lastPut # None =>
       /\ \A x \in Executors : ~HalfStored(x)
       /\ wrapped_key["pass"] = lastPut /\ wrapped_key["recovery"] = lastPut /\ login_credential = lastPut

\* A row of session is the lifetime granted to it; where there is none, the session
\* was logged out or has lapsed for good.
SessionsKept ==
  /\ \A t \in Tokens :
       /\ granted[t] # None => t <= minted
       /\ session[t] # None => session[t] = granted[t] /\ t \notin loggedOut
       /\ session[t] = None => t \in loggedOut \/ ~Valid(granted[t])
  /\ \A t \in loggedOut : t <= minted
  /\ \A x \in Executors : pc[x] = "deleteSession" => granted[req[x].token] # None

Locks == {"addressLock", "allLock"}
AddressOf(x) == <<req[x].kind, req[x].address>>

\* Attempts on meter b in flight with a bucket before t: its count misses them.
InFlight(b, t) == {x \in Executors : pc[x] \in Locks /\ Meter(x) = b /\ bucket[x] < t}

\* Attempts that the meter of address b counted in bucket t and let through, and that the
\* meter over all has not counted yet.
LetThrough(b, t) == {x \in Executors : /\ pc[x] \in {"meterAll", "allLock"}
                                       /\ AddressOf(x) = b /\ arrived[x] = t}

\* The attempts of the hour before bucket t, those to come included; the attempts let
\* through in bucket t, those to come included.
Before(b, t) == SumFunctionOnSet(auth_window[b], Earlier(t)) + Cardinality(InFlight(b, t))
Let(b, t) == admitted[b][t] + Cardinality(LetThrough(b, t))

\* x stays where it is, with its reservation.
Waits(x) ==
  /\ pc[x] = pc'[x] /\ req[x] = req'[x] /\ bucket[x] = bucket'[x]
  /\ attempts[x] = attempts'[x] /\ arrived[x] = arrived'[x]

Metered ==
  /\ \A b \in Buckets, t \in Times :
       /\ t > now => auth_window[b][t] = 0
       /\ Let(b, t) <= auth_window[b][t]
       /\ Let(b, t) > 0 => Before(b, t) + Let(b, t) <= CapOf(b) + Cardinality(Executors) - 1
  /\ \A x \in Executors : pc[x] \in Locks =>
       /\ bucket[x] <= now /\ (pc[x] = "addressLock" => arrived[x] = bucket[x])
       /\ Before(Meter(x), bucket[x]) <= attempts[x] + Cardinality(Executors) - 1

IInv == TypeOK /\ Routed /\ Migrated /\ Enrolled /\ KeysStored /\ SessionsKept /\ Metered

-----------------------------------------------------------------------------
(* What the handlers have in common *)

\* The statements that a request goes to are those of its route.
LEMMA RoutesFit ==
  ASSUME NEW r \in Requests
  PROVE  /\ First(r) \in Statements /\ Fits(First(r), r) /\ Fits("migrating", r)
         /\ First(r) \in {"bootstrapConsumed", "verifyRequest", "meterAddress", "requireSession"}
<1>1. r.kind \in Doors \cup Behind \cup {"register", "putWrappedKey"}
  BY RequestAssumption DEF Behind
<1> QED
  BY <1>1 DEF First, Fits, Doors, Behind, Statements, StoreStatements, RegisterStatements, LoginStatements

\* A statement of x that is run or fails: x goes to another statement of its route
\* or has answered.
Handles(x) ==
  \/ bootstrapConsumed(x) \/ bootstrapAgeMs(x) \/ consumeBootstrap(x) \/ registerDevice(x)
  \/ verifyRequest(x) \/ storeWrappedKeys(x)
  \/ reserveAuthAttempt(x) \/ overLimit(x) \/ getLoginCredential(x) \/ createSession(x)
  \/ requireSession(x) \/ getWrappedKeys(x) \/ deleteSession(x) \/ revokeDevice(x)
  \/ Fails(x)

Goes(x, s) == pc' = [pc EXCEPT ![x] = s] /\ UNCHANGED <<req, memo>>
Leaves(x) == pc' = [pc EXCEPT ![x] = "idle"] /\ req' = [req EXCEPT ![x] = None] /\ UNCHANGED memo

Moves(x) ==
  /\ pc[x] \in Statements
  /\ Leaves(x) \/ \E s \in Statements : Goes(x, s) /\ Fits(s, req[x])

\* A handler that runs a statement moves on.
LEMMA HandlersMove == ASSUME IInv, NEW x \in Executors, Handles(x) PROVE Moves(x)
<1> USE DEF IInv, Routed, At, Answer, Goto, Goes, Leaves, Moves, Statements, StoreStatements,
            RegisterStatements, LoginStatements
<1>1. CASE bootstrapConsumed(x) \/ bootstrapAgeMs(x) \/ consumeBootstrap(x) \/ registerDevice(x)
  <2>1. pc[x] \in RegisterStatements
    BY <1>1 DEF bootstrapConsumed, bootstrapAgeMs, consumeBootstrap, registerDevice
  <2>2. Fits("bootstrapAgeMs", req[x]) /\ Fits("consumeBootstrap", req[x]) /\ Fits("registerDevice", req[x])
    BY <2>1 DEF Fits
  <2> QED
    BY <1>1, <2>1, <2>2 DEF bootstrapConsumed, bootstrapAgeMs, consumeBootstrap, registerDevice
<1>2. CASE verifyRequest(x) \/ storeWrappedKeys(x)
  <2>1. pc[x] \in {"verifyRequest"} \cup StoreStatements
    BY <1>2 DEF verifyRequest, storeWrappedKeys
  <2>2. \A s \in StoreStatements : Fits(s, req[x])
    BY <2>1 DEF Fits
  <2> QED
    BY <1>2, <2>1, <2>2 DEF verifyRequest, storeWrappedKeys, NextStore
<1>3. CASE reserveAuthAttempt(x) \/ overLimit(x) \/ getLoginCredential(x) \/ createSession(x)
  <2>1. pc[x] \in LoginStatements
    BY <1>3 DEF reserveAuthAttempt, overLimit, getLoginCredential, createSession
  <2>2. \A s \in LoginStatements : Fits(s, req[x])
    BY <2>1 DEF Fits
  <2> QED
    BY <1>3, <2>1, <2>2 DEF reserveAuthAttempt, overLimit, getLoginCredential, createSession
<1>4. CASE requireSession(x)
  <2>1. pc[x] = "requireSession" /\ req[x] \in Requests /\ req[x].kind \in Behind
    BY <1>4 DEF requireSession, Fits
  <2>2. AfterSession(req[x]) \in Statements /\ Fits(AfterSession(req[x]), req[x])
    BY <2>1 DEF AfterSession, Behind, Fits
  <2> QED
    BY <1>4, <2>1, <2>2 DEF requireSession
<1>5. CASE getWrappedKeys(x) \/ deleteSession(x) \/ revokeDevice(x) \/ Fails(x)
  BY <1>5 DEF getWrappedKeys, deleteSession, revokeDevice, Fails
<1> QED
  BY <1>1, <1>2, <1>3, <1>4, <1>5 DEF Handles

\* Whatever it does, the other executors stay where they are.
LEMMA OthersStay ==
  ASSUME IInv, NEW x \in Executors, Moves(x)
  PROVE  /\ memo' = memo
         /\ \A y \in Executors : y # x => pc'[y] = pc[y] /\ req'[y] = req[y]
         /\ pc'[x] \in Statements \cup {"idle"}
         /\ pc'[x] # "idle" => req' = req /\ Fits(pc'[x], req[x])
         /\ pc' \in [Executors -> Statements \cup {"idle", "migrating"}]
         /\ req' \in [Executors -> Requests \cup {None}]
<1>1. pc \in [Executors -> Statements \cup {"idle", "migrating"}] /\ req \in [Executors -> Requests \cup {None}]
  BY DEF IInv, TypeOK
<1>2. CASE Leaves(x)
  BY <1>1, <1>2 DEF Leaves
<1>3. ASSUME NEW s \in Statements, Goes(x, s), Fits(s, req[x])
      PROVE  /\ pc' = [pc EXCEPT ![x] = s] /\ req' = req /\ memo' = memo
             /\ s # "idle"
  BY <1>3 DEF Goes, Statements, StoreStatements
<1>4. CASE ~Leaves(x)
  <2>1. PICK s \in Statements : Goes(x, s) /\ Fits(s, req[x])
    BY <1>4 DEF Moves
  <2> QED
    BY <1>1, <1>3, <2>1
<1> QED
  BY <1>2, <1>4

\* So every executor keeps a request of its route.
LEMMA RoutingKept == ASSUME IInv, [Next]_vars PROVE Routed'
<1> USE DEF IInv, Routed
<1>1. ASSUME NEW x \in Executors, Handles(x) PROVE Routed'
  BY <1>1, HandlersMove, OthersStay
<1>2. ASSUME NEW x \in Executors, NEW r \in Requests, handleHttpRequest(x, r) PROVE Routed'
  <2>1. pc' = [pc EXCEPT ![x] = First(r)] \/ pc' = [pc EXCEPT ![x] = "migrating"]
    BY <1>2 DEF handleHttpRequest
  <2>2. req' = [req EXCEPT ![x] = r]
    BY <1>2 DEF handleHttpRequest
  <2> QED
    BY <2>1, <2>2, RoutesFit DEF TypeOK
<1>3. ASSUME NEW i \in Instances, runMigrations(i) PROVE Routed'
  <2> SUFFICES ASSUME NEW x \in Executors, pc'[x] # "idle" PROVE Fits(pc'[x], req'[x])
    OBVIOUS
  <2>1. req' = req /\ pc'[x] = IF x \in Waiting(i) THEN First(req[x]) ELSE pc[x]
    BY <1>3 DEF runMigrations
  <2>2. CASE x \in Waiting(i)
    <3>1. req[x] \in Requests
      BY <2>2 DEF Waiting, At, Fits
    <3> QED
      BY <2>1, <2>2, <3>1, RoutesFit
  <2>3. CASE x \notin Waiting(i)
    BY <2>1, <2>3
  <2> QED
    BY <2>2, <2>3
<1>4. ASSUME NEW i \in Instances, migrationFails(i) \/ Recycle(i) PROVE Routed'
  BY <1>4 DEF migrationFails, Recycle, Refuse500
<1>5. CASE Tick \/ UNCHANGED vars
  BY <1>5 DEF Tick, server, vars
<1> QED
  BY <1>1, <1>2, <1>3, <1>4, <1>5 DEF Next, Step, Handles

-----------------------------------------------------------------------------
(* The migration *)

\* Every step keeps the migrations ahead of the statements.
LEMMA MigrationKept == ASSUME IInv, [Next]_vars PROVE Migrated'
<1> USE DEF IInv, Migrated, MigratedBeforeServed, At
<1>1. ASSUME NEW x \in Executors, Handles(x) PROVE Migrated'
  <2>1. schema' = schema
    BY <1>1 DEF Handles, bootstrapConsumed, bootstrapAgeMs, consumeBootstrap, registerDevice, verifyRequest,
                storeWrappedKeys, reserveAuthAttempt, overLimit, getLoginCredential, createSession, requireSession, getWrappedKeys,
                deleteSession, revokeDevice, Fails, tables, bootTables
  <2>2. "migrating" \notin Statements \cup {"idle"} /\ "idle" \notin Statements
    BY DEF Statements, StoreStatements
  <2>3. Moves(x)
    BY <1>1, HandlersMove
  <2>4. schema # None
    BY <2>3 DEF Moves
  <2> QED
    BY <2>1, <2>2, <2>3, <2>4, OthersStay
<1>2. ASSUME NEW x \in Executors, NEW r \in Requests, handleHttpRequest(x, r) PROVE Migrated'
  <2> DEFINE i == InstanceOf[x]
  <2>1. i \in Instances
    BY ParameterAssumption
  <2>2. /\ pc' = [pc EXCEPT ![x] = IF memo[i] = "done" THEN First(r) ELSE "migrating"]
        /\ memo' = [memo EXCEPT ![i] = IF @ = "none" THEN "running" ELSE @] /\ schema' = schema
    BY <1>2 DEF handleHttpRequest, tables
  <2>3. First(r) # "migrating" /\ "migrating" \notin Statements
    BY RoutesFit DEF Statements, StoreStatements
  <2>4. \A j \in Instances : /\ memo'[j] = "done" => memo[j] = "done"
                             /\ memo[j] = "running" => memo'[j] = "running"
                             /\ j = i /\ memo[j] # "done" => memo'[j] = "running"
    BY <2>1, <2>2 DEF TypeOK
  <2>5. \A y \in Executors : InstanceOf[y] \in Instances
    BY ParameterAssumption
  <2> HIDE DEF i
  <2>6. pc'[x] = (IF memo[i] = "done" THEN First(r) ELSE "migrating") /\ \A y \in Executors : y # x => pc'[y] = pc[y]
    BY <2>2 DEF TypeOK
  <2>7. i = InstanceOf[x]
    BY DEF i
  <2> QED
    BY <2>1, <2>2, <2>3, <2>4, <2>5, <2>6, <2>7
<1>3. ASSUME NEW i \in Instances, runMigrations(i) PROVE Migrated'
  <2>1. /\ \A x \in Executors : pc'[x] = IF x \in Waiting(i) THEN First(req[x]) ELSE pc[x]
        /\ memo' = [memo EXCEPT ![i] = "done"] /\ schema' = IF schema = None THEN now ELSE schema
    BY <1>3 DEF runMigrations
  <2>2. schema' # None
    BY <2>1, ParameterAssumption DEF TypeOK
  <2>3. \A x \in Waiting(i) : First(req[x]) # "migrating"
    BY RoutesFit DEF Waiting, At, Routed, Fits
  <2>4. \A x \in Executors \ Waiting(i) : At(x, "migrating") => InstanceOf[x] # i
    BY DEF Waiting
  <2>5. \A x \in Executors : InstanceOf[x] \in Instances
    BY ParameterAssumption
  <2> QED
    BY <2>1, <2>2, <2>3, <2>4, <2>5 DEF TypeOK
<1>4. ASSUME NEW i \in Instances, migrationFails(i) \/ Recycle(i) PROVE Migrated'
  <2>1. /\ memo' = [memo EXCEPT ![i] = "none"] /\ schema' = schema
        /\ \A x \in Executors : pc'[x] \in {pc[x], "idle"}
        /\ \A x \in Executors : At(x, "migrating") /\ InstanceOf[x] = i => pc'[x] = "idle"
    BY <1>4 DEF migrationFails, Recycle, Refuse500, Forgets, Waiting, tables
  <2>2. \A x \in Executors : InstanceOf[x] \in Instances
    BY ParameterAssumption
  <2>3. "idle" \notin Statements
    BY DEF Statements, StoreStatements
  <2> QED
    BY <2>1, <2>2, <2>3 DEF TypeOK
<1>5. CASE Tick \/ UNCHANGED vars
  BY <1>5 DEF Tick, server, tables, vars
<1> QED
  BY <1>1, <1>2, <1>3, <1>4, <1>5 DEF Next, Step, Handles

-----------------------------------------------------------------------------
(* The enrolment *)

\* A step that leaves the one shot and the devices alone, and remembers it when it takes
\* an executor away from the INSERT.
LEMMA EnrolmentUntouched ==
  ASSUME IInv, UNCHANGED <<consumed, device>>, stranded => stranded',
         \A x \in Executors : pc'[x] = "registerDevice" => pc[x] = "registerDevice",
         \A x \in Executors : pc[x] = "registerDevice" /\ pc'[x] # "registerDevice" => stranded'
  PROVE  Enrolled'
BY DEF IInv, Enrolled, At

\* Every step keeps the enrolment to one device.
LEMMA EnrolmentKept == ASSUME IInv, [Next]_vars PROVE Enrolled'
<1> USE DEF IInv, At
<1>1. ASSUME NEW x \in Executors, Moves(x), ~At(x, "registerDevice") \/ stranded',
             pc'[x] # "registerDevice", stranded => stranded', UNCHANGED <<consumed, device>>
      PROVE  Enrolled'
  BY <1>1, OthersStay, EnrolmentUntouched
<1>2. ASSUME NEW x \in Executors, consumeBootstrap(x) PROVE Enrolled'
  <2>1. /\ consumed' = TRUE /\ device' = device /\ stranded' = stranded
        /\ pc[x] = "consumeBootstrap"
        /\ \A y \in Executors : y # x => pc'[y] = pc[y]
        /\ pc'[x] = IF ~consumed THEN "registerDevice" ELSE "idle"
    BY <1>2 DEF consumeBootstrap, history, Wins, Goto, Answer, TypeOK
  <2> QED
    BY <2>1 DEF Enrolled
<1>3. ASSUME NEW x \in Executors, registerDevice(x) PROVE Enrolled'
  <2> DEFINE d == req[x].device
  <2>1. d \in Devices
    BY <1>3, RequestAssumption DEF registerDevice, Routed, Fits, RegisterStatements
  <2>2. /\ device' = [device EXCEPT ![d] = "active"] /\ consumed' = consumed /\ stranded' = stranded
        /\ pc[x] = "registerDevice"
        /\ \A y \in Executors : y # x => pc'[y] = pc[y]
        /\ pc'[x] = "idle"
    BY <1>3 DEF registerDevice, history, Answer, TypeOK
  <2>3. device'[d] = "active" /\ \A e \in Devices : e # d => device'[e] = None
    BY <2>1, <2>2 DEF TypeOK, Enrolled
  <2>4. "active" # None
    BY ParameterAssumption
  <2> HIDE DEF d
  <2> QED
    BY <2>1, <2>2, <2>3, <2>4 DEF Enrolled
<1>4. ASSUME NEW x \in Executors, revokeDevice(x) PROVE Enrolled'
  <2>1. /\ consumed' = consumed /\ stranded' = stranded /\ pc[x] = "revokeDevice"
        /\ \A y \in Executors : y # x => pc'[y] = pc[y]
        /\ pc'[x] = "idle"
    BY <1>4 DEF revokeDevice, history, Answer, TypeOK
  <2>2. \A d \in Devices : device'[d] = None <=> device[d] = None
    BY <1>4, ParameterAssumption DEF revokeDevice, TypeOK
  <2> QED
    BY <2>1, <2>2 DEF Enrolled
<1>5. ASSUME NEW x \in Executors, Fails(x) PROVE Enrolled'
  <2>1. Moves(x)
    BY <1>5, HandlersMove DEF Handles
  <2> QED
    BY <1>1, <1>5, <2>1 DEF Fails, Answer, tables, TypeOK
<1>6. ASSUME NEW x \in Executors, Handles(x),
             ~(consumeBootstrap(x) \/ registerDevice(x) \/ revokeDevice(x) \/ Fails(x))
      PROVE  Enrolled'
  <2>1. Moves(x)
    BY <1>6, HandlersMove
  <2>2. UNCHANGED <<consumed, device, stranded>> /\ pc[x] # "registerDevice"
    BY <1>6 DEF Handles, bootstrapConsumed, bootstrapAgeMs, verifyRequest, storeWrappedKeys, reserveAuthAttempt, overLimit,
                getLoginCredential, createSession, requireSession, getWrappedKeys, deleteSession,
                tables, bootTables, history, StoreStatements
  <2>3. pc'[x] # "registerDevice"
    <3>1. pc \in [Executors -> Statements \cup {"idle", "migrating"}]
      BY DEF TypeOK
    <3>2. At(x, "requireSession") => AfterSession(req[x]) # "registerDevice"
      BY DEF Routed, Fits, Behind, AfterSession
    <3> QED
      BY <1>6, <3>1, <3>2
      DEF Handles, bootstrapConsumed, bootstrapAgeMs, verifyRequest, storeWrappedKeys, reserveAuthAttempt, overLimit,
          getLoginCredential, createSession, requireSession, getWrappedKeys, deleteSession,
          Goto, Answer, NextStore, StoreStatements
  <2> QED
    BY <1>1, <2>1, <2>2, <2>3
<1>7. ASSUME NEW x \in Executors, NEW r \in Requests, handleHttpRequest(x, r) PROVE Enrolled'
  <2>1. pc[x] = "idle" /\ UNCHANGED <<consumed, device, stranded>>
    BY <1>7 DEF handleHttpRequest, tables, history
  <2>2. pc'[x] # "registerDevice" /\ \A y \in Executors : y # x => pc'[y] = pc[y]
    BY <1>7, RoutesFit DEF handleHttpRequest, TypeOK
  <2> QED
    BY <2>1, <2>2, EnrolmentUntouched
<1>8. ASSUME NEW i \in Instances, runMigrations(i) PROVE Enrolled'
  <2>1. \A y \in Executors : pc'[y] = pc[y] \/ (y \in Waiting(i) /\ pc'[y] = First(req[y]))
    BY <1>8 DEF runMigrations
  <2>2. \A y \in Waiting(i) : pc[y] = "migrating" /\ First(req[y]) # "registerDevice"
    BY RoutesFit DEF Waiting, Routed, Fits
  <2>3. UNCHANGED <<consumed, device, stranded>>
    BY <1>8 DEF runMigrations, history
  <2> QED
    BY <2>1, <2>2, <2>3, EnrolmentUntouched
<1>9. ASSUME NEW i \in Instances, migrationFails(i) \/ Recycle(i) PROVE Enrolled'
  <2>1. /\ UNCHANGED <<consumed, device>>
        /\ stranded' = stranded \/ stranded' = (stranded \/ \E x \in {y \in Executors : InstanceOf[y] = i /\ ~At(y, "idle")} :
                                                             At(x, "registerDevice"))
    BY <1>9 DEF migrationFails, Recycle, tables, history
  <2>2. \A x \in Executors : pc'[x] \in {pc[x], "idle"}
    BY <1>9 DEF migrationFails, Recycle, Refuse500
  <2>3. ASSUME NEW x \in Executors, pc[x] = "registerDevice", pc'[x] # "registerDevice" PROVE stranded'
    <3>1. CASE migrationFails(i)
      <4>1. x \notin Waiting(i)
        BY <2>3 DEF Waiting
      <4> QED
        BY <2>3, <3>1, <4>1 DEF migrationFails, Refuse500
    <3>2. CASE Recycle(i)
      <4>1. InstanceOf[x] = i
        BY <2>3, <3>2 DEF Recycle, Refuse500
      <4> QED
        BY <2>3, <3>2, <4>1 DEF Recycle
    <3> QED
      BY <1>9, <3>1, <3>2
  <2>4. stranded => stranded'
    BY <2>1 DEF TypeOK
  <2> QED
    BY <2>1, <2>2, <2>3, <2>4, EnrolmentUntouched
<1>10. CASE Tick \/ UNCHANGED vars
  BY <1>10, EnrolmentUntouched DEF Tick, server, tables, history, vars
<1> QED
  BY <1>2, <1>3, <1>4, <1>5, <1>6, <1>7, <1>8, <1>9, <1>10 DEF Next, Step, Handles

-----------------------------------------------------------------------------
(* The stored keys *)

\* A step that writes no key, and at most takes a half-done PUT away.
LEMMA KeysUntouched ==
  ASSUME IInv, UNCHANGED <<keyTables, keyHistory>>,
         \A x \in Executors : HalfStored(x)' => pc'[x] = pc[x] /\ req'[x] = req[x]
  PROVE  KeysStored'
BY DEF IInv, KeysStored, HalfStored, keyTables, keyHistory

\* A statement of storeWrappedKeys keeps what is known of the stored keys.
LEMMA StoresOneKey == ASSUME IInv, NEW x \in Executors, storeWrappedKeys(x) PROVE KeysStored'
<1> USE DEF IInv
<1> DEFINE run == req[x].run
<1>1. /\ \A y \in Executors : y # x => pc'[y] = pc[y] /\ req'[y] = req[y]
      /\ pc[x] \in StoreStatements
      /\ pc[x] = "storePass" => pc'[x] = "storeRecovery" /\ req' = req
      /\ pc[x] = "storeRecovery" => pc'[x] = "storeCredential" /\ req' = req
      /\ pc[x] = "storeCredential" => pc'[x] = "idle"
  BY DEF storeWrappedKeys, NextStore, StoreStatements, Answer, Goto, TypeOK
<1>2. run \in Runs /\ run # None /\ x # None
  BY <1>1, RequestAssumption, ParameterAssumption DEF Routed, Fits, StoreStatements
<1> HIDE DEF run
<1>3. CASE pc[x] = "storePass"
  <2>1. /\ wrapped_key' = [wrapped_key EXCEPT !["pass"] = run] /\ login_credential' = login_credential
        /\ lastPut' = None
        /\ solo' = IF \A y \in Executors \ {x} : ~HalfStored(y) THEN x ELSE None
    BY <1>3 DEF storeWrappedKeys, NextStore, HalfStored, run
  <2>2. wrapped_key'["pass"] = run /\ wrapped_key'["recovery"] = wrapped_key["recovery"]
    BY <2>1 DEF TypeOK
  <2>3. \A y \in Executors : solo' = y => y = x /\ \A z \in Executors : HalfStored(z)' => z = x
    BY <1>1, <2>1, ParameterAssumption DEF HalfStored
  <2>4. pc'[x] = "storeRecovery" /\ req'[x].run = run
    BY <1>1, <1>3 DEF run
  <2> QED
    BY <1>1, <1>2, <1>3, <2>1, <2>2, <2>3, <2>4 DEF KeysStored, HalfStored
<1>4. CASE pc[x] = "storeRecovery"
  <2>1. /\ wrapped_key' = [wrapped_key EXCEPT !["recovery"] = run] /\ login_credential' = login_credential
        /\ lastPut' = lastPut /\ solo' = solo
    BY <1>4 DEF storeWrappedKeys, NextStore, run
  <2>2. wrapped_key'["recovery"] = run /\ wrapped_key'["pass"] = wrapped_key["pass"]
    BY <2>1 DEF TypeOK
  <2>3. lastPut = None /\ \A y \in Executors : solo = y /\ HalfStored(y) => y = x
    BY <1>4 DEF KeysStored, HalfStored
  <2>4. pc'[x] = "storeCredential" /\ req'[x].run = run
    BY <1>1, <1>4 DEF run
  <2>5. \A y \in Executors : HalfStored(y)' <=> HalfStored(y)
    BY <1>1, <1>4 DEF HalfStored
  <2>6. solo = x => wrapped_key["pass"] = run
    BY <1>4 DEF KeysStored, HalfStored, run
  <2> QED
    BY <1>1, <1>2, <1>4, <2>1, <2>2, <2>3, <2>4, <2>5, <2>6 DEF KeysStored, HalfStored
<1>5. CASE pc[x] = "storeCredential"
  <2>1. /\ wrapped_key' = wrapped_key /\ login_credential' = run
        /\ lastPut' = (IF solo = x THEN run ELSE None) /\ solo' = solo
    BY <1>5 DEF storeWrappedKeys, NextStore, run
  <2>2. \A y \in Executors : HalfStored(y)' => y # x /\ HalfStored(y)
    BY <1>1, <1>5 DEF HalfStored
  <2>3. solo = x => wrapped_key["pass"] = run /\ wrapped_key["recovery"] = run
    BY <1>5 DEF KeysStored, HalfStored, run
  <2>4. solo = x => \A y \in Executors : ~HalfStored(y)'
    BY <1>5, <2>2 DEF KeysStored, HalfStored
  <2> QED
    BY <1>1, <1>2, <1>5, <2>1, <2>2, <2>3, <2>4 DEF KeysStored, HalfStored
<1> QED
  BY <1>1, <1>3, <1>4, <1>5 DEF StoreStatements

\* Every step keeps the stored keys.
LEMMA KeysKept == ASSUME IInv, [Next]_vars PROVE KeysStored'
<1> USE DEF IInv, At
<1>1. ASSUME NEW x \in Executors, Moves(x), UNCHANGED <<keyTables, keyHistory>>, ~HalfStored(x)'
      PROVE  KeysStored'
  BY <1>1, OthersStay, KeysUntouched
<1>2. ASSUME NEW x \in Executors, Handles(x), ~storeWrappedKeys(x) PROVE KeysStored'
  <2>1. Moves(x)
    BY <1>2, HandlersMove
  <2>2. UNCHANGED <<keyTables, keyHistory>>
    BY <1>2 DEF Handles, bootstrapConsumed, bootstrapAgeMs, consumeBootstrap, registerDevice, verifyRequest,
                reserveAuthAttempt, overLimit, getLoginCredential, createSession, requireSession, getWrappedKeys,
                deleteSession, revokeDevice, Fails, tables, keyTables, keyHistory, history
  <2>3. ~HalfStored(x)'
    <3>1. pc \in [Executors -> Statements \cup {"idle", "migrating"}]
      BY DEF TypeOK
    <3>2. At(x, "requireSession") => AfterSession(req[x]) \notin {"storeRecovery", "storeCredential"}
      BY DEF Routed, Fits, Behind, AfterSession
    <3> QED
      BY <1>2, <3>1, <3>2
      DEF Handles, bootstrapConsumed, bootstrapAgeMs, consumeBootstrap, registerDevice, verifyRequest, reserveAuthAttempt, overLimit,
          getLoginCredential, createSession, requireSession, getWrappedKeys, deleteSession, revokeDevice, Fails,
          Goto, Answer, HalfStored
  <2> QED
    BY <1>1, <2>1, <2>2, <2>3
<1>3. ASSUME NEW x \in Executors, NEW r \in Requests, handleHttpRequest(x, r) PROVE KeysStored'
  <2>1. UNCHANGED <<keyTables, keyHistory>>
    BY <1>3 DEF handleHttpRequest, tables, keyTables, keyHistory, history
  <2>2. ~HalfStored(x)' /\ \A y \in Executors : y # x => pc'[y] = pc[y] /\ req'[y] = req[y]
    BY <1>3, RoutesFit DEF handleHttpRequest, TypeOK, HalfStored
  <2> QED
    BY <2>1, <2>2, KeysUntouched
<1>4. ASSUME NEW i \in Instances, runMigrations(i) PROVE KeysStored'
  <2>1. \A y \in Executors : pc'[y] = pc[y] \/ (y \in Waiting(i) /\ pc'[y] = First(req[y]))
    BY <1>4 DEF runMigrations
  <2>2. \A y \in Waiting(i) : First(req[y]) \notin {"storeRecovery", "storeCredential"}
    BY RoutesFit DEF Waiting, Routed, Fits
  <2>3. UNCHANGED <<keyTables, keyHistory, req>>
    BY <1>4 DEF runMigrations, keyHistory, history
  <2> QED
    BY <2>1, <2>2, <2>3, KeysUntouched DEF HalfStored
<1>5. ASSUME NEW i \in Instances, migrationFails(i) \/ Recycle(i) PROVE KeysStored'
  BY <1>5, KeysUntouched DEF migrationFails, Recycle, Refuse500, tables, keyTables, history, keyHistory, HalfStored
<1>6. CASE Tick \/ UNCHANGED vars
  BY <1>6, KeysUntouched DEF Tick, server, tables, keyTables, history, keyHistory, vars
<1> QED
  BY <1>2, <1>3, <1>4, <1>5, <1>6, StoresOneKey DEF Next, Step, Handles

-----------------------------------------------------------------------------
(* The sessions *)

\* A step that writes no row of session; time may pass.
LEMMA SessionsUntouched ==
  ASSUME IInv, UNCHANGED <<session, granted, loggedOut, minted>>, now' \in Nat, now <= now',
         \A x \in Executors : pc'[x] = "deleteSession" => pc[x] = "deleteSession" /\ req'[x] = req[x]
  PROVE  SessionsKept'
<1>1. \A t \in Tokens : Valid(granted[t])' => Valid(granted[t])
  <2>1. granted \in [Tokens -> Row \cup {None}] /\ now \in Nat
    BY DEF IInv, TypeOK, Times
  <2> QED
    BY <2>1, ParameterAssumption DEF Valid, Row, Times
<1> QED
  BY <1>1 DEF IInv, SessionsKept

\* One UPDATE slides the row and the lifetime together.
LEMMA SessionSlides ==
  ASSUME IInv, NEW x \in Executors, requireSession(x)
  PROVE  /\ SessionsKept'
         /\ session' \in [Tokens -> Row \cup {None}] /\ granted' \in [Tokens -> Row \cup {None}]
         /\ (pc'[x] # "idle") <=> Valid(session[req[x].token])
<1> USE DEF IInv, At
<1> DEFINE t == req[x].token
<1>1. pc[x] = "requireSession" /\ req[x].kind \in Behind /\ t \in Tokens
  BY RequestAssumption DEF requireSession, Routed, Fits, Behind
<1>2. AfterSession(req[x]) # "idle" /\ (AfterSession(req[x]) = "deleteSession" => req[x].kind = "logout")
  BY <1>1 DEF AfterSession, Behind
<1>3. UNCHANGED <<now, loggedOut, minted>> /\ \A y \in Executors : y # x => pc'[y] = pc[y] /\ req'[y] = req[y]
  BY DEF requireSession, bounds, Answer, Goto, TypeOK
<1> HIDE DEF t
<1>4. CASE ~Valid(session[t])
  <2>1. UNCHANGED <<session, granted>> /\ pc'[x] = "idle"
    BY <1>4 DEF requireSession, Answer, TypeOK, t
  <2>2. now' \in Nat /\ now <= now'
    BY <1>3 DEF TypeOK, Times
  <2>3. SessionsKept'
    BY <1>3, <2>1, <2>2, SessionsUntouched
  <2> QED
    BY <1>4, <2>1, <2>3 DEF TypeOK, t
<1>5. CASE Valid(session[t])
  <2>1. /\ session' = [session EXCEPT ![t].seen = now] /\ granted' = [granted EXCEPT ![t].seen = now]
        /\ pc'[x] = AfterSession(req[x]) /\ req' = req
    BY <1>5 DEF requireSession, Goto, TypeOK, t
  <2>2. session[t] \in Row /\ session[t] = granted[t] /\ t \notin loggedOut
    BY <1>1, <1>5 DEF Valid, TypeOK, SessionsKept
  <2>3. [session[t] EXCEPT !.seen = now] \in Row /\ [session[t] EXCEPT !.seen = now] # None
    BY <2>2, ParameterAssumption DEF Row, TypeOK
  <2>4. /\ session'[t] = [session[t] EXCEPT !.seen = now] /\ granted'[t] = session'[t]
        /\ \A u \in Tokens : u # t => session'[u] = session[u] /\ granted'[u] = granted[u]
    BY <1>1, <2>1, <2>2 DEF TypeOK
  <2>5. session' \in [Tokens -> Row \cup {None}] /\ granted' \in [Tokens -> Row \cup {None}]
    BY <1>1, <2>1, <2>2, <2>3 DEF TypeOK
  <2>6. \A u \in Tokens : u # t => (Valid(granted[u])' <=> Valid(granted[u]))
    BY <1>3, <2>4 DEF Valid
  <2>7. granted[t] # None
    BY <2>2, ParameterAssumption DEF Row
  <2>8. ASSUME NEW y \in Executors, pc'[y] = "deleteSession" PROVE granted'[req'[y].token] # None
    <3>1. CASE y = x
      BY <2>1, <2>3, <2>4, <3>1 DEF t
    <3>2. CASE y # x
      <4>1. pc[y] = "deleteSession" /\ req'[y] = req[y] /\ granted[req[y].token] # None
        BY <1>3, <2>8, <3>2 DEF SessionsKept
      <4>2. req[y].token \in Tokens
        BY <4>1, RequestAssumption DEF Routed, Fits
      <4> QED
        BY <2>3, <2>4, <4>1, <4>2
    <3> QED
      BY <3>1, <3>2
  <2>9. \A u \in Tokens : granted'[u] # None => granted[u] # None
    BY <2>4, <2>7
  <2>10. SessionsKept'
    BY <1>3, <2>2, <2>3, <2>4, <2>6, <2>8, <2>9 DEF SessionsKept
  <2> QED
    BY <1>2, <1>5, <2>1, <2>5, <2>10 DEF t
<1> QED
  BY <1>4, <1>5

\* The sweep of a login removes only rows that have lapsed.
LEMMA SessionMinted ==
  ASSUME IInv, NEW x \in Executors, createSession(x)
  PROVE  SessionsKept' /\ session' \in [Tokens -> Row \cup {None}] /\ granted' \in [Tokens -> Row \cup {None}]
<1> USE DEF IInv, At
<1> DEFINE token == minted + 1
           row == [expires |-> now + SESSION_ABSOLUTE_TTL, seen |-> now]
<1>1. token \in Tokens /\ minted \in Nat
  BY ParameterAssumption DEF createSession, TypeOK, Tokens
<1>2. row \in Row /\ row # None
  <2>1. now \in Nat /\ SESSION_ABSOLUTE_TTL \in Nat /\ now \in Times
    BY ParameterAssumption DEF TypeOK, Times
  <2>2. row \in Row
    BY <2>1 DEF Row
  <2> QED
    BY <2>2, ParameterAssumption DEF Row
<1>3. /\ minted' = token /\ granted' = [granted EXCEPT ![token] = row]
      /\ session' = [t \in Tokens |-> IF t = token THEN row
                                      ELSE IF session[t] # None /\ Swept(session[t]) THEN None
                                      ELSE session[t]]
      /\ UNCHANGED <<now, loggedOut>>
      /\ \A y \in Executors : y # x => pc'[y] = pc[y] /\ req'[y] = req[y]
      /\ pc'[x] = "idle"
  BY DEF createSession, Answer, TypeOK
<1> HIDE DEF token, row
<1>4. session' \in [Tokens -> Row \cup {None}] /\ granted' \in [Tokens -> Row \cup {None}]
  BY <1>1, <1>2, <1>3 DEF TypeOK
<1>5. token \notin loggedOut /\ granted[token] = None
  BY <1>1 DEF SessionsKept, token, Tokens
<1>6. granted'[token] = row /\ session'[token] = row
  BY <1>1, <1>3 DEF TypeOK
<1>7. ASSUME NEW t \in Tokens, t # token
      PROVE  /\ granted'[t] = granted[t]
             /\ session'[t] # None => session'[t] = session[t]
             /\ session'[t] = None => session[t] = None \/ ~Valid(session[t])
  <2>1. granted'[t] = granted[t]
    BY <1>3, <1>7 DEF TypeOK
  <2>2. session'[t] = IF session[t] # None /\ Swept(session[t]) THEN None ELSE session[t]
    BY <1>3, <1>7
  <2>3. session[t] # None /\ Swept(session[t]) => ~Valid(session[t])
    <3>1. session[t] \in Row \cup {None} /\ now \in Nat /\ SESSION_IDLE_TIMEOUT \in Nat
      BY ParameterAssumption DEF TypeOK, Times
    <3> QED
      BY <3>1 DEF Swept, Valid, Row, Times
  <2> QED
    BY <2>1, <2>2, <2>3
<1>8. \A t \in Tokens : t # token => (Valid(granted[t])' <=> Valid(granted[t]))
  BY <1>3, <1>7 DEF Valid
<1>9. \A t \in Tokens : t <= minted => t <= minted' /\ t # token
  BY <1>1, <1>3 DEF token, Tokens
<1>10. token <= minted'
  BY <1>1, <1>3 DEF token
<1>11. loggedOut \subseteq Tokens
  BY DEF TypeOK
<1>12. ASSUME NEW t \in Tokens
       PROVE  /\ granted'[t] # None => t <= minted'
              /\ session'[t] # None => session'[t] = granted'[t] /\ t \notin loggedOut
              /\ session'[t] = None => t \in loggedOut \/ ~Valid(granted[t])'
  <2>1. CASE t = token
    BY <1>2, <1>5, <1>6, <1>10, <2>1
  <2>2. CASE t # token
    BY <1>7, <1>8, <1>9, <2>2 DEF SessionsKept
  <2> QED
    BY <2>1, <2>2
<1>13. ASSUME NEW y \in Executors, pc'[y] = "deleteSession" PROVE granted'[req'[y].token] # None
  <2>1. y # x /\ pc[y] = "deleteSession" /\ req'[y] = req[y] /\ granted[req[y].token] # None
    BY <1>3, <1>13 DEF SessionsKept
  <2>2. req[y].token \in Tokens
    BY <2>1, RequestAssumption DEF Routed, Fits
  <2> QED
    BY <1>2, <1>6, <1>7, <2>1, <2>2
<1>14. \A t \in loggedOut : t <= minted'
  BY <1>9, <1>11 DEF SessionsKept
<1> QED
  BY <1>3, <1>4, <1>12, <1>13, <1>14 DEF SessionsKept

\* Logging out removes the session and no other.
LEMMA SessionDeleted == ASSUME IInv, NEW x \in Executors, deleteSession(x) PROVE SessionsKept' /\ loggedOut' \subseteq Tokens
<1> USE DEF IInv, At
<1> DEFINE t == req[x].token
<1>1. pc[x] = "deleteSession" /\ t \in Tokens /\ granted[t] # None
  BY RequestAssumption DEF deleteSession, Routed, Fits, SessionsKept
<1>2. /\ session' = [session EXCEPT ![t] = None] /\ loggedOut' = loggedOut \cup {t}
      /\ UNCHANGED <<now, minted, granted>>
      /\ \A y \in Executors : y # x => pc'[y] = pc[y] /\ req'[y] = req[y]
      /\ pc'[x] = "idle"
  BY DEF deleteSession, WithoutRow, Answer, bounds, TypeOK
<1> HIDE DEF t
<1>3. session'[t] = None /\ \A u \in Tokens : u # t => session'[u] = session[u]
  BY <1>1, <1>2 DEF TypeOK
<1>4. \A u \in Tokens : Valid(granted[u])' <=> Valid(granted[u])
  BY <1>2 DEF Valid
<1>5. SessionsKept'
  BY <1>1, <1>2, <1>3, <1>4 DEF SessionsKept
<1> QED
  BY <1>1, <1>2, <1>5 DEF TypeOK

\* A step that leaves the sessions alone keeps what is known of them.
LEMMA SessionsStay == ASSUME IInv, [Next]_vars PROVE SessionsKept'
<1> USE DEF IInv, At
<1>1. now \in Nat /\ now <= now /\ now <= now + 1
  BY DEF TypeOK, Times
<1>2. ASSUME NEW x \in Executors, Handles(x), ~(requireSession(x) \/ createSession(x) \/ deleteSession(x))
      PROVE  SessionsKept'
  <2>1. Moves(x)
    BY <1>2, HandlersMove
  <2>2. UNCHANGED <<session, granted, loggedOut, minted, now>>
    BY <1>2 DEF Handles, bootstrapConsumed, bootstrapAgeMs, consumeBootstrap, registerDevice, verifyRequest,
                storeWrappedKeys, reserveAuthAttempt, overLimit, getLoginCredential, getWrappedKeys, revokeDevice, Fails,
                tables, history, bounds
  <2>3. pc'[x] # "deleteSession"
    <3>1. pc \in [Executors -> Statements \cup {"idle", "migrating"}]
      BY DEF TypeOK
    <3> QED
      BY <1>2, <3>1
      DEF Handles, bootstrapConsumed, bootstrapAgeMs, consumeBootstrap, registerDevice, verifyRequest,
          storeWrappedKeys, reserveAuthAttempt, overLimit, getLoginCredential, getWrappedKeys, revokeDevice, Fails,
          Goto, Answer, NextStore, StoreStatements
  <2> QED
    BY <1>1, <2>1, <2>2, <2>3, OthersStay, SessionsUntouched
<1>3. ASSUME NEW x \in Executors, NEW r \in Requests, handleHttpRequest(x, r) PROVE SessionsKept'
  <2>1. UNCHANGED <<session, granted, loggedOut, minted, now>>
    BY <1>3 DEF handleHttpRequest, tables, history
  <2>2. pc'[x] # "deleteSession" /\ \A y \in Executors : y # x => pc'[y] = pc[y] /\ req'[y] = req[y]
    BY <1>3, RoutesFit DEF handleHttpRequest, TypeOK
  <2> QED
    BY <1>1, <2>1, <2>2, SessionsUntouched
<1>4. ASSUME NEW i \in Instances, runMigrations(i) PROVE SessionsKept'
  <2>1. \A y \in Executors : pc'[y] = pc[y] \/ (y \in Waiting(i) /\ pc'[y] = First(req[y]))
    BY <1>4 DEF runMigrations
  <2>2. \A y \in Waiting(i) : First(req[y]) # "deleteSession"
    BY RoutesFit DEF Waiting, Routed, Fits
  <2>3. UNCHANGED <<session, granted, loggedOut, minted, now, req>>
    BY <1>4 DEF runMigrations, history, bounds
  <2> QED
    BY <1>1, <2>1, <2>2, <2>3, SessionsUntouched
<1>5. ASSUME NEW i \in Instances, migrationFails(i) \/ Recycle(i) PROVE SessionsKept'
  BY <1>1, <1>5, SessionsUntouched DEF migrationFails, Recycle, Refuse500, tables, history
<1>6. CASE Tick \/ UNCHANGED vars
  BY <1>1, <1>6, SessionsUntouched DEF Tick, server, tables, bounds, history, vars
<1> QED
  BY <1>2, <1>3, <1>4, <1>5, <1>6, SessionSlides, SessionMinted, SessionDeleted DEF Next, Step, Handles

-----------------------------------------------------------------------------
(* What the meters count over *)

\* A time is a natural number.
LEMMA TimesCount == \A m \in Times : m \in Nat
BY DEF Times

\* Some of the executors are finitely many, and all but one are one fewer.
LEMMA SomeExecutors ==
  ASSUME NEW S \in SUBSET Executors, NEW T \in SUBSET Executors
  PROVE  /\ Cardinality(S) \in Nat /\ Cardinality(Executors) \in Nat
         /\ S \subseteq T => Cardinality(S) <= Cardinality(T)
         /\ \A x \in Executors \ S : Cardinality(S) <= Cardinality(Executors) - 1
         /\ \A x \in S : S = T \cup {x} /\ x \notin T => Cardinality(S) = Cardinality(T) + 1
<1>1. IsFiniteSet(Executors) /\ IsFiniteSet(S) /\ IsFiniteSet(T)
  BY ParameterAssumption, FS_Subset
<1>2. Cardinality(S) \in Nat /\ Cardinality(Executors) \in Nat
  BY <1>1, FS_CardinalityType
<1>3. S \subseteq T => Cardinality(S) <= Cardinality(T)
  BY <1>1, FS_Subset
<1>4. ASSUME NEW x \in Executors \ S PROVE Cardinality(S) <= Cardinality(Executors) - 1
  <2>1. Cardinality(S \cup {x}) = Cardinality(S) + 1 /\ IsFiniteSet(S \cup {x})
    BY <1>1, FS_AddElement
  <2>2. S \cup {x} \in SUBSET Executors
    OBVIOUS
  <2>3. Cardinality(S \cup {x}) <= Cardinality(Executors)
    BY <1>1, <2>2, FS_Subset
  <2> QED
    BY <1>2, <2>1, <2>3
<1>5. ASSUME NEW x \in S, S = T \cup {x}, x \notin T PROVE Cardinality(S) = Cardinality(T) + 1
  BY <1>1, <1>5, FS_AddElement
<1> QED
  BY <1>2, <1>3, <1>4, <1>5

\* The hour before a bucket is finitely many buckets, and the bucket is not one of them.
LEMMA HourBefore ==
  ASSUME NEW b \in Times
  PROVE  /\ Earlier(b) \in SUBSET Times /\ IsFiniteSet(Earlier(b)) /\ \A m \in Earlier(b) : m < b
         /\ b \notin Earlier(b)
         /\ \A f \in [Times -> Nat] : SumFunctionOnSet(f, Earlier(b)) \in Nat
<1>1. IsFiniteSet(Times)
  BY FS_Interval, ParameterAssumption DEF Times
<1>2. Earlier(b) \in SUBSET Times /\ IsFiniteSet(Earlier(b))
  BY <1>1, FS_Subset DEF Earlier
<1>3. b \notin Earlier(b) /\ \A m \in Earlier(b) : m < b
  BY DEF Earlier, Times
<1> QED
  BY <1>2, <1>3, SumType

\* Whoever is at a meter has a request of a metered door, and the meters are two.
LEMMA AtTheMeters ==
  ASSUME IInv, NEW x \in Executors, pc[x] \in {"meterAddress", "addressLock", "meterAll", "allLock"}
  PROVE  /\ Meter(x) \in Buckets /\ AddressOf(x) \in Buckets /\ AddressOf(x)[2] # "all"
         /\ pc[x] \in {"meterAddress", "addressLock"} => Meter(x) = AddressOf(x)
         /\ pc[x] \in {"meterAll", "allLock"} => Meter(x) = <<req[x].kind, "all">> /\ Meter(x) # AddressOf(x)
<1>1. req[x].kind \in Doors /\ req[x].address \in Addresses /\ req[x].address # "all"
  BY RequestAssumption, ParameterAssumption DEF IInv, Routed, Fits, LoginStatements
<1>2. pc[x] \in {"meterAddress", "addressLock"} => Scope(x) = req[x].address
  BY DEF Scope
<1>3. pc[x] \in {"meterAll", "allLock"} => Scope(x) = "all"
  BY DEF Scope
<1> QED
  BY <1>1, <1>2, <1>3 DEF Meter, AddressOf, Buckets

\* The caps are natural numbers.
LEMMA CapsCount == \A b \in Buckets : CapOf(b) \in Nat
BY ParameterAssumption DEF Buckets, CapOf, Doors

-----------------------------------------------------------------------------
(* The types *)

\* Executors and their requests.
LEMMA ServingTyped ==
  ASSUME IInv, [Next]_vars
  PROVE  /\ pc' \in [Executors -> Statements \cup {"idle", "migrating"}]
         /\ req' \in [Executors -> Requests \cup {None}]
         /\ memo' \in [Instances -> {"none", "running", "done"}]
<1> USE DEF IInv
<1>1. /\ pc \in [Executors -> Statements \cup {"idle", "migrating"}] /\ req \in [Executors -> Requests \cup {None}]
      /\ memo \in [Instances -> {"none", "running", "done"}]
  BY DEF TypeOK
<1>2. ASSUME NEW x \in Executors, Handles(x)
      PROVE  /\ pc' \in [Executors -> Statements \cup {"idle", "migrating"}]
             /\ req' \in [Executors -> Requests \cup {None}]
             /\ memo' = memo
  BY <1>2, HandlersMove, OthersStay
<1>3. ASSUME NEW x \in Executors, NEW r \in Requests, handleHttpRequest(x, r)
      PROVE  /\ pc' \in [Executors -> Statements \cup {"idle", "migrating"}]
             /\ req' \in [Executors -> Requests \cup {None}]
             /\ memo' \in [Instances -> {"none", "running", "done"}]
  BY <1>1, <1>3, RoutesFit DEF handleHttpRequest
<1>4. ASSUME NEW i \in Instances, runMigrations(i)
      PROVE  /\ pc' \in [Executors -> Statements \cup {"idle", "migrating"}]
             /\ req' = req
             /\ memo' \in [Instances -> {"none", "running", "done"}]
  <2>1. \A x \in Waiting(i) : First(req[x]) \in Statements
    BY RoutesFit DEF Waiting, At, Routed, Fits
  <2> QED
    BY <1>1, <1>4, <2>1 DEF runMigrations
<1>5. ASSUME NEW i \in Instances, migrationFails(i) \/ Recycle(i)
      PROVE  /\ pc' \in [Executors -> Statements \cup {"idle", "migrating"}]
             /\ req' \in [Executors -> Requests \cup {None}]
             /\ memo' \in [Instances -> {"none", "running", "done"}]
  BY <1>1, <1>5 DEF migrationFails, Recycle, Refuse500, Forgets
<1>6. CASE Tick \/ UNCHANGED vars
  BY <1>1, <1>6 DEF Tick, server, vars
<1> QED
  BY <1>1, <1>2, <1>3, <1>4, <1>5, <1>6 DEF Next, Step, Handles

\* The rows and histories that one statement writes.
EnrolTyped ==
  /\ consumed \in BOOLEAN /\ stranded \in BOOLEAN /\ device \in [Devices -> {"active", "revoked", None}]
KeysTyped ==
  /\ wrapped_key \in [{"pass", "recovery"} -> Runs \cup {None}] /\ login_credential \in Runs \cup {None}
  /\ solo \in Executors \cup {None} /\ lastPut \in Runs \cup {None}
MeterTyped ==
  /\ auth_window \in [Buckets -> [Times -> Nat]] /\ admitted \in [Buckets -> [Times -> Nat]]
  /\ bucket \in [Executors -> Times] /\ arrived \in [Executors -> Times] /\ attempts \in [Executors -> Nat]
SessionTyped ==
  /\ session \in [Tokens -> Row \cup {None}] /\ granted \in [Tokens -> Row \cup {None}]
  /\ loggedOut \subseteq Tokens
CountersTyped ==
  /\ now \in Times /\ schema \in Times \cup {None}
  /\ crossed \subseteq Executors /\ left \in [Requests -> Nat] /\ minted \in Nat /\ faults \in Nat

\* What is stored of the keys is typed.
LEMMA KeysWellTyped == ASSUME IInv, NEW x \in Executors, storeWrappedKeys(x) PROVE KeysTyped'
<1>1. req[x].run \in Runs
  BY RequestAssumption DEF IInv, storeWrappedKeys, StoreStatements, Routed, Fits
<1>2. /\ wrapped_key' \in {wrapped_key, [wrapped_key EXCEPT !["pass"] = req[x].run],
                           [wrapped_key EXCEPT !["recovery"] = req[x].run]}
      /\ login_credential' \in {login_credential, req[x].run}
      /\ solo' \in {solo, x, None} /\ lastPut' \in {lastPut, None, req[x].run}
  BY DEF storeWrappedKeys
<1> QED
  BY <1>1, <1>2 DEF IInv, TypeOK, KeysTyped

\* Reservations come and go in the type.
LEMMA LocalsWellTyped ==
  ASSUME IInv, (\E xs : Drop(xs)) \/ UNCHANGED metering
  PROVE  bucket' \in [Executors -> Times] /\ arrived' \in [Executors -> Times] /\ attempts' \in [Executors -> Nat]
<1>1. /\ bucket \in [Executors -> Times] /\ arrived \in [Executors -> Times] /\ attempts \in [Executors -> Nat]
      /\ 0 \in Times
  BY ParameterAssumption DEF IInv, TypeOK, Times
<1> QED
  BY <1>1 DEF Drop, metering

\* What a meter counts is typed.
LEMMA MeterWellTyped ==
  ASSUME IInv, NEW x \in Executors, overLimit(x) \/ reserveAuthAttempt(x)
  PROVE  MeterTyped'
<1>1. now \in Times /\ auth_window \in [Buckets -> [Times -> Nat]] /\ admitted \in [Buckets -> [Times -> Nat]]
      /\ bucket \in [Executors -> Times] /\ arrived \in [Executors -> Times] /\ attempts \in [Executors -> Nat]
  BY DEF IInv, TypeOK
<1>2. Meter(x) \in Buckets /\ AddressOf(x) \in Buckets /\ bucket[x] \in Times /\ arrived[x] \in Times
  BY <1>1, AtTheMeters DEF overLimit, reserveAuthAttempt
<1>3. ASSUME NEW f \in [Buckets -> [Times -> Nat]], NEW b \in Buckets, NEW t \in Times
      PROVE  [f EXCEPT ![b][t] = @ + 1] \in [Buckets -> [Times -> Nat]]
  <2>1. [f[b] EXCEPT ![t] = @ + 1] \in [Times -> Nat]
    OBVIOUS
  <2> QED
    BY <2>1
<1>4. CASE overLimit(x)
  <2>1. auth_window' \in [Buckets -> [Times -> Nat]]
    BY <1>1, <1>2, <1>3, <1>4 DEF overLimit
  <2>2. admitted' \in [Buckets -> [Times -> Nat]]
    <3> DEFINE counted == [admitted EXCEPT ![AddressOf(x)][arrived[x]] = @ + 1]
    <3>1. counted \in [Buckets -> [Times -> Nat]]
      BY <1>1, <1>2, <1>3
    <3>2. admitted' \in {admitted, counted, [counted EXCEPT ![Meter(x)][bucket[x]] = @ + 1]}
      BY <1>4 DEF overLimit, CountAll, AddressOf
    <3> HIDE DEF counted
    <3>3. [counted EXCEPT ![Meter(x)][bucket[x]] = @ + 1] \in [Buckets -> [Times -> Nat]]
      BY <1>2, <1>3, <3>1
    <3> QED
      BY <1>1, <3>1, <3>2, <3>3
  <2>3. (\E xs : Drop(xs)) \/ UNCHANGED metering
    BY <1>4 DEF overLimit, Answer, Goto
  <2> QED
    BY <2>1, <2>2, <2>3, LocalsWellTyped DEF MeterTyped
<1>5. CASE reserveAuthAttempt(x)
  <2>1. SumFunctionOnSet(auth_window[Meter(x)], Earlier(now)) \in Nat
    BY <1>1, <1>2, HourBefore
  <2>2. auth_window' = auth_window /\ admitted' = admitted
    BY <1>5 DEF reserveAuthAttempt, tables, history
  <2> QED
    BY <1>1, <1>5, <2>1, <2>2 DEF reserveAuthAttempt, MeterTyped
<1> QED
  BY <1>4, <1>5

\* Every step keeps the types.
LEMMA TypesKept == ASSUME IInv, [Next]_vars PROVE TypeOK'
<1> USE DEF IInv
<1>1. EnrolTyped'
  <2>1. ASSUME NEW x \in Executors, Handles(x) PROVE EnrolTyped'
    <3>1. consumed' \in {consumed, TRUE} /\ stranded' \in {stranded, (stranded \/ At(x, "registerDevice"))}
      BY <2>1 DEF Handles, bootstrapConsumed, bootstrapAgeMs, consumeBootstrap, registerDevice, verifyRequest,
                  storeWrappedKeys, reserveAuthAttempt, overLimit, getLoginCredential, createSession, requireSession,
                  getWrappedKeys, deleteSession, revokeDevice, Fails, tables, bootTables, history
    <3>2. device' \in {device, [device EXCEPT ![req[x].device] = "active"],
                       [device EXCEPT ![req[x].device] = "revoked"]}
      BY <2>1 DEF Handles, bootstrapConsumed, bootstrapAgeMs, consumeBootstrap, registerDevice, verifyRequest,
                  storeWrappedKeys, reserveAuthAttempt, overLimit, getLoginCredential, createSession, requireSession,
                  getWrappedKeys, deleteSession, revokeDevice, Fails, tables, bootTables
    <3> QED
      BY <3>1, <3>2 DEF EnrolTyped, TypeOK
  <2>2. ASSUME UNCHANGED <<consumed, device>>, stranded' \in BOOLEAN PROVE EnrolTyped'
    BY <2>2 DEF EnrolTyped, TypeOK
  <2>3. (\E i \in Instances : runMigrations(i) \/ migrationFails(i) \/ Recycle(i)) => EnrolTyped'
    BY <2>2 DEF runMigrations, migrationFails, Recycle, tables, history, TypeOK
  <2>4. (\E x \in Executors, r \in Requests : handleHttpRequest(x, r)) \/ Tick \/ UNCHANGED vars => EnrolTyped'
    BY <2>2 DEF handleHttpRequest, Tick, tables, history, vars, TypeOK
  <2> QED
    BY <2>1, <2>3, <2>4 DEF Next, Step, Handles
<1>2. KeysTyped'
  <2>1. ASSUME NEW x \in Executors, Handles(x) PROVE KeysTyped'
    BY <2>1, KeysWellTyped
    DEF Handles, bootstrapConsumed, bootstrapAgeMs, consumeBootstrap, registerDevice, verifyRequest,
        reserveAuthAttempt, overLimit, getLoginCredential, createSession, requireSession, getWrappedKeys,
        deleteSession, revokeDevice, Fails, tables, keyTables, history, keyHistory, KeysTyped, TypeOK
  <2>2. ASSUME UNCHANGED <<keyTables, keyHistory>> PROVE KeysTyped'
    BY <2>2 DEF keyTables, keyHistory, KeysTyped, TypeOK
  <2>3. (\E i \in Instances : runMigrations(i) \/ migrationFails(i) \/ Recycle(i)) => KeysTyped'
    BY <2>2 DEF runMigrations, migrationFails, Recycle, tables, keyTables, history, keyHistory
  <2>4. (\E x \in Executors, r \in Requests : handleHttpRequest(x, r)) \/ Tick \/ UNCHANGED vars => KeysTyped'
    BY <2>2 DEF handleHttpRequest, Tick, tables, keyTables, history, keyHistory, vars
  <2> QED
    BY <2>1, <2>3, <2>4 DEF Next, Step, Handles
<1>3. MeterTyped'
  <2>1. ASSUME UNCHANGED <<auth_window, admitted>>, (\E xs : Drop(xs)) \/ UNCHANGED metering PROVE MeterTyped'
    BY <2>1, LocalsWellTyped DEF MeterTyped, TypeOK
  <2>2. ASSUME NEW x \in Executors, Handles(x), ~overLimit(x), ~reserveAuthAttempt(x) PROVE MeterTyped'
    <3>1. UNCHANGED <<auth_window, admitted>>
      BY <2>2
      DEF Handles, bootstrapConsumed, bootstrapAgeMs, consumeBootstrap, registerDevice, verifyRequest,
          storeWrappedKeys, getLoginCredential, createSession, requireSession, getWrappedKeys,
          deleteSession, revokeDevice, Fails, tables, history
    <3>2. (\E xs : Drop(xs)) \/ UNCHANGED metering
      BY <2>2
      DEF Handles, bootstrapConsumed, bootstrapAgeMs, consumeBootstrap, registerDevice, verifyRequest,
          storeWrappedKeys, getLoginCredential, createSession, requireSession, getWrappedKeys,
          deleteSession, revokeDevice, Fails, Answer, Goto
    <3> QED
      BY <2>1, <3>1, <3>2
  <2>3. ASSUME NEW x \in Executors, NEW r \in Requests, handleHttpRequest(x, r) PROVE MeterTyped'
    BY <2>1, <2>3 DEF handleHttpRequest, tables, history
  <2>4. ASSUME NEW i \in Instances, runMigrations(i) \/ migrationFails(i) \/ Recycle(i) PROVE MeterTyped'
    BY <2>1, <2>4 DEF runMigrations, migrationFails, Recycle, Refuse500, tables, history
  <2>5. CASE Tick \/ UNCHANGED vars
    BY <2>1, <2>5 DEF Tick, tables, server, history, vars
  <2> QED
    BY <2>2, <2>3, <2>4, <2>5, MeterWellTyped DEF Next, Step, Handles
<1>4. SessionTyped'
  <2>1. ASSUME NEW x \in Executors, Handles(x) PROVE SessionTyped'
    <3>1. CASE requireSession(x)
      BY <3>1, SessionSlides DEF requireSession, SessionTyped, TypeOK
    <3>2. CASE createSession(x)
      BY <3>2, SessionMinted DEF createSession, SessionTyped, TypeOK
    <3>3. CASE deleteSession(x)
      <4>1. session' = [session EXCEPT ![req[x].token] = None] /\ granted' = granted
        BY <3>3 DEF deleteSession, WithoutRow
      <4> QED
        BY <3>3, <4>1, SessionDeleted DEF SessionTyped, TypeOK
    <3> QED
      BY <2>1, <3>1, <3>2, <3>3
      DEF Handles, bootstrapConsumed, bootstrapAgeMs, consumeBootstrap, registerDevice, verifyRequest,
          storeWrappedKeys, reserveAuthAttempt, overLimit, getLoginCredential, getWrappedKeys, revokeDevice, Fails, tables, history,
          SessionTyped, TypeOK
  <2> QED
    BY <2>1 DEF Next, Step, Handles, handleHttpRequest, runMigrations, migrationFails, Recycle, Tick, tables,
                history, vars, SessionTyped, TypeOK
<1>5. CountersTyped'
  <2>1. ASSUME NEW x \in Executors, Handles(x) PROVE CountersTyped'
    <3>1. /\ UNCHANGED <<now, schema, crossed, left>>
          /\ minted' \in {minted, minted + 1} /\ faults' \in {faults, faults + 1}
      BY <2>1
      DEF Handles, bootstrapConsumed, bootstrapAgeMs, consumeBootstrap, registerDevice, verifyRequest,
          storeWrappedKeys, reserveAuthAttempt, overLimit, getLoginCredential, createSession, requireSession, getWrappedKeys,
          deleteSession, revokeDevice, Fails, tables, bootTables, bounds
    <3> QED
      BY <3>1 DEF CountersTyped, TypeOK
  <2>2. ASSUME NEW x \in Executors, NEW r \in Requests, handleHttpRequest(x, r) PROVE CountersTyped'
    <3>1. /\ UNCHANGED <<now, schema, minted, faults>> /\ crossed' \subseteq crossed
          /\ left' = [left EXCEPT ![r] = @ - 1] /\ left[r] > 0
      BY <2>2 DEF handleHttpRequest, tables
    <3> QED
      BY <3>1 DEF CountersTyped, TypeOK
  <2>3. CASE Tick
    <3>1. now' = now + 1 /\ now < MaxTime /\ crossed' \subseteq Executors /\ UNCHANGED <<schema, left, minted, faults>>
      BY <2>3 DEF Tick, tables, bounds
    <3> QED
      BY <3>1, ParameterAssumption DEF CountersTyped, TypeOK, Times
  <2>4. ASSUME NEW i \in Instances, runMigrations(i) \/ migrationFails(i) \/ Recycle(i) PROVE CountersTyped'
    <3>1. /\ UNCHANGED <<now, crossed, left, minted>> /\ schema' \in {schema, now} /\ faults' \in {faults, faults + 1}
      BY <2>4 DEF runMigrations, migrationFails, Recycle, tables, bounds
    <3> QED
      BY <3>1 DEF CountersTyped, TypeOK
  <2>5. CASE UNCHANGED vars
    BY <2>5 DEF vars, tables, bounds, CountersTyped, TypeOK
  <2> QED
    BY <2>1, <2>2, <2>3, <2>4, <2>5 DEF Next, Step, Handles
<1> QED
  BY <1>1, <1>2, <1>3, <1>4, <1>5, ServingTyped
  DEF TypeOK, EnrolTyped, KeysTyped, MeterTyped, SessionTyped, CountersTyped

-----------------------------------------------------------------------------
(* The theorems *)

-----------------------------------------------------------------------------
(* The meters *)

\* The counts of the invariant are naturals.
LEMMA CountsTyped ==
  ASSUME TypeOK, NEW v \in Buckets, NEW b \in Times
  PROVE  /\ InFlight(v, b) \in SUBSET Executors /\ LetThrough(v, b) \in SUBSET Executors
         /\ Before(v, b) \in Nat /\ Let(v, b) \in Nat
<1>1. InFlight(v, b) \in SUBSET Executors /\ LetThrough(v, b) \in SUBSET Executors
  BY DEF InFlight, LetThrough
<1>2. auth_window[v] \in [Times -> Nat] /\ admitted[v][b] \in Nat
  BY DEF TypeOK
<1>3. SumFunctionOnSet(auth_window[v], Earlier(b)) \in Nat
  BY <1>2, HourBefore
<1>4. Cardinality(InFlight(v, b)) \in Nat /\ Cardinality(LetThrough(v, b)) \in Nat
  BY <1>1, SomeExecutors
<1> QED
  BY <1>1, <1>2, <1>3, <1>4 DEF Before, Let

\* The same of the counts after a step.
LEMMA CountsTypedNext ==
  ASSUME TypeOK', NEW v \in Buckets, NEW b \in Times
  PROVE  /\ InFlight(v, b)' \in SUBSET Executors /\ LetThrough(v, b)' \in SUBSET Executors
         /\ Before(v, b)' \in Nat /\ Let(v, b)' \in Nat
<1>1. InFlight(v, b)' \in SUBSET Executors /\ LetThrough(v, b)' \in SUBSET Executors
  BY DEF InFlight, LetThrough
<1>2. auth_window'[v] \in [Times -> Nat] /\ admitted'[v][b] \in Nat
  BY DEF TypeOK
<1>3. SumFunctionOnSet(auth_window'[v], Earlier(b)) \in Nat
  BY <1>2, HourBefore
<1>4. Cardinality(InFlight(v, b)') \in Nat /\ Cardinality(LetThrough(v, b)') \in Nat
  BY <1>1, SomeExecutors
<1> QED
  BY <1>1, <1>2, <1>3, <1>4 DEF Before, Let

\* A step after which fewer uploads count, and no reservation is new, keeps the caps.
LEMMA CapsCarry ==
  ASSUME IInv, TypeOK', now' >= now, auth_window' = auth_window,
         \A v \in Buckets, m \in Times : Let(v, m)' <= Let(v, m) /\ Before(v, m)' <= Before(v, m),
         \A x \in Executors : pc'[x] \in Locks => Waits(x)
  PROVE  Metered'
<1> USE DEF IInv
<1>0. (\A b \in Buckets : CapOf(b) \in Nat) /\ Cardinality(Executors) \in Nat
  BY CapsCount, SomeExecutors
<1>1. ASSUME NEW v \in Buckets, NEW m \in Times
      PROVE  /\ m > now' => auth_window'[v][m] = 0
             /\ Let(v, m)' <= auth_window'[v][m]
             /\ Let(v, m)' > 0 =>
                  Before(v, m)' + Let(v, m)' <= CapOf(v) + Cardinality(Executors) - 1
  <2>1. /\ m > now => auth_window[v][m] = 0
        /\ Let(v, m) <= auth_window[v][m]
        /\ Let(v, m) > 0 => Before(v, m) + Let(v, m) <= CapOf(v) + Cardinality(Executors) - 1
    BY DEF Metered
  <2>2. /\ Let(v, m) \in Nat /\ Before(v, m) \in Nat /\ Let(v, m)' \in Nat /\ Before(v, m)' \in Nat
        /\ auth_window[v][m] \in Nat /\ now \in Nat /\ now' \in Nat /\ m \in Nat
    <3>1. Let(v, m) \in Nat /\ Before(v, m) \in Nat
      BY CountsTyped
    <3>2. Let(v, m)' \in Nat /\ Before(v, m)' \in Nat
      BY CountsTypedNext
    <3>3. auth_window[v][m] \in Nat /\ now \in Times /\ now' \in Times
      BY DEF TypeOK
    <3> QED
      BY <3>1, <3>2, <3>3, TimesCount
  <2>3. Let(v, m)' <= Let(v, m) /\ Before(v, m)' <= Before(v, m)
    OBVIOUS
  <2> QED
    BY <1>0, <2>1, <2>2, <2>3
<1>2. ASSUME NEW x \in Executors, NEW v \in Buckets, NEW b \in Times,
             pc'[x] \in Locks, Meter(x)' = v, bucket'[x] = b
      PROVE  Before(v, b)' <= attempts'[x] + Cardinality(Executors) - 1
  <2>1. pc[x] \in Locks /\ Meter(x) = v /\ bucket[x] = b /\ attempts'[x] = attempts[x]
    BY <1>2 DEF Waits, Meter, Scope
  <2>2. attempts[x] \in Nat
    BY DEF TypeOK
  <2>3. Before(v, b) <= attempts[x] + Cardinality(Executors) - 1
    BY <2>1 DEF Metered
  <2>4. Before(v, b)' <= Before(v, b)
    OBVIOUS
  <2>5. Before(v, b) \in Nat
    BY CountsTyped
  <2>6. Before(v, b)' \in Nat
    BY CountsTypedNext
  <2> QED
    BY <1>0, <2>1, <2>2, <2>3, <2>4, <2>5, <2>6
<1>3. ASSUME NEW x \in Executors, pc'[x] \in Locks
      PROVE  /\ bucket'[x] <= now' /\ (pc'[x] = "addressLock" => arrived'[x] = bucket'[x])
             /\ Before(Meter(x), bucket[x])' <= attempts'[x] + Cardinality(Executors) - 1
  <2>1. pc[x] = pc'[x] /\ req[x] = req'[x] /\ bucket[x] = bucket'[x] /\ arrived[x] = arrived'[x] /\ pc[x] \in Locks
    BY <1>3 DEF Waits
  <2>2. PICK v \in Buckets, b \in Times : Meter(x)' = v /\ bucket'[x] = b
    <3>1. Meter(x)' = Meter(x) /\ Meter(x) \in Buckets /\ bucket'[x] \in Times
      BY <2>1, AtTheMeters DEF Meter, Scope, Locks, TypeOK
    <3> HIDE DEF IInv
    <3> QED
      BY <3>1, Zenon
  <2>3. Before(v, b)' <= attempts'[x] + Cardinality(Executors) - 1
    BY <1>2, <1>3, <2>2
  <2>4. Before(Meter(x), bucket[x])' = Before(v, b)'
    BY <2>2 DEF Before, InFlight
  <2>5. now \in Nat /\ now' \in Nat /\ bucket[x] \in Nat
    BY TimesCount DEF TypeOK
  <2>6. bucket[x] <= now /\ (pc[x] = "addressLock" => arrived[x] = bucket[x])
    BY <2>1 DEF Metered
  <2> QED
    BY <2>1, <2>3, <2>4, <2>5, <2>6
<1> QED
  BY <1>1, <1>3 DEF Metered

\* Whoever is not at a meter leaves the counts alone, or takes its own away.
LEMMA MetersUntouched ==
  ASSUME IInv, TypeOK', now' >= now, UNCHANGED <<auth_window, admitted>>,
         \A x \in Executors : pc'[x] \in {"addressLock", "meterAll", "allLock"} => Waits(x)
  PROVE  Metered'
<1>1. ASSUME NEW v \in Buckets, NEW m \in Times PROVE Let(v, m)' <= Let(v, m) /\ Before(v, m)' <= Before(v, m)
  <2>1. InFlight(v, m)' \subseteq InFlight(v, m) /\ LetThrough(v, m)' \subseteq LetThrough(v, m)
    BY DEF InFlight, LetThrough, Waits, Meter, AddressOf, Scope, Locks
  <2>2. /\ InFlight(v, m) \in SUBSET Executors /\ LetThrough(v, m) \in SUBSET Executors
        /\ InFlight(v, m)' \in SUBSET Executors /\ LetThrough(v, m)' \in SUBSET Executors
    BY CountsTyped, CountsTypedNext DEF IInv
  <2>3. /\ Cardinality(InFlight(v, m)') <= Cardinality(InFlight(v, m))
        /\ Cardinality(InFlight(v, m)) \in Nat /\ Cardinality(InFlight(v, m)') \in Nat
    BY <2>1, <2>2, SomeExecutors
  <2>4. /\ Cardinality(LetThrough(v, m)') <= Cardinality(LetThrough(v, m))
        /\ Cardinality(LetThrough(v, m)) \in Nat /\ Cardinality(LetThrough(v, m)') \in Nat
    BY <2>1, <2>2, SomeExecutors
  <2>5. admitted[v][m] \in Nat /\ SumFunctionOnSet(auth_window[v], Earlier(m)) \in Nat
    BY HourBefore DEF IInv, TypeOK
  <2> QED
    BY <2>3, <2>4, <2>5 DEF Let, Before
<1>2. \A x \in Executors : pc'[x] \in Locks => Waits(x)
  BY DEF Locks
<1> QED
  BY <1>1, <1>2, CapsCarry

\* A reservation counts what it sees: what it misses is in flight.
LEMMA CapsReserve == ASSUME IInv, TypeOK', NEW x \in Executors, reserveAuthAttempt(x) PROVE Metered'
<1> USE DEF IInv
<1>1. /\ pc[x] \in {"meterAddress", "meterAll"}
      /\ pc' = [pc EXCEPT ![x] = IF pc[x] = "meterAddress" THEN "addressLock" ELSE "allLock"]
      /\ bucket' = [bucket EXCEPT ![x] = now]
      /\ attempts' = [attempts EXCEPT ![x] = SumFunctionOnSet(auth_window[Meter(x)], Earlier(now))]
      /\ arrived' = (IF pc[x] = "meterAddress" THEN [arrived EXCEPT ![x] = now] ELSE arrived)
      /\ now' = now /\ req' = req /\ auth_window' = auth_window /\ admitted' = admitted
  BY DEF reserveAuthAttempt, At, tables, history
<1>2. /\ pc'[x] = (IF pc[x] = "meterAddress" THEN "addressLock" ELSE "allLock") /\ bucket'[x] = now
      /\ attempts'[x] = SumFunctionOnSet(auth_window[Meter(x)], Earlier(now))
      /\ arrived'[x] = (IF pc[x] = "meterAddress" THEN now ELSE arrived[x])
      /\ \A y \in Executors : y # x => Waits(y)
  BY <1>1 DEF TypeOK, Waits
<1>3. \A v \in Buckets, b \in Times : LetThrough(v, b)' = LetThrough(v, b)
  <2> SUFFICES ASSUME NEW v \in Buckets, NEW b \in Times, NEW y \in Executors
               PROVE  y \in LetThrough(v, b)' <=> y \in LetThrough(v, b)
    BY DEF LetThrough
  <2> QED
    BY <1>1, <1>2 DEF LetThrough, AddressOf, Waits
<1>4. \A v \in Buckets, b \in Times : b <= now => InFlight(v, b)' = InFlight(v, b)
  <2> SUFFICES ASSUME NEW v \in Buckets, NEW b \in Times, b <= now, NEW y \in Executors
               PROVE  y \in InFlight(v, b)' <=> y \in InFlight(v, b)
    BY DEF InFlight
  <2>1. CASE y = x
    <3>0. b \in Nat /\ now \in Nat
      BY TimesCount DEF TypeOK
    <3>1. ~(bucket'[x] < b) /\ pc[x] \notin Locks
      BY <1>1, <1>2, <3>0 DEF Locks
    <3> QED
      BY <2>1, <3>1 DEF InFlight
  <2>2. CASE y # x
    BY <1>2, <2>2 DEF InFlight, Meter, Scope, Waits
  <2> QED
    BY <2>1, <2>2
<1>5. \A v \in Buckets, b \in Times : Let(v, b)' = Let(v, b)
  BY <1>1, <1>3 DEF Let
<1>6. \A v \in Buckets, b \in Times : b <= now => Before(v, b)' = Before(v, b)
  BY <1>1, <1>4 DEF Before
<1>7. ASSUME NEW v \in Buckets, NEW m \in Times
      PROVE  /\ m > now' => auth_window'[v][m] = 0
             /\ Let(v, m)' <= auth_window'[v][m]
             /\ Let(v, m)' > 0 =>
                  Before(v, m)' + Let(v, m)' <= CapOf(v) + Cardinality(Executors) - 1
  <2>1. /\ m > now => auth_window[v][m] = 0
        /\ Let(v, m) <= auth_window[v][m]
        /\ Let(v, m) > 0 => Before(v, m) + Let(v, m) <= CapOf(v) + Cardinality(Executors) - 1
    BY DEF Metered
  <2>2. Let(v, m) \in Nat /\ now \in Nat /\ m \in Nat
    <3>1. Let(v, m) \in Nat
      BY CountsTyped
    <3>2. now \in Times
      BY DEF TypeOK
    <3> QED
      BY <3>1, <3>2, TimesCount
  <2>3. Let(v, m) > 0 => m <= now
    BY <2>1, <2>2
  <2> QED
    BY <1>1, <1>5, <1>6, <2>1, <2>3
<1>8. ASSUME NEW y \in Executors, pc'[y] \in Locks
      PROVE  /\ bucket'[y] <= now' /\ (pc'[y] = "addressLock" => arrived'[y] = bucket'[y])
             /\ Before(Meter(y), bucket[y])' <= attempts'[y] + Cardinality(Executors) - 1
  <2>1. CASE y = x
    <3>1. PICK v \in Buckets : Meter(x) = v
      BY <1>1, AtTheMeters
    <3>2. Meter(x)' = v
      BY <1>1, <1>2, <3>1 DEF Meter, Scope
    <3>3. now \in Times /\ now \in Nat /\ now <= now
      BY TimesCount DEF TypeOK
    <3>4. Before(Meter(y), bucket[y])' = Before(v, now)'
      <4>1. Meter(y)' = v /\ bucket'[y] = now'
        BY <1>1, <1>2, <2>1, <3>2
      <4>2. now' = now
        BY <1>1
      <4>3. InFlight(Meter(y), bucket[y])' = InFlight(v, now)'
        BY <4>1 DEF InFlight
      <4> QED
        BY <4>1, <4>3 DEF Before
    <3>5. Before(v, now)' = Before(v, now)
      <4>1. PICK b \in Times : b = now
        BY <3>3
      <4>2. Before(v, b)' = Before(v, b)
        BY <1>6, <3>3, <4>1
      <4>3. InFlight(v, now)' = InFlight(v, b)' /\ InFlight(v, b) = InFlight(v, now)
        BY <1>1, <4>1 DEF InFlight
      <4> QED
        BY <1>1, <4>1, <4>2, <4>3 DEF Before
    <3>6. Cardinality(InFlight(v, now)) <= Cardinality(Executors) - 1
      <4>1. InFlight(v, now) \in SUBSET Executors /\ x \in Executors \ InFlight(v, now)
        BY <1>1 DEF InFlight, Locks
      <4> QED
        BY <4>1, SomeExecutors
    <3>7. attempts'[y] = SumFunctionOnSet(auth_window[v], Earlier(now)) /\ attempts'[y] \in Nat
      BY <1>2, <2>1, <3>1 DEF TypeOK
    <3>8. Cardinality(InFlight(v, now)) \in Nat /\ Cardinality(Executors) \in Nat
      BY <3>3, CountsTyped, SomeExecutors
    <3>9. Before(v, now) = attempts'[y] + Cardinality(InFlight(v, now))
      BY <3>7 DEF Before
    <3>10. Before(Meter(y), bucket[y])' <= attempts'[y] + Cardinality(Executors) - 1
      BY <3>4, <3>5, <3>6, <3>7, <3>8, <3>9
    <3> QED
      BY <1>1, <1>2, <2>1, <3>3, <3>10
  <2>2. CASE y # x
    <3>1. pc[y] = pc'[y] /\ req[y] = req'[y] /\ bucket[y] = bucket'[y] /\ arrived[y] = arrived'[y]
          /\ attempts[y] = attempts'[y] /\ pc[y] \in Locks
      BY <1>2, <1>8, <2>2 DEF Waits
    <3>2. bucket[y] <= now /\ (pc[y] = "addressLock" => arrived[y] = bucket[y])
          /\ Before(Meter(y), bucket[y]) <= attempts[y] + Cardinality(Executors) - 1
      BY <3>1 DEF Metered
    <3>3. PICK v \in Buckets, b \in Times : Meter(y) = v /\ bucket[y] = b
      <4>1. Meter(y) \in Buckets /\ bucket[y] \in Times
        BY <3>1, AtTheMeters DEF Locks, TypeOK
      <4> HIDE DEF IInv
      <4> QED
        BY <4>1, Zenon
    <3>4. Meter(y)' = v /\ bucket'[y] = b
      BY <3>1, <3>3 DEF Meter, Scope
    <3>5. Before(Meter(y), bucket[y])' = Before(v, b)' /\ Before(Meter(y), bucket[y]) = Before(v, b)
      BY <3>3, <3>4 DEF Before, InFlight
    <3>6. Before(v, b)' = Before(v, b)
      BY <1>6, <3>2, <3>3
    <3> QED
      BY <1>1, <3>1, <3>2, <3>5, <3>6
  <2> QED
    BY <2>1, <2>2
<1> QED
  BY <1>7, <1>8 DEF Metered

\* What leaves a handler leaves its reservation too, and no one else's.
LEMMA Leaving ==
  ASSUME IInv, NEW x \in Executors, NEW code, Answer(x, code)
  PROVE  pc'[x] = "idle" /\ \A y \in Executors : y # x => Waits(y)
BY DEF IInv, TypeOK, Answer, Drop, Waits

\* One attempt that its meter judges: its count is within the cap, and it counts among
\* those that meter lets through; or it does not.
LEMMA LockLetsThrough ==
  ASSUME IInv, TypeOK', NEW x \in Executors, overLimit(x),
         NEW w \in Buckets, NEW c \in Times, NEW e \in Nat, Meter(x) = w, bucket[x] = c, attempts[x] = e,
         auth_window'[w][c] \in Nat, \A y \in Executors : y # x => Waits(y),
         NEW v \in Buckets, NEW b \in Times
  PROVE  \/ Let(v, b)' = Let(v, b)
         \/ v = w /\ b = c /\ e + auth_window'[w][c] <= CapOf(w) /\ Let(v, b)' = Let(v, b) + 1
<1> USE DEF IInv
<1> DEFINE over == e + auth_window'[w][c] > CapOf(w)
           mine == AddressOf(x)
<1>1. LetThrough(v, b) \in SUBSET Executors /\ LetThrough(v, b)' \in SUBSET Executors
      /\ Cardinality(LetThrough(v, b)) \in Nat /\ Cardinality(LetThrough(v, b)') \in Nat
  BY SomeExecutors DEF LetThrough
<1>2. admitted \in [Buckets -> [Times -> Nat]] /\ admitted[v][b] \in Nat /\ CapOf(w) \in Nat
  BY CapsCount DEF TypeOK
<1>3. ASSUME NEW y \in Executors, y # x PROVE y \in LetThrough(v, b)' <=> y \in LetThrough(v, b)
  BY <1>3 DEF LetThrough, Waits, AddressOf
<1>4. CASE At(x, "addressLock")
  <2>1. /\ w = mine /\ mine \in Buckets /\ mine[2] # "all" /\ admitted' = admitted
        /\ arrived[x] = c /\ x \notin LetThrough(v, b)
    <3>1. w = mine /\ mine \in Buckets /\ mine[2] # "all"
      BY <1>4, AtTheMeters DEF At
    <3>2. Scope(x) # "all"
      BY <3>1 DEF Meter
    <3> QED
      BY <1>4, <3>1, <3>2 DEF overLimit, At, Metered, LetThrough, Locks
  <2>2. CASE over
    <3>1. pc'[x] = "idle"
      BY <1>4, <2>2, Leaving DEF overLimit
    <3>2. LetThrough(v, b)' = LetThrough(v, b)
      BY <1>1, <1>3, <2>1, <3>1 DEF LetThrough
    <3> QED
      BY <2>1, <3>2 DEF Let
  <2>3. CASE ~over
    <3>1. pc'[x] = "meterAll" /\ req' = req /\ arrived' = arrived
      BY <1>4, <2>3 DEF overLimit, At, Goto, metering, TypeOK
    <3>2. x \in LetThrough(v, b)' <=> v = w /\ b = c
      BY <2>1, <3>1 DEF LetThrough, AddressOf
    <3>3. CASE v = w /\ b = c
      <4>1. LetThrough(v, b)' = LetThrough(v, b) \cup {x}
        BY <1>1, <1>3, <3>2, <3>3
      <4>2. Cardinality(LetThrough(v, b)') = Cardinality(LetThrough(v, b)) + 1
        BY <1>1, <2>1, <4>1, SomeExecutors
      <4> QED
        BY <1>1, <1>2, <2>1, <2>3, <3>3, <4>2 DEF Let
    <3>4. CASE ~(v = w /\ b = c)
      <4>1. LetThrough(v, b)' = LetThrough(v, b)
        BY <1>1, <1>3, <2>1, <3>2, <3>4
      <4> QED
        BY <2>1, <4>1 DEF Let
    <3> QED
      BY <3>3, <3>4
  <2> QED
    BY <2>2, <2>3
<1>5. CASE At(x, "allLock")
  <2>1. PICK a \in Times : arrived[x] = a
    BY DEF TypeOK
  <2>2. mine \in Buckets /\ w # mine /\ Scope(x) = "all"
    BY <1>5, AtTheMeters DEF At, Scope
  <2>3. pc'[x] \notin {"meterAll", "allLock"}
    <3>1. Answer(x, 429) \/ Answer(x, 400) \/ Goto(x, "getLoginCredential")
      BY <1>5 DEF overLimit, At
    <3>2. CASE Goto(x, "getLoginCredential")
      BY <3>2 DEF Goto, TypeOK
    <3> QED
      BY <3>1, <3>2, Leaving
  <2>4. x \notin LetThrough(v, b)' /\ (x \in LetThrough(v, b) <=> v = mine /\ b = a)
    BY <1>5, <2>1, <2>3 DEF LetThrough, At
  <2>5. LetThrough(v, b)' = LetThrough(v, b) \ {x}
    BY <1>1, <1>3, <2>4
  <2>6. admitted'[v][b] = IF v = mine /\ b = a THEN admitted[v][b] + 1
                          ELSE IF v = w /\ b = c /\ ~over THEN admitted[v][b] + 1 ELSE admitted[v][b]
    <3> DEFINE counted == [admitted EXCEPT ![mine][a] = @ + 1]
    <3>1. admitted' = IF ~over THEN [counted EXCEPT ![w][c] = @ + 1] ELSE counted
      BY <1>5, <2>1, <2>2 DEF overLimit, CountAll, AddressOf
    <3>2. counted \in [Buckets -> [Times -> Nat]]
          /\ counted[v][b] = (IF v = mine /\ b = a THEN admitted[v][b] + 1 ELSE admitted[v][b])
      <4>1. [admitted[mine] EXCEPT ![a] = @ + 1] \in [Times -> Nat]
        BY <1>2, <2>2
      <4> QED
        BY <1>2, <2>2, <4>1
    <3> HIDE DEF counted, over, mine
    <3>3. ~over => admitted'[v][b] = IF v = w /\ b = c THEN counted[v][b] + 1 ELSE counted[v][b]
      <4>1. [counted[w] EXCEPT ![c] = @ + 1] \in [Times -> Nat]
        BY <3>2
      <4> QED
        BY <3>1, <3>2, <4>1
    <3> QED
      BY <2>2, <3>1, <3>2, <3>3
  <2>7. CASE v = mine /\ b = a
    <3>1. LetThrough(v, b) = (LetThrough(v, b)') \cup {x}
      BY <2>4, <2>5, <2>7
    <3>2. Cardinality(LetThrough(v, b)) = Cardinality(LetThrough(v, b)') + 1
      BY <1>1, <2>4, <2>7, <3>1, SomeExecutors
    <3> QED
      BY <1>1, <1>2, <2>6, <2>7, <3>2 DEF Let
  <2>8. CASE ~(v = mine /\ b = a)
    <3>1. LetThrough(v, b)' = LetThrough(v, b)
      BY <2>4, <2>5, <2>8
    <3> QED
      BY <1>1, <1>2, <2>6, <2>8, <3>1 DEF Let
  <2> QED
    BY <2>7, <2>8
<1> QED
  BY <1>4, <1>5 DEF overLimit, At

\* A reservation whose count lets it through leaves no more before it than it counted,
\* and takes its place in its own bucket.
LEMMA CapsLock == ASSUME IInv, TypeOK', NEW x \in Executors, overLimit(x) PROVE Metered'
<1> USE DEF IInv
<1> DEFINE N == Cardinality(Executors)
<1>0. (\A b \in Buckets : CapOf(b) \in Nat) /\ N \in Nat
  BY CapsCount, SomeExecutors
<1> HIDE DEF N
<1>1. PICK w \in Buckets, c \in Times, e \in Nat : Meter(x) = w /\ bucket[x] = c /\ attempts[x] = e
  <2>1. Meter(x) \in Buckets
    BY AtTheMeters DEF overLimit
  <2>2. bucket[x] \in Times /\ attempts[x] \in Nat
    BY DEF TypeOK
  <2> HIDE DEF IInv
  <2> QED
    BY <2>1, <2>2, Zenon
<1>2. /\ pc[x] \in Locks
      /\ auth_window' = [auth_window EXCEPT ![w][c] = @ + 1]
      /\ now' = now /\ \A y \in Executors : y # x => Waits(y)
      /\ pc'[x] \notin Locks
  <2>1. pc[x] \in Locks /\ auth_window' = [auth_window EXCEPT ![w][c] = @ + 1] /\ now' = now
    BY <1>1 DEF overLimit, Locks
  <2>2. Answer(x, 429) \/ Answer(x, 400) \/ Goto(x, "meterAll") \/ Goto(x, "getLoginCredential")
    BY DEF overLimit
  <2>3. CASE Answer(x, 429) \/ Answer(x, 400)
    BY <2>1, <2>3, Leaving DEF Locks
  <2>4. CASE Goto(x, "meterAll") \/ Goto(x, "getLoginCredential")
    BY <2>1, <2>4 DEF Goto, metering, Waits, TypeOK, Locks
  <2> QED
    BY <2>1, <2>2, <2>3, <2>4
<1>3. /\ \A v \in Buckets, m \in Times :
           /\ auth_window[v][m] \in Nat
           /\ auth_window'[v][m] = IF v = w /\ m = c THEN auth_window[v][m] + 1 ELSE auth_window[v][m]
      /\ \A v \in Buckets : auth_window[v] \in [Times -> Nat] /\ auth_window'[v] \in [Times -> Nat]
  <2>1. auth_window \in [Buckets -> [Times -> Nat]] /\ auth_window' \in [Buckets -> [Times -> Nat]]
    BY DEF TypeOK
  <2>2. auth_window'[w] = [auth_window[w] EXCEPT ![c] = @ + 1] /\ \A v \in Buckets : v # w => auth_window'[v] = auth_window[v]
    BY <1>2, <2>1
  <2> QED
    BY <2>1, <2>2
<1>5. Before(w, c) <= e + N - 1
  BY <1>1, <1>2 DEF Metered, N
<1>6. ASSUME NEW v \in Buckets, NEW b \in Times PROVE InFlight(v, b)' = InFlight(v, b) \ {x}
  <2> SUFFICES ASSUME NEW y \in Executors PROVE y \in InFlight(v, b)' <=> y \in InFlight(v, b) \ {x}
    BY DEF InFlight
  <2> QED
    BY <1>2 DEF InFlight, Waits, Meter, Scope
<1>7. ASSUME NEW v \in Buckets, NEW b \in Times PROVE Before(v, b)' <= Before(v, b)
  <2>1. /\ Earlier(b) \in SUBSET Times /\ IsFiniteSet(Earlier(b)) /\ \A m \in Earlier(b) : m < b
        /\ SumFunctionOnSet(auth_window[v], Earlier(b)) \in Nat
        /\ SumFunctionOnSet(auth_window'[v], Earlier(b)) \in Nat
    BY <1>3, HourBefore
  <2>2. InFlight(v, b) \in SUBSET Executors /\ InFlight(v, b)' \in SUBSET Executors
    BY CountsTyped, CountsTypedNext
  <2>3. /\ Cardinality(InFlight(v, b)) \in Nat /\ Cardinality(InFlight(v, b)') \in Nat
        /\ Cardinality(InFlight(v, b)') <= Cardinality(InFlight(v, b))
    BY <1>6, <2>2, SomeExecutors
  <2>4. CASE v = w /\ c \in Earlier(b)
    <3>1. \A m \in Earlier(b) \ {c} : auth_window'[v][m] = auth_window[v][m]
      BY <1>3, <2>1
    <3>2. SumFunctionOnSet(auth_window'[v], Earlier(b))
            = (SumFunctionOnSet(auth_window[v], Earlier(b)) - auth_window[v][c]) + auth_window'[v][c]
      BY <1>3, <2>1, <2>4, <3>1, SumOneChanges
    <3>3. auth_window'[v][c] = auth_window[v][c] + 1 /\ auth_window[v][c] \in Nat
      BY <1>3, <2>4
    <3>4. x \in InFlight(v, b)
      BY <1>1, <1>2, <2>1, <2>4 DEF InFlight
    <3>5. InFlight(v, b) = (InFlight(v, b)') \cup {x} /\ x \notin InFlight(v, b)'
      BY <1>6, <3>4
    <3>6. Cardinality(InFlight(v, b)) = Cardinality(InFlight(v, b)') + 1
      BY <2>2, <3>4, <3>5, SomeExecutors
    <3> QED
      BY <2>1, <2>3, <3>2, <3>3, <3>6 DEF Before
  <2>5. CASE ~(v = w /\ c \in Earlier(b))
    <3>1. \A m \in Earlier(b) : auth_window'[v][m] = auth_window[v][m]
      BY <1>3, <2>1, <2>5
    <3>2. SumFunctionOnSet(auth_window'[v], Earlier(b)) = SumFunctionOnSet(auth_window[v], Earlier(b))
      BY <1>3, <2>1, <3>1, SumSame
    <3> QED
      BY <2>1, <2>3, <3>2 DEF Before
  <2> QED
    BY <2>4, <2>5
<1>8. ASSUME NEW v \in Buckets, NEW b \in Times
      PROVE  Let(v, b)' = Let(v, b) \/ (v = w /\ b = c /\ e + auth_window'[w][c] <= CapOf(w) /\ Let(v, b)' = Let(v, b) + 1)
  BY <1>1, <1>2, <1>3, LockLetsThrough
<1>9. ASSUME NEW v \in Buckets, NEW m \in Times
      PROVE  /\ m > now' => auth_window'[v][m] = 0
             /\ Let(v, m)' <= auth_window'[v][m]
             /\ Let(v, m)' > 0 => Before(v, m)' + Let(v, m)' <= CapOf(v) + N - 1
  <2>1. /\ m > now => auth_window[v][m] = 0
        /\ Let(v, m) <= auth_window[v][m]
        /\ Let(v, m) > 0 => Before(v, m) + Let(v, m) <= CapOf(v) + N - 1
    BY DEF Metered, N
  <2>2. /\ Let(v, m) \in Nat /\ Before(v, m) \in Nat
    BY CountsTyped
  <2>3. Let(v, m)' \in Nat /\ Before(v, m)' \in Nat
    BY CountsTypedNext
  <2>4. c <= now /\ c \in Nat /\ m \in Nat /\ now \in Nat
    <3>1. c <= now /\ now \in Times
      BY <1>1, <1>2 DEF Metered, TypeOK
    <3> QED
      BY <3>1, TimesCount
  <2>5. Before(v, m)' <= Before(v, m)
    BY <1>7
  <2>6. auth_window[v][m] \in Nat /\ (v = w /\ m = c => auth_window'[v][m] = auth_window[v][m] + 1)
        /\ (~(v = w /\ m = c) => auth_window'[v][m] = auth_window[v][m])
    BY <1>3
  <2>7. m > now' => auth_window'[v][m] = 0
    BY <1>2, <2>1, <2>4, <2>6
  <2>8. CASE Let(v, m)' = Let(v, m)
    BY <1>0, <2>1, <2>2, <2>3, <2>5, <2>6, <2>7, <2>8
  <2>9. CASE v = w /\ m = c /\ e + auth_window'[w][c] <= CapOf(w) /\ Let(v, m)' = Let(v, m) + 1
    <3>1. Let(v, m)' <= auth_window'[v][m]
      BY <2>1, <2>2, <2>6, <2>9
    <3>2. Before(v, m)' <= e + N - 1 /\ e + auth_window'[v][m] <= CapOf(v)
      BY <1>0, <1>5, <2>2, <2>3, <2>5, <2>9
    <3> QED
      BY <1>0, <2>3, <2>6, <2>7, <2>9, <3>1, <3>2
  <2> QED
    BY <1>8, <2>8, <2>9
<1>10. ASSUME NEW y \in Executors, pc'[y] \in Locks
       PROVE  /\ bucket'[y] <= now' /\ (pc'[y] = "addressLock" => arrived'[y] = bucket'[y])
              /\ Before(Meter(y), bucket[y])' <= attempts'[y] + Cardinality(Executors) - 1
  <2>1. y # x /\ pc[y] = pc'[y] /\ req[y] = req'[y] /\ bucket[y] = bucket'[y] /\ arrived[y] = arrived'[y]
        /\ attempts[y] = attempts'[y] /\ pc[y] \in Locks
    BY <1>2, <1>10 DEF Waits
  <2>2. PICK v \in Buckets, b \in Times : Meter(y) = v /\ bucket[y] = b
    <3>1. Meter(y) \in Buckets /\ bucket[y] \in Times
      BY <2>1, AtTheMeters DEF Locks, TypeOK
    <3> HIDE DEF IInv
    <3> QED
      BY <3>1, Zenon
  <2>3. Before(v, b) <= attempts[y] + N - 1 /\ attempts[y] \in Nat
        /\ bucket[y] <= now /\ (pc[y] = "addressLock" => arrived[y] = bucket[y])
    BY <2>1, <2>2 DEF Metered, TypeOK, N
  <2>4. Before(v, b)' <= Before(v, b)
    BY <1>7
  <2>5. Before(v, b) \in Nat
    BY CountsTyped
  <2>6. Before(v, b)' \in Nat
    BY CountsTypedNext
  <2>7. Meter(y)' = v /\ bucket'[y] = b
    BY <2>1, <2>2 DEF Meter, Scope
  <2>8. Before(Meter(y), bucket[y])' = Before(v, b)'
    BY <2>7 DEF Before, InFlight
  <2>9. Before(v, b)' <= attempts'[y] + N - 1
    BY <1>0, <2>1, <2>3, <2>4, <2>5, <2>6
  <2>10. now' = now
    BY <1>2
  <2> QED
    BY <2>1, <2>3, <2>8, <2>9, <2>10 DEF N
<1> QED
  BY <1>9, <1>10 DEF Metered, N

\* Every step keeps the meters.
LEMMA MetersKept == ASSUME IInv, [Next]_vars PROVE Metered'
<1> USE DEF IInv, At
<1>0. TypeOK' /\ now \in Nat /\ now >= now
  BY TypesKept, TimesCount DEF TypeOK
<1> DEFINE apart == {"addressLock", "meterAll", "allLock"}
<1>1. ASSUME NEW x \in Executors, overLimit(x) \/ reserveAuthAttempt(x) PROVE Metered'
  BY <1>0, <1>1, CapsLock, CapsReserve
<1>2. ASSUME NEW x \in Executors, Handles(x), ~overLimit(x), ~reserveAuthAttempt(x) PROVE Metered'
  <2>1. UNCHANGED <<auth_window, admitted, now>>
    BY <1>2 DEF Handles, bootstrapConsumed, bootstrapAgeMs, consumeBootstrap, registerDevice, verifyRequest,
                storeWrappedKeys, getLoginCredential, createSession, requireSession, getWrappedKeys,
                deleteSession, revokeDevice, Fails, tables, history
  <2>2. (\E code : Answer(x, code)) \/ (\E s \in Statements \ apart : Goto(x, s))
    <3>1. At(x, "requireSession") => AfterSession(req[x]) \in Statements \ apart
      BY DEF Routed, Fits, Behind, AfterSession, Statements
    <3>2. storeWrappedKeys(x) => NextStore(pc[x]) \in {"idle", "storeRecovery", "storeCredential"}
      BY DEF storeWrappedKeys, NextStore
    <3>3. {"storeRecovery", "storeCredential"} \subseteq Statements \ apart
      BY DEF Statements, StoreStatements
    <3>4. CASE storeWrappedKeys(x)
      BY <3>2, <3>3, <3>4 DEF storeWrappedKeys
    <3>5. CASE ~storeWrappedKeys(x)
      BY <1>2, <3>1, <3>5
      DEF Handles, bootstrapConsumed, bootstrapAgeMs, consumeBootstrap, registerDevice, verifyRequest,
          getLoginCredential, createSession, requireSession,
          getWrappedKeys, deleteSession, revokeDevice, Fails, Statements, StoreStatements
    <3> QED
      BY <3>4, <3>5
  <2>3. pc'[x] \notin apart /\ \A y \in Executors : y # x => Waits(y)
    <3>1. CASE \E code : Answer(x, code)
      BY <3>1, Leaving
    <3>2. CASE \E s \in Statements \ apart : Goto(x, s)
      BY <3>2 DEF Goto, metering, Waits, TypeOK
    <3> QED
      BY <2>2, <3>1, <3>2
  <2> HIDE DEF apart
  <2> QED
    BY <1>0, <2>1, <2>3, MetersUntouched DEF apart
<1>3. ASSUME NEW x \in Executors, NEW r \in Requests, handleHttpRequest(x, r) PROVE Metered'
  <2>1. UNCHANGED <<auth_window, admitted, now, metering>>
    BY <1>3 DEF handleHttpRequest, tables, history
  <2>2. pc'[x] \notin apart /\ \A y \in Executors : y # x => pc'[y] = pc[y] /\ req'[y] = req[y]
    BY <1>3, RoutesFit DEF handleHttpRequest, TypeOK
  <2> QED
    BY <1>0, <2>1, <2>2, MetersUntouched DEF Waits, metering
<1>4. ASSUME NEW i \in Instances, runMigrations(i) PROVE Metered'
  <2>1. \A y \in Executors : pc'[y] = pc[y] \/ (y \in Waiting(i) /\ pc'[y] = First(req[y]))
    BY <1>4 DEF runMigrations
  <2>2. \A y \in Waiting(i) : First(req[y]) \notin apart
    BY RoutesFit DEF Waiting, Routed, Fits
  <2>3. UNCHANGED <<auth_window, admitted, now, req, metering>>
    BY <1>4 DEF runMigrations, history
  <2> QED
    BY <1>0, <2>1, <2>2, <2>3, MetersUntouched DEF Waits, metering
<1>5. ASSUME NEW i \in Instances, migrationFails(i) \/ Recycle(i) PROVE Metered'
  <2>1. UNCHANGED <<auth_window, admitted, now>>
    BY <1>5 DEF migrationFails, Recycle, tables, history
  <2>2. PICK xs : Refuse500(xs)
    BY <1>5 DEF migrationFails, Recycle
  <2>3. \A y \in Executors : pc'[y] \in apart => Waits(y)
    BY <2>2 DEF Refuse500, Drop, Waits
  <2> QED
    BY <1>0, <2>1, <2>3, MetersUntouched
<1>6. CASE Tick \/ UNCHANGED vars
  <2>1. UNCHANGED <<auth_window, admitted, pc, req, metering>> /\ now' >= now
    BY <1>0, <1>6 DEF Tick, vars, server, tables, history
  <2> QED
    BY <1>0, <2>1, MetersUntouched DEF Waits, metering
<1> QED
  BY <1>1, <1>2, <1>3, <1>4, <1>5, <1>6 DEF Next, Step, Handles

\* The invariant holds before the first request.
LEMMA Start == Init => IInv
<1> SUFFICES ASSUME Init PROVE IInv
  OBVIOUS
<1>1. PICK scenario \in Scenarios :
        /\ left = scenario.left
        /\ schema = (IF scenario.begin = "live" THEN 0 ELSE None)
        /\ consumed = (scenario.begin = "live")
        /\ device = [d \in Devices |-> IF scenario.begin = "live" /\ d = (CHOOSE e \in Devices : TRUE)
                                       THEN "active" ELSE None]
        /\ wrapped_key = [kind \in {"pass", "recovery"} |-> IF scenario.begin = "live" THEN 1 ELSE None]
        /\ login_credential = (IF scenario.begin = "live" THEN 1 ELSE None)
        /\ memo = [i \in Instances |-> IF scenario.begin = "live" THEN "done" ELSE "none"]
        /\ lastPut = (IF scenario.begin = "live" THEN 1 ELSE None)
  BY DEF Init
<1>2. /\ now = 0 /\ crossed = {} /\ session = [t \in Tokens |-> None] /\ minted = 0 /\ faults = 0
      /\ auth_window = [b \in Buckets |-> [m \in Times |-> 0]]
      /\ pc = [x \in Executors |-> "idle"] /\ req = [x \in Executors |-> None]
      /\ granted = [t \in Tokens |-> None] /\ loggedOut = {} /\ solo = None
      /\ stranded = FALSE /\ admitted = [b \in Buckets |-> [m \in Times |-> 0]]
      /\ bucket = [x \in Executors |-> 0] /\ arrived = bucket /\ attempts = bucket
  BY DEF Init
<1>3. left \in [Requests -> Nat] /\ 1 \in Runs /\ 0 \in Times /\ 0 # None /\ "active" # None
  BY <1>1, ParameterAssumption DEF Times
<1>4. TypeOK
  <2>1. CountersTyped /\ SessionTyped /\ EnrolTyped /\ KeysTyped
    BY <1>1, <1>2, <1>3 DEF CountersTyped, SessionTyped, EnrolTyped, KeysTyped
  <2>2. MeterTyped
    BY <1>2, <1>3 DEF MeterTyped
  <2>3. /\ pc \in [Executors -> Statements \cup {"idle", "migrating"}] /\ req \in [Executors -> Requests \cup {None}]
        /\ memo \in [Instances -> {"none", "running", "done"}]
    BY <1>1, <1>2
  <2> QED
    BY <2>1, <2>2, <2>3 DEF TypeOK, CountersTyped, SessionTyped, EnrolTyped, KeysTyped, MeterTyped
<1>5. Routed /\ KeysStored /\ SessionsKept
  BY <1>1, <1>2, <1>3, ParameterAssumption DEF Routed, KeysStored, HalfStored, SessionsKept, Valid
<1>6. Migrated
  BY <1>1, <1>2, <1>3 DEF Migrated, MigratedBeforeServed, At, Statements, StoreStatements
<1>7. Enrolled
  <2>1. (CHOOSE e \in Devices : TRUE) \in Devices
    BY ParameterAssumption
  <2> QED
    BY <1>1, <1>2, <1>3, <2>1 DEF Enrolled, At
<1>8. Metered
  <2>1. /\ \A b \in Buckets, t \in Times : auth_window[b][t] = 0 /\ admitted[b][t] = 0
        /\ \A x \in Executors : pc[x] \notin Locks \cup {"meterAll"}
    BY <1>2 DEF Locks
  <2>2. ASSUME NEW b \in Buckets, NEW t \in Times PROVE Let(b, t) = 0
    <3>1. LetThrough(b, t) = {}
      BY <2>1 DEF LetThrough, Locks
    <3> QED
      BY <2>1, <3>1, FS_EmptySet DEF Let
  <2> QED
    BY <2>1, <2>2 DEF Metered, Locks
<1> QED
  BY <1>4, <1>5, <1>6, <1>7, <1>8 DEF IInv

\* The invariant holds throughout.
LEMMA Invariant == Spec => []IInv
<1>1. IInv /\ [Next]_vars => IInv'
  BY TypesKept, RoutingKept, MigrationKept, EnrolmentKept, KeysKept, SessionsStay, MetersKept DEF IInv
<1> QED
  BY <1>1, Start, PTL DEF Spec

\* The tables keep their types, and no executor serves a request it has not got.
THEOREM TypeCorrect == Spec => []TypeOK
<1>1. IInv => TypeOK
  BY DEF IInv
<1> QED
  BY <1>1, Invariant, PTL

\* consumeBootstrap, registerDevice: however many registrations race, one device enrols,
\* and the one shot can be lost at no statement but the INSERT.
THEOREM OneDeviceEnrols == Spec => []OneEnrolment
<1>1. ASSUME IInv PROVE OneEnrolment
  <2> DEFINE enrolled == {d \in Devices : device[d] # None}
  <2>1. \A d, e \in enrolled : d = e
    BY <1>1 DEF IInv, Enrolled
  <2>2. Cardinality(enrolled) <= 1
    <3>1. CASE enrolled = {}
      BY <3>1, FS_EmptySet
    <3>2. CASE enrolled # {}
      <4>1. PICK d : d \in enrolled
        BY <3>2
      <4>2. enrolled = {d}
        BY <2>1, <4>1
      <4> HIDE DEF enrolled
      <4> QED
        BY <4>2, FS_Singleton
    <3> QED
      BY <3>1, <3>2
  <2> QED
    BY <1>1, <2>2 DEF OneEnrolment, IInv, Enrolled
<1> QED
  BY <1>1, Invariant, PTL

\* storeWrappedKeys: the three upserts, cut short or racing, lock nobody out, and a
\* retried PUT heals what an earlier one left half done.
THEOREM StoredKeysHeal == Spec => []KeysHeal
<1>1. ASSUME IInv PROVE KeysHeal
  BY <1>1 DEF IInv, KeysStored, KeysHeal
<1> QED
  BY <1>1, Invariant, PTL

\* createMigrator: no statement runs before the tables are there, and no request is
\* left waiting for a migration that is over.
THEOREM TablesBeforeStatements == Spec => []MigratedBeforeServed
<1>1. IInv => MigratedBeforeServed
  BY DEF IInv, Migrated
<1> QED
  BY <1>1, Invariant, PTL

\* Some nows have a last one.
LEMMA LastOf ==
  ASSUME NEW P \in SUBSET Times, P # {}
  PROVE  \E b \in P : \A k \in P : k <= b
<1> DEFINE from(m) == {k \in P : k >= m}
           F == {from(m) : m \in P}
<1>1. IsFiniteSet(P)
  <2>1. IsFiniteSet(Times)
    BY FS_Interval, ParameterAssumption DEF Times
  <2> QED
    BY <2>1, FS_Subset
<1>2. F \in SUBSET SUBSET P /\ F # {}
  OBVIOUS
<1>3. PICK T \in F : \A U \in F : U \subseteq T => U = T
  <2> HIDE DEF F
  <2> QED
    BY <1>1, <1>2, LeastSet
<1>4. PICK b \in P : T = from(b)
  BY <1>3
<1>5. \A k \in P : k \in Nat
  BY TimesCount
<1>6. ASSUME NEW k \in P, k > b PROVE FALSE
  <2>1. from(k) \in F /\ from(k) \subseteq T
    BY <1>4, <1>5, <1>6
  <2>2. from(k) = T
    BY <1>3, <2>1
  <2>3. b \in T /\ b \notin from(k)
    BY <1>4, <1>5, <1>6
  <2> QED
    BY <2>2, <2>3
<1>7. \A k \in P : k <= b
  BY <1>5, <1>6
<1> QED
  BY <1>7

\* The attempts of any hour are those of its last bucket and of the hour before it.
LEMMA HourIsCapped ==
  ASSUME IInv, NEW v \in Buckets, NEW m \in Times
  PROVE  SumFunctionOnSet(admitted[v], InHour(m)) <= CapOf(v) + Cardinality(Executors) - 1
<1> DEFINE a == admitted[v]
           S == InHour(m)
           P == {k \in S : a[k] > 0}
<1>1. a \in [Times -> Nat] /\ S \in SUBSET Times /\ P \in SUBSET S
  BY DEF IInv, TypeOK, InHour
<1>2. IsFiniteSet(Times) /\ IsFiniteSet(S)
  <2>1. IsFiniteSet(Times)
    BY FS_Interval, ParameterAssumption DEF Times
  <2> HIDE DEF S
  <2> QED
    BY <1>1, <2>1, FS_Subset
<1>3. SumFunctionOnSet(a, P) = SumFunctionOnSet(a, S)
  <2>1. \A k \in S \ P : a[k] = 0
    BY <1>1
  <2> HIDE DEF a, S, P
  <2> QED
    BY <1>1, <1>2, <2>1, SumIgnoresZeros
<1>4. CapOf(v) \in Nat /\ Cardinality(Executors) \in Nat \ {0}
  <2>1. IsFiniteSet(Executors) /\ Executors # {}
    BY ParameterAssumption
  <2> QED
    BY <2>1, CapsCount, SomeExecutors, FS_EmptySet
<1>5. CASE P = {}
  <2>1. SumFunctionOnSet(a, S) = 0
    BY <1>3, <1>5, SumEmpty
  <2> QED
    BY <1>4, <2>1
<1>6. CASE P # {}
  <2>1. PICK b \in P : \A k \in P : k <= b
    BY <1>1, <1>6, LastOf
  <2> DEFINE T == Earlier(b) \cup {b}
  <2>2. b \in Times /\ b \in Nat /\ a[b] > 0 /\ b <= m /\ m \in Nat
    BY <1>1, <2>1, TimesCount DEF InHour
  <2>3. /\ Earlier(b) \in SUBSET Times /\ IsFiniteSet(Earlier(b)) /\ b \notin Earlier(b)
        /\ SumFunctionOnSet(a, Earlier(b)) \in Nat /\ SumFunctionOnSet(auth_window[v], Earlier(b)) \in Nat
    BY <1>1, <2>2, HourBefore DEF IInv, TypeOK
  <2>4. P \in SUBSET T
    <3> SUFFICES ASSUME NEW k \in P, k # b PROVE k \in Earlier(b)
      OBVIOUS
    <3>1. k \in Times /\ k \in Nat /\ k <= b /\ k > m - AUTH_WINDOW /\ AUTH_WINDOW \in Nat
      BY <1>1, <2>1, TimesCount, ParameterAssumption DEF InHour
    <3>2. k < b /\ k > b - AUTH_WINDOW
      BY <2>2, <3>1
    <3> QED
      BY <3>1, <3>2 DEF Earlier
  <2>5. T \in SUBSET Times /\ IsFiniteSet(T) /\ b \in T /\ T \ {b} = Earlier(b)
    BY <2>2, <2>3, FS_AddElement
  <2>6. SumFunctionOnSet(a, P) <= SumFunctionOnSet(a, T)
    <3> HIDE DEF a, P, T
    <3> QED
      BY <1>1, <2>4, <2>5, SumOfPart
  <2>7. SumFunctionOnSet(a, T) = a[b] + SumFunctionOnSet(a, Earlier(b))
    <3> HIDE DEF a, T
    <3> QED
      BY <1>1, <2>5, SumTakes
  <2>8. SumFunctionOnSet(a, Earlier(b)) <= SumFunctionOnSet(auth_window[v], Earlier(b))
    <3>1. ASSUME NEW k \in Times PROVE a[k] <= auth_window[v][k] /\ a[k] <= Let(v, k)
      <4>1. Let(v, k) <= auth_window[v][k]
        BY DEF IInv, Metered
      <4>2. LetThrough(v, k) \in SUBSET Executors
        BY DEF LetThrough
      <4>3. Cardinality(LetThrough(v, k)) \in Nat
        BY <4>2, SomeExecutors
      <4>4. Let(v, k) = a[k] + Cardinality(LetThrough(v, k)) /\ a[k] \in Nat /\ auth_window[v][k] \in Nat
        BY DEF Let, IInv, TypeOK
      <4> QED
        BY <4>1, <4>3, <4>4
    <3>2. auth_window[v] \in [Times -> Nat]
      BY DEF IInv, TypeOK
    <3> HIDE DEF a
    <3> QED
      BY <1>1, <2>3, <3>1, <3>2, SumGrows
  <2>9. a[b] <= Let(v, b) /\ a[b] \in Nat /\ Let(v, b) \in Nat
    <3>1. LetThrough(v, b) \in SUBSET Executors
      BY DEF LetThrough
    <3>2. Cardinality(LetThrough(v, b)) \in Nat /\ a[b] \in Nat
      BY <1>1, <2>2, <3>1, SomeExecutors
    <3> QED
      BY <3>2 DEF Let
  <2>10. SumFunctionOnSet(auth_window[v], Earlier(b)) <= Before(v, b) /\ Before(v, b) \in Nat
    <3>1. InFlight(v, b) \in SUBSET Executors
      BY DEF InFlight
    <3>2. Cardinality(InFlight(v, b)) \in Nat
      BY <3>1, SomeExecutors
    <3> QED
      BY <2>3, <3>2 DEF Before
  <2>11. Before(v, b) + Let(v, b) <= CapOf(v) + Cardinality(Executors) - 1
    <3>1. Let(v, b) > 0
      BY <2>2, <2>9
    <3> QED
      BY <2>2, <3>1 DEF IInv, Metered
  <2> DEFINE hour == SumFunctionOnSet(a, S)
             before == SumFunctionOnSet(a, Earlier(b))
             counted == SumFunctionOnSet(auth_window[v], Earlier(b))
  <2>12. hour <= a[b] + before
    BY <1>3, <2>6, <2>7
  <2>13. SumFunctionOnSet(a, S) \in Nat
    <3> HIDE DEF a, S
    <3> QED
      BY <1>1, <1>2, SumType
  <2>14. before <= counted /\ counted <= Before(v, b) /\ before \in Nat /\ counted \in Nat /\ hour \in Nat
    BY <2>3, <2>8, <2>10, <2>13
  <2> HIDE DEF hour, before, counted, T, P
  <2>15. hour <= CapOf(v) + Cardinality(Executors) - 1
    BY <1>4, <2>9, <2>10, <2>11, <2>12, <2>14
  <2> QED
    BY <2>15 DEF hour
<1> QED
  BY <1>5, <1>6

\* reserveAuthAttempt: over any hour of buckets a meter lets through no more than its cap
\* and as many as can be in flight with the attempt counted last, and what one address
\* adds to the overall meter is bounded by the address's own cap in the same way.
THEOREM CapsHold == Spec => []LoginCapsHold
<1>1. IInv => LoginCapsHold
  BY HourIsCapped DEF LoginCapsHold
<1> QED
  BY <1>1, Invariant, PTL

\* requireSession: a session opens the gate exactly while it lives, whatever logins
\* sweep and logouts delete beside it.
THEOREM GateFollowsSession == Spec => SessionExactlyWhileLive
<1> DEFINE gate(x) ==
      LET t == req[x].token
      IN  At(x, "requireSession") /\ pc'[x] # pc[x] /\ faults' = faults =>
            (pc'[x] # "idle") = (t \notin loggedOut /\ Valid(granted[t]))
<1>1. ASSUME IInv, [Next]_vars, NEW x \in Executors PROVE gate(x)
  <2> SUFFICES ASSUME At(x, "requireSession"), pc'[x] # pc[x], faults' = faults
               PROVE  (pc'[x] # "idle") <=> (req[x].token \notin loggedOut /\ Valid(granted[req[x].token]))
    OBVIOUS
  <2>1. requireSession(x)
    <3>1. ASSUME NEW y \in Executors, Handles(y) PROVE y = x
      BY <1>1, <3>1, HandlersMove, OthersStay
    <3>2. faults + 1 # faults
      BY <1>1 DEF IInv, TypeOK
    <3>3. ~ \E r \in Requests, y \in Executors : handleHttpRequest(y, r)
      BY <1>1 DEF handleHttpRequest, At, IInv, TypeOK
    <3>4. ~ \E i \in Instances : runMigrations(i) \/ migrationFails(i) \/ Recycle(i)
      BY <3>2 DEF runMigrations, migrationFails, Recycle, Waiting, At
    <3>5. ~Tick /\ ~UNCHANGED vars
      BY DEF Tick, server, vars
    <3>6. Handles(x)
      BY <1>1, <3>1, <3>3, <3>4, <3>5 DEF Next, Step, Handles
    <3> QED
      BY <3>2, <3>6
      DEF Handles, bootstrapConsumed, bootstrapAgeMs, consumeBootstrap, registerDevice, verifyRequest,
          storeWrappedKeys, StoreStatements, reserveAuthAttempt, overLimit, getLoginCredential, createSession, getWrappedKeys,
          deleteSession, revokeDevice, Fails, At
  <2>2. (pc'[x] # "idle") <=> Valid(session[req[x].token])
    BY <1>1, <2>1, SessionSlides
  <2>3. req[x].token \in Tokens
    BY <1>1, RequestAssumption DEF IInv, Routed, Fits, At, Behind
  <2>4. Valid(session[req[x].token]) <=> (req[x].token \notin loggedOut /\ Valid(granted[req[x].token]))
    BY <1>1, <2>3 DEF IInv, SessionsKept, Valid
  <2> QED
    BY <2>2, <2>4
<1>2. ASSUME IInv, [Next]_vars PROVE [\A x \in Executors : gate(x)]_vars
  BY <1>1, <1>2
<1> QED
  BY <1>2, Invariant, PTL DEF Spec, SessionExactlyWhileLive
=============================================================================
