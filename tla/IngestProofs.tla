---------------------------- MODULE IngestProofs ----------------------------
(***************************************************************************)
(* What the upload door keeps for any number of function instances,        *)
(* devices, slots and requests, however often and whenever a request is    *)
(* delivered and wherever an instance is stopped.  The parts of the        *)
(* invariant are proved one by one: who may still be served, the nonces,   *)
(* the rows, the hourly cap and the bytes of the tenant.                   *)
(***************************************************************************)
EXTENDS Ingest, SumLemmas

-----------------------------------------------------------------------------
(* The invariant *)

\* No instance outlives a minute, and one that is past verifyRequest took a request
\* that is in time and not too large.
Timely ==
  \A x \in Executors :
    /\ started[x] <= minute /\ bucket[x] <= minute
    /\ pc[x] \in Statements => minute <= started[x] + 1 /\ req[x].bytes <= MAX_PAYLOAD_BYTES
    /\ pc[x] \in Statements \ {"lookupDevice"} => ~Skewed(x)

\* A nonce that is not there any more belongs to a request nobody may still serve.
Once ==
  \A r \in Requests :
    /\ effects[r] <= 1
    /\ effects[r] = 1 => NonceOf(r) \in seen_nonce \/ minute > r.stamped + MAX_CLOCK_SKEW + NONCE_RETENTION

\* Every row is that of an upload.
RowOf(r) == [content |-> r.content, ts |-> r.ts, bytes |-> r.bytes]
Uploaded == \A s \in Slots : snapshot[s] # None => \E r \in Requests : r.slot = s /\ snapshot[s] = RowOf(r)

\* What an upload wrote is there until it is overtaken.
Held(r) == snapshot[r.slot] # None /\ snapshot[r.slot].ts >= r.ts
Accepted ==
  \A x \in Executors :
    /\ pc[x] = "touchDevice" => Held(req[x])
    /\ status[x] = 200 => pc[x] = "done" /\ req[x] \in Requests /\ Held(req[x])

\* Reservations of device v in flight with a bucket before b: its count misses them.
InFlight(v, b) == {x \in Executors : pc[x] = "bucketLock" /\ req[x].device = v /\ bucket[x] < b}

\* Uploads of device v reserved in bucket b whose count lets them through.
LetThrough(v, b) == {x \in Executors : /\ pc[x] = "tenantBytesStored" /\ req[x].device = v /\ bucket[x] = b
                                       /\ uploadsInWindow[x] <= MAX_UPLOADS_PER_HOUR_PER_DEVICE}

\* The reservations of the hour before bucket b, those to come included; the uploads
\* let through in bucket b, those to come included.
Before(v, b) == SumFunctionOnSet(upload_window[v], Earlier(b)) + Cardinality(InFlight(v, b))
Let(v, b) == admitted[v][b] + Cardinality(LetThrough(v, b))

Capped ==
  /\ \A v \in Devices, m \in Minutes :
       /\ m > minute => upload_window[v][m] = 0
       /\ Let(v, m) <= upload_window[v][m]
       /\ Let(v, m) > 0 =>
            Before(v, m) + Let(v, m) <= MAX_UPLOADS_PER_HOUR_PER_DEVICE + Cardinality(Executors) - 1
  /\ \A x \in Executors : pc[x] = "bucketLock" =>
       Before(req[x].device, bucket[x]) <= uploadsInWindow[x] + Cardinality(Executors) - 1

\* The bytes stored, and those that passed the quota and are not stored yet.
Underway == {"rememberNonce", "latestSnapshot", "storeSnapshot"}
Coming == [x \in Executors |-> IF pc[x] \in Underway THEN req[x].bytes ELSE 0]
Quota ==
  TenantBytes + SumFunctionOnSet(Coming, Executors)
    <= MAX_TENANT_BYTES + (Cardinality(Executors) - 1) * MAX_PAYLOAD_BYTES

IInv == TypeOK /\ Timely /\ Once /\ Uploaded /\ Accepted /\ Capped /\ Quota

-----------------------------------------------------------------------------
(* What the steps of an instance have in common *)

\* A statement of x that is run or fails.
Handles(x) ==
  \/ lookupDevice(x) \/ reserveUpload(x) \/ bucketLock(x) \/ tenantBytesStored(x) \/ rememberNonce(x)
  \/ latestSnapshot(x) \/ storeSnapshot(x) \/ touchDevice(x) \/ Fails(x)

LocalTyped ==
  /\ pc \in [Executors -> Statements \cup {"idle", "done"}]
  /\ req \in [Executors -> Requests \cup {None}]
  /\ started \in [Executors -> Minutes]
  /\ uploadsInWindow \in [Executors -> Nat]
  /\ bucket \in [Executors -> Minutes]
  /\ status \in [Executors -> {0, 200, 400, 401, 403, 409, 413, 429, 500, 507}]

\* The other instances keep their locals.
Elsewhere(x) ==
  \A y \in Executors : y # x =>
    /\ pc'[y] = pc[y] /\ req'[y] = req[y] /\ started'[y] = started[y]
    /\ uploadsInWindow'[y] = uploadsInWindow[y] /\ bucket'[y] = bucket[y] /\ status'[y] = status[y]

\* What a handler that returns leaves behind.
Returned(x, code) ==
  /\ pc'[x] = "done" /\ status'[x] = code /\ (code = 200 => req' = req)
  /\ started'[x] = 0 /\ uploadsInWindow'[x] = 0 /\ bucket'[x] = 0

Codes == {200, 400, 401, 403, 409, 413, 429, 500, 507}

\* Answer leaves typed locals, those of the instance reset and those of the others alone.
LEMMA Answers ==
  ASSUME IInv, NEW x \in Executors, NEW code \in Codes, Answer(x, code)
  PROVE  LocalTyped' /\ Elsewhere(x) /\ Returned(x, code)
<1>1. LocalTyped /\ 0 \in Minutes
  BY ParameterAssumption DEF IInv, TypeOK, LocalTyped, Minutes
<1>2. /\ pc' = [pc EXCEPT ![x] = "done"] /\ status' = [status EXCEPT ![x] = code]
      /\ req' \in {req, [req EXCEPT ![x] = None]} /\ (code = 200 => req' = req)
      /\ started' = [started EXCEPT ![x] = 0] /\ uploadsInWindow' = [uploadsInWindow EXCEPT ![x] = 0]
      /\ bucket' = [bucket EXCEPT ![x] = 0]
  BY DEF Answer
<1>3. Elsewhere(x) /\ Returned(x, code)
  BY <1>1, <1>2 DEF LocalTyped, Elsewhere, Returned
<1>4. LocalTyped'
  BY <1>1, <1>2 DEF LocalTyped, Codes
<1> QED
  BY <1>3, <1>4

\* The request an instance serves while it is at a statement.
LEMMA Serving ==
  ASSUME IInv, NEW x \in Executors, pc[x] \in Statements
  PROVE  /\ req[x] \in Requests /\ req[x] \in Request
         /\ req[x].device \in Devices /\ req[x].slot \in Slots /\ req[x].nonce \in Nat
         /\ req[x].stamped \in Nat /\ req[x].ts \in Minutes /\ req[x].content \in Nat /\ req[x].bytes \in Nat
<1>1. req[x] \in Requests /\ req[x] \in Request
  BY ParameterAssumption DEF IInv, TypeOK
<1> QED
  BY <1>1 DEF Request, Minutes

\* An instance at a statement answers or goes to the next one, with its request.
LEMMA Proceeds ==
  ASSUME IInv, NEW x \in Executors, Handles(x)
  PROVE  /\ pc[x] \in Statements
         /\ LocalTyped' /\ Elsewhere(x)
         /\ pc'[x] \in Statements => req' = req /\ started' = started
         /\ pc'[x] \in Statements \cup {"done"} /\ pc'[x] # "lookupDevice"
<1> USE DEF IInv, At
<1>1. LocalTyped
  BY DEF TypeOK, LocalTyped
<1>2. pc[x] \in Statements
  BY DEF Handles, lookupDevice, reserveUpload, bucketLock, tenantBytesStored, rememberNonce, latestSnapshot,
         storeSnapshot, touchDevice, Fails, Statements
<1>3. ASSUME NEW code \in Codes, Answer(x, code)
      PROVE  /\ LocalTyped' /\ Elsewhere(x) /\ pc'[x] = "done" /\ "done" \notin Statements
  BY <1>3, Answers DEF Returned, Statements
<1>4. ASSUME NEW s \in Statements, Goto(x, s), s # "lookupDevice"
      PROVE  /\ LocalTyped' /\ Elsewhere(x) /\ req' = req /\ started' = started /\ pc'[x] = s
  BY <1>1, <1>4 DEF Goto, LocalTyped, Elsewhere, localVars
<1>5. CASE \E code \in Codes : Answer(x, code)
  BY <1>2, <1>3, <1>5
<1>6. CASE \E s \in Statements : Goto(x, s) /\ s # "lookupDevice"
  BY <1>2, <1>4, <1>6
<1>7. CASE reserveUpload(x)
  <2>1. Earlier(minute) \in SUBSET Minutes /\ IsFiniteSet(Earlier(minute))
    <3>1. IsFiniteSet(Minutes)
      BY FS_Interval, ParameterAssumption DEF Minutes
    <3> QED
      BY <3>1, FS_Subset DEF Earlier
  <2>2. upload_window[req[x].device] \in [Minutes -> Nat]
    BY <1>2, Serving DEF TypeOK
  <2>3. SumFunctionOnSet(upload_window[req[x].device], Earlier(minute)) \in Nat
    BY <2>1, <2>2, SumType
  <2>4. minute \in Minutes
    BY DEF TypeOK
  <2> QED
    BY <1>1, <1>2, <1>7, <2>3, <2>4 DEF reserveUpload, LocalTyped, Elsewhere, Statements
<1>8. CASE bucketLock(x)
  <2> DEFINE v == req[x].device
  <2>1. v \in Devices /\ bucket[x] \in Minutes /\ upload_window \in [Devices -> [Minutes -> Nat]]
    BY <1>2, Serving DEF TypeOK
  <2>2. upload_window' = [upload_window EXCEPT ![v][bucket[x]] = @ + 1]
    BY <1>8 DEF bucketLock
  <2> HIDE DEF v
  <2>3. upload_window'[v][bucket[x]] = upload_window[v][bucket[x]] + 1
    BY <2>1, <2>2
  <2>4. /\ uploadsInWindow' = [uploadsInWindow EXCEPT ![x] = @ + upload_window'[v][bucket[x]]]
        /\ pc' = [pc EXCEPT ![x] = "tenantBytesStored"]
        /\ UNCHANGED <<req, started, bucket, status>>
    BY <1>8 DEF bucketLock, v
  <2>5. uploadsInWindow[x] + upload_window'[v][bucket[x]] \in Nat
    BY <1>1, <2>1, <2>3 DEF LocalTyped
  <2> QED
    BY <1>1, <1>2, <2>4, <2>5 DEF LocalTyped, Elsewhere, Statements
<1>9. CASE Handles(x) /\ ~reserveUpload(x) /\ ~bucketLock(x)
  <2>1. CASE tenantBytesStored(x)
    <3>1. checkQuota(uploadsInWindow[x] - 1, req[x].bytes, TenantBytes) \in {0, 429, 507}
      BY DEF checkQuota
    <3>2. \/ \E refusal \in {429, 507} : Answer(x, refusal)
          \/ Goto(x, "rememberNonce")
      BY <2>1, <3>1 DEF tenantBytesStored
    <3> QED
      BY <1>5, <1>6, <3>2 DEF Codes, Statements
  <2>2. CASE ~tenantBytesStored(x)
    <3>1. \/ \E code \in Codes : Answer(x, code)
          \/ \E s \in Statements : Goto(x, s) /\ s # "lookupDevice"
      BY <1>9, <2>2 DEF Handles, lookupDevice, rememberNonce, latestSnapshot, storeSnapshot, touchDevice, Fails,
                        Codes, Statements
    <3> QED
      BY <1>5, <1>6, <3>1
  <2> QED
    BY <2>1, <2>2
<1> QED
  BY <1>7, <1>8, <1>9

\* A request that arrives starts at verifyRequest, or is too large.
LEMMA Arrives ==
  ASSUME IInv, NEW x \in Executors, NEW r \in Requests, Receive(x, r)
  PROVE  /\ LocalTyped' /\ Elsewhere(x) /\ pc[x] \notin Statements
         /\ \/ Returned(x, 413)
            \/ /\ pc'[x] = "lookupDevice" /\ req'[x] = r /\ started'[x] = minute /\ r.bytes <= MAX_PAYLOAD_BYTES
               /\ status'[x] = 0 /\ bucket'[x] = bucket[x]
<1> USE DEF IInv
<1>1. pc[x] \notin Statements
  BY DEF Receive, Statements
<1>2. CASE Answer(x, 413)
  BY <1>1, <1>2, Answers DEF Codes
<1>3. CASE r.bytes <= MAX_PAYLOAD_BYTES /\ Begin(x, r) /\ req' = [req EXCEPT ![x] = r]
  BY <1>1, <1>3 DEF Begin, TypeOK, LocalTyped, Elsewhere, Statements
<1> QED
  BY <1>2, <1>3 DEF Receive

-----------------------------------------------------------------------------
(* The types *)

TablesTyped ==
  /\ minute \in Minutes
  /\ revoked \in [Devices -> BOOLEAN]
  /\ upload_window \in [Devices -> [Minutes -> Nat]]
  /\ seen_nonce \subseteq Devices \X Nat \X Nat
  /\ snapshot \in [Slots -> Stored \cup {None}]
  /\ deliveries \in Nat
  /\ admitted \in [Devices -> [Minutes -> Nat]]
  /\ effects \in [Requests -> Nat]

\* Every step keeps the types.
LEMMA TypesKept == ASSUME IInv, [Next]_vars PROVE TypeOK'
<1> USE DEF IInv, At
<1>1. TablesTyped /\ LocalTyped
  BY DEF TypeOK, TablesTyped, LocalTyped
<1>2. ASSUME LocalTyped', TablesTyped', \A x \in Executors : pc'[x] \in Statements => req'[x] \in Requests
      PROVE  TypeOK'
  BY <1>2 DEF TypeOK, LocalTyped, TablesTyped
<1>3. ASSUME NEW x \in Executors, Handles(x) PROVE TypeOK'
  <2> DEFINE r == req[x]
  <2>1. pc[x] \in Statements /\ LocalTyped' /\ Elsewhere(x) /\ (pc'[x] \in Statements => req' = req)
    BY <1>3, Proceeds
  <2>2. /\ r \in Requests /\ r.device \in Devices /\ r.slot \in Slots /\ r.nonce \in Nat /\ r.stamped \in Nat
        /\ r.ts \in Minutes /\ r.content \in Nat /\ r.bytes \in Nat
    BY <2>1, Serving
  <2>3. bucket[x] \in Minutes
    BY <1>1 DEF LocalTyped
  <2> HIDE DEF r
  <2>4. TablesTyped'
    <3>1. CASE bucketLock(x)
      <4>1. /\ upload_window' = [upload_window EXCEPT ![r.device][bucket[x]] = @ + 1]
            /\ seen_nonce' \subseteq seen_nonce
            /\ UNCHANGED <<minute, revoked, snapshot, deliveries, admitted, effects>>
        BY <3>1 DEF bucketLock, historyVars, r
      <4>2. [upload_window[r.device] EXCEPT ![bucket[x]] = @ + 1] \in [Minutes -> Nat]
        BY <1>1, <2>2, <2>3 DEF TablesTyped
      <4> QED
        BY <1>1, <2>2, <4>1, <4>2 DEF TablesTyped
    <3>2. CASE tenantBytesStored(x)
      <4>1. /\ admitted' \in {admitted, [admitted EXCEPT ![r.device][bucket[x]] = @ + 1]}
            /\ UNCHANGED <<minute, tableVars, deliveries, effects>>
        BY <3>2 DEF tenantBytesStored, r
      <4>2. [admitted[r.device] EXCEPT ![bucket[x]] = @ + 1] \in [Minutes -> Nat]
        BY <1>1, <2>2, <2>3 DEF TablesTyped
      <4>3. admitted' \in [Devices -> [Minutes -> Nat]]
        BY <1>1, <2>2, <4>1, <4>2 DEF TablesTyped
      <4> QED
        BY <1>1, <4>1, <4>3 DEF TablesTyped, tableVars
    <3>3. CASE rememberNonce(x)
      <4>1. /\ seen_nonce' \in {seen_nonce, seen_nonce \cup {NonceOf(r)}}
            /\ effects' \in {effects, [effects EXCEPT ![r] = @ + 1]}
            /\ UNCHANGED <<minute, revoked, upload_window, snapshot, deliveries, admitted>>
        BY <3>3 DEF rememberNonce, r
      <4>2. NonceOf(r) \in Devices \X Nat \X Nat
        BY <2>2, ParameterAssumption DEF NonceOf
      <4> QED
        BY <1>1, <2>2, <4>1, <4>2 DEF TablesTyped
    <3>4. CASE storeSnapshot(x)
      <4>1. /\ snapshot' \in {snapshot, [snapshot EXCEPT ![r.slot] = RowOf(r)]}
            /\ UNCHANGED <<minute, revoked, upload_window, seen_nonce, deliveries, historyVars>>
        BY <3>4, <1>1, <2>2 DEF storeSnapshot, RowOf, TablesTyped, r
      <4>2. RowOf(r) \in Stored
        BY <2>2 DEF RowOf, Stored
      <4> QED
        BY <1>1, <2>2, <4>1, <4>2 DEF TablesTyped, historyVars
    <3> QED
      BY <1>1, <1>3, <3>1, <3>2, <3>3, <3>4
      DEF Handles, lookupDevice, reserveUpload, latestSnapshot, touchDevice, Fails, tableVars, historyVars, TablesTyped
  <2> QED
    BY <1>1, <1>2, <2>1, <2>2, <2>4 DEF Elsewhere, TypeOK, r
<1>4. ASSUME NEW x \in Executors, NEW r \in Requests, Receive(x, r) PROVE TypeOK'
  <2>1. UNCHANGED <<minute, tableVars, historyVars>> /\ deliveries' = deliveries + 1
    BY <1>4 DEF Receive
  <2>2. TablesTyped'
    BY <1>1, <2>1 DEF TablesTyped, tableVars, historyVars
  <2>3. "done" \notin Statements
    BY DEF Statements
  <2> QED
    BY <1>2, <1>4, <2>2, <2>3, Arrives DEF Elsewhere, Returned, TypeOK
<1>5. ASSUME NEW v \in Devices, revokeDevice(v) PROVE TypeOK'
  <2>1. revoked' \in [Devices -> BOOLEAN]
    BY <1>1, <1>5 DEF revokeDevice, TablesTyped
  <2> QED
    BY <1>5, <2>1 DEF revokeDevice, localVars, historyVars, TypeOK
<1>6. CASE Tick
  <2>1. minute' \in Minutes
    BY <1>1, <1>6, ParameterAssumption DEF Tick, TablesTyped, Minutes
  <2> QED
    BY <1>6, <2>1 DEF Tick, tableVars, localVars, historyVars, TypeOK
<1>7. CASE UNCHANGED vars
  BY <1>7 DEF vars, tableVars, localVars, historyVars, TypeOK
<1> QED
  BY <1>3, <1>4, <1>5, <1>6, <1>7 DEF Next, Step, Handles

-----------------------------------------------------------------------------
(* Who may still be served, and the nonces *)

\* Every step keeps instances within a minute of their start, and requests in time.
LEMMA TimelyKept == ASSUME IInv, [Next]_vars PROVE Timely'
<1> USE DEF IInv, At
<1>1. /\ minute \in Nat /\ MAX_PAYLOAD_BYTES \in Nat
      /\ \A x \in Executors : started[x] \in Nat /\ bucket[x] \in Nat
  BY ParameterAssumption DEF TypeOK, Minutes
<1>2. ASSUME NEW x \in Executors, Handles(x) PROVE Timely'
  <2>1. /\ pc[x] \in Statements /\ Elsewhere(x)
        /\ pc'[x] \in Statements => req' = req /\ started' = started
        /\ pc'[x] \in Statements \cup {"done"} /\ pc'[x] # "lookupDevice"
    BY <1>2, Proceeds
  <2>2. minute' = minute
    BY <1>2 DEF Handles, lookupDevice, reserveUpload, bucketLock, tenantBytesStored, rememberNonce, latestSnapshot,
                storeSnapshot, touchDevice, Fails
  <2>3. started'[x] <= minute /\ bucket'[x] <= minute
    <3>1. ASSUME NEW code \in Codes, Answer(x, code) PROVE started'[x] <= minute /\ bucket'[x] <= minute
      BY <1>1, <3>1, Answers DEF Returned
    <3>2. CASE reserveUpload(x)
      BY <1>1, <3>2 DEF reserveUpload, TypeOK, Timely
    <3>3. CASE bucketLock(x)
      BY <3>3 DEF bucketLock, Timely
    <3>4. CASE tenantBytesStored(x)
      <4>1. checkQuota(uploadsInWindow[x] - 1, req[x].bytes, TenantBytes) \in {0, 429, 507}
        BY DEF checkQuota
      <4> QED
        BY <3>1, <3>4, <4>1 DEF tenantBytesStored, Codes, Goto, localVars, Timely
    <3> QED
      BY <1>2, <3>1, <3>2, <3>3, <3>4
      DEF Handles, lookupDevice, rememberNonce, latestSnapshot, storeSnapshot, touchDevice, Fails, Codes, Goto,
          localVars, Timely
  <2>4. pc'[x] \in Statements => ~Skewed(x)'
    <3>1. pc'[x] \in Statements => (Skewed(x)' <=> Skewed(x))
      BY <2>1 DEF Skewed
    <3>2. CASE lookupDevice(x)
      BY <3>1, <3>2, Answers DEF lookupDevice, Codes, Returned, Statements
    <3>3. CASE ~lookupDevice(x)
      <4>1. pc[x] # "lookupDevice" \/ Fails(x)
        BY <1>2, <3>3 DEF Handles, reserveUpload, bucketLock, tenantBytesStored, rememberNonce, latestSnapshot,
                          storeSnapshot, touchDevice
      <4>2. Fails(x) => pc'[x] \notin Statements
        BY Answers DEF Fails, Codes, Returned, Statements
      <4> QED
        BY <2>1, <3>1, <4>1, <4>2 DEF Timely
    <3> QED
      BY <3>2, <3>3
  <2>5. \A y \in Executors : y # x => (Skewed(y)' <=> Skewed(y))
    BY <2>1 DEF Elsewhere, Skewed
  <2> QED
    BY <2>1, <2>2, <2>3, <2>4, <2>5 DEF Timely, Elsewhere
<1>3. ASSUME NEW x \in Executors, NEW r \in Requests, Receive(x, r) PROVE Timely'
  <2>1. minute' = minute /\ Elsewhere(x)
    BY <1>3, Arrives DEF Receive
  <2>2. \A y \in Executors : y # x => (Skewed(y)' <=> Skewed(y))
    BY <2>1 DEF Elsewhere, Skewed
  <2>3. "done" \notin Statements
    BY DEF Statements
  <2> QED
    BY <1>1, <1>3, <2>1, <2>2, <2>3, Arrives DEF Timely, Elsewhere, Returned
<1>4. CASE Tick
  BY <1>1, <1>4 DEF Tick, localVars, Timely, Skewed
<1>5. CASE (\E v \in Devices : revokeDevice(v)) \/ UNCHANGED vars
  BY <1>5 DEF revokeDevice, vars, localVars, Timely, Skewed
<1> QED
  BY <1>2, <1>3, <1>4, <1>5 DEF Next, Step, Handles

\* The sweep keeps every nonce that a request still in time could use.
LEMMA SweptTooLate == ASSUME IInv, NEW x \in Executors, bucketLock(x) PROVE Once'
<1> USE DEF IInv
<1>1. minute' = minute /\ effects' = effects
  BY DEF bucketLock, historyVars
<1>2. seen_nonce' = {row \in seen_nonce : ~(row[1] = req[x].device /\ Swept(row, bucket[x]))}
  BY DEF bucketLock
<1> SUFFICES ASSUME NEW r \in Requests, effects[r] = 1, NonceOf(r) \in seen_nonce
             PROVE  NonceOf(r) \in seen_nonce' \/ minute > r.stamped + MAX_CLOCK_SKEW + NONCE_RETENTION
  BY <1>1 DEF Once
<1>3. r.stamped \in Nat /\ bucket[x] \in Nat /\ minute \in Nat /\ bucket[x] <= minute
  BY ParameterAssumption DEF Request, TypeOK, Timely, Minutes
<1>4. NonceOf(r)[3] = r.stamped + MAX_CLOCK_SKEW
  BY DEF NonceOf
<1>5. MAX_CLOCK_SKEW \in Nat /\ NONCE_RETENTION \in Nat
  BY ParameterAssumption
<1>6. Swept(NonceOf(r), bucket[x]) => minute > r.stamped + MAX_CLOCK_SKEW + NONCE_RETENTION
  BY <1>3, <1>4, <1>5 DEF Swept
<1> QED
  BY <1>2, <1>6

\* A request that gets past its nonce has never done so before.
LEMMA FirstUse == ASSUME IInv, NEW x \in Executors, rememberNonce(x) PROVE Once'
<1> USE DEF IInv, At
<1> DEFINE r == req[x]
<1>1. pc[x] = "rememberNonce" /\ pc[x] \in Statements \ {"lookupDevice"} /\ minute' = minute
  BY DEF rememberNonce, Statements
<1>2. r \in Requests /\ r.stamped \in Nat
  BY <1>1, Serving
<1>3. CASE Seen(r)
  BY <1>1, <1>3 DEF rememberNonce, Once
<1>4. CASE ~Seen(r)
  <2>1. seen_nonce' = seen_nonce \cup {NonceOf(r)} /\ effects' = [effects EXCEPT ![r] = @ + 1]
    BY <1>4 DEF rememberNonce
  <2>2. NonceOf(r) \notin seen_nonce
    BY <1>4 DEF Seen, NonceOf
  <2>3. started[x] \in Nat /\ minute \in Nat /\ minute <= started[x] + 1 /\ ~(started[x] - r.stamped > MAX_CLOCK_SKEW)
    BY <1>1 DEF Timely, Skewed, TypeOK, Minutes
  <2>4. ~(minute > r.stamped + MAX_CLOCK_SKEW + NONCE_RETENTION)
    BY <1>2, <2>3, ParameterAssumption
  <2> HIDE DEF r
  <2>5. effects[r] = 0
    <3>1. effects[r] <= 1 /\ effects[r] # 1
      BY <1>2, <2>2, <2>4 DEF Once
    <3>2. effects[r] \in Nat
      BY <1>2 DEF TypeOK
    <3> QED
      BY <3>1, <3>2
  <2>6. effects'[r] = 1 /\ \A q \in Requests : q # r => effects'[q] = effects[q]
    BY <1>2, <2>1, <2>5 DEF TypeOK
  <2> QED
    BY <1>1, <2>1, <2>6 DEF Once
<1> QED
  BY <1>3, <1>4

\* Every step keeps the nonces of requests that could still be served.
LEMMA OnceKept == ASSUME IInv, [Next]_vars PROVE Once'
<1>1. ASSUME UNCHANGED <<seen_nonce, effects, minute>> PROVE Once'
  BY <1>1 DEF IInv, Once
<1>2. CASE Tick
  <2>1. minute \in Nat /\ \A r \in Requests : r.stamped \in Nat
    BY ParameterAssumption DEF IInv, TypeOK, Minutes, Request
  <2> QED
    BY <1>2, <2>1, ParameterAssumption DEF Tick, tableVars, historyVars, IInv, Once
<1> QED
  BY <1>1, <1>2, SweptTooLate, FirstUse
  DEF Next, Step, Receive, lookupDevice, reserveUpload, tenantBytesStored, latestSnapshot, storeSnapshot, touchDevice,
      Fails, revokeDevice, vars, tableVars, historyVars

-----------------------------------------------------------------------------
(* The rows *)

\* The row an upload writes is one.
LEMMA RowTyped == ASSUME NEW r \in Requests PROVE RowOf(r) \in Stored /\ RowOf(r) # None
<1>1. r.content \in Nat /\ r.ts \in Minutes /\ r.bytes \in Nat
  BY ParameterAssumption DEF Request
<1>2. RowOf(r) \in Stored
  BY <1>1 DEF RowOf, Stored
<1> QED
  BY <1>2, ParameterAssumption, SMT DEF Stored

\* The upsert writes its row or leaves a newer one, and touches no other slot.
LEMMA Writes ==
  ASSUME IInv, NEW x \in Executors, storeSnapshot(x)
  PROVE  /\ snapshot' \in {snapshot, [snapshot EXCEPT ![req[x].slot] = RowOf(req[x])]}
         /\ Held(req[x])'
         /\ \A s \in Slots : snapshot[s] # None =>
              snapshot'[s] # None /\ snapshot'[s].ts >= snapshot[s].ts
<1> DEFINE r == req[x]
<1>1. pc[x] \in Statements /\ req' = req /\ snapshot \in [Slots -> Stored \cup {None}]
  BY DEF storeSnapshot, At, Statements, Goto, localVars, IInv, TypeOK
<1>2. r \in Requests /\ r.slot \in Slots /\ r.ts \in Minutes
  BY <1>1, Serving
<1>3. snapshot' = [snapshot EXCEPT ![r.slot] = IF Replaces(r, snapshot[r.slot]) THEN RowOf(r) ELSE snapshot[r.slot]]
  BY DEF storeSnapshot, RowOf
<1> HIDE DEF r
<1>4. RowOf(r).ts = r.ts /\ RowOf(r) # None
  BY <1>2, RowTyped DEF RowOf
<1>5. r.ts \in Int /\ \A s \in Slots : snapshot[s] # None => snapshot[s].ts \in Int
  BY <1>1, <1>2 DEF Stored, Minutes
<1>6. CASE Replaces(r, snapshot[r.slot])
  <2>1. snapshot' = [snapshot EXCEPT ![r.slot] = RowOf(r)]
    BY <1>3, <1>6
  <2>2. snapshot[r.slot] # None => snapshot[r.slot].ts <= r.ts
    BY <1>6 DEF Replaces
  <2>3. snapshot'[r.slot] = RowOf(r) /\ \A s \in Slots : s # r.slot => snapshot'[s] = snapshot[s]
    BY <1>1, <1>2, <2>1
  <2>4. \A s \in Slots : snapshot[s] # None => snapshot'[s] # None /\ snapshot'[s].ts >= snapshot[s].ts
    BY <1>4, <1>5, <2>2, <2>3
  <2> QED
    BY <1>1, <1>4, <1>5, <2>1, <2>3, <2>4 DEF Held, r
<1>7. CASE ~Replaces(r, snapshot[r.slot])
  <2>1. snapshot[r.slot] # None /\ ~(snapshot[r.slot].ts <= r.ts)
    BY <1>7 DEF Replaces
  <2>2. snapshot' = snapshot
    BY <1>1, <1>2, <1>3, <1>7
  <2> QED
    BY <1>1, <1>2, <1>5, <2>1, <2>2 DEF Held, r
<1> QED
  BY <1>6, <1>7

\* Only the upsert changes a row.
LEMMA RowsUntouched ==
  ASSUME [Next]_vars, \A x \in Executors : ~storeSnapshot(x)
  PROVE  snapshot' = snapshot
BY DEF Next, Step, Receive, lookupDevice, reserveUpload, bucketLock, tenantBytesStored, rememberNonce, latestSnapshot,
       touchDevice, Fails, revokeDevice, Tick, vars, tableVars

\* No step makes a row older.
LEMMA RowsAdvance ==
  ASSUME IInv, [Next]_vars
  PROVE  \A s \in Slots : snapshot[s] # None => snapshot'[s] # None /\ snapshot'[s].ts >= snapshot[s].ts
<1>1. CASE \E x \in Executors : storeSnapshot(x)
  BY <1>1, Writes
<1>2. CASE snapshot' = snapshot
  <2>1. \A s \in Slots : snapshot[s] # None => snapshot[s].ts \in Int
    BY DEF IInv, TypeOK, Stored, Minutes
  <2> QED
    BY <1>2, <2>1
<1> QED
  BY <1>1, <1>2, RowsUntouched

\* The rows keep being those of uploads.
LEMMA UploadedKept == ASSUME IInv, [Next]_vars PROVE Uploaded'
<1>1. ASSUME NEW x \in Executors, storeSnapshot(x) PROVE Uploaded'
  <2> DEFINE r == req[x]
  <2>1. pc[x] \in Statements
    BY <1>1 DEF storeSnapshot, At, Statements
  <2>2. r \in Requests /\ r.slot \in Slots /\ snapshot \in [Slots -> Stored \cup {None}]
    BY <2>1, Serving DEF IInv, TypeOK
  <2>3. snapshot' \in {snapshot, [snapshot EXCEPT ![r.slot] = RowOf(r)]}
    BY <1>1, Writes
  <2> HIDE DEF r
  <2> QED
    BY <2>2, <2>3 DEF IInv, Uploaded
<1> QED
  BY <1>1, RowsUntouched DEF IInv, Uploaded

\* What was accepted stays held, whoever else writes meanwhile.
LEMMA AcceptedKept == ASSUME IInv, [Next]_vars PROVE Accepted'
<1> USE DEF IInv
<1>1. \A r \in Requests : Held(r) => Held(r)'
  <2> SUFFICES ASSUME NEW r \in Requests, Held(r) PROVE Held(r)'
    OBVIOUS
  <2>1. r.slot \in Slots /\ r.ts \in Int
    BY ParameterAssumption DEF Request, Minutes
  <2>2. snapshot[r.slot] # None /\ snapshot[r.slot].ts >= r.ts
    BY DEF Held
  <2>3. snapshot'[r.slot] # None /\ snapshot'[r.slot].ts >= snapshot[r.slot].ts
    BY <2>1, <2>2, RowsAdvance
  <2>4. snapshot \in [Slots -> Stored \cup {None}] /\ snapshot' \in [Slots -> Stored \cup {None}]
    BY TypesKept DEF TypeOK
  <2>5. snapshot[r.slot] \in Stored /\ snapshot'[r.slot] \in Stored
    BY <2>1, <2>2, <2>3, <2>4
  <2>6. snapshot[r.slot].ts \in Int /\ snapshot'[r.slot].ts \in Int
    BY <2>5 DEF Stored, Minutes
  <2> QED
    BY <2>1, <2>2, <2>3, <2>6 DEF Held
<1>2. ASSUME NEW y \in Executors, pc'[y] = pc[y], req'[y] = req[y], status'[y] = status[y]
      PROVE  /\ pc'[y] = "touchDevice" => Held(req[y])'
             /\ status'[y] = 200 => pc'[y] = "done" /\ req'[y] \in Requests /\ Held(req[y])'
  <2>1. pc[y] = "touchDevice" => req[y] \in Requests
    BY DEF TypeOK, Statements
  <2> QED
    BY <1>1, <1>2, <2>1 DEF Accepted, Held
<1>3. ASSUME NEW x \in Executors, Handles(x) \/ \E r \in Requests : Receive(x, r) PROVE Accepted'
  <2>1. Elsewhere(x)
    BY <1>3, Proceeds, Arrives
  <2>2. /\ pc'[x] = "touchDevice" => Held(req[x])'
        /\ status'[x] = 200 => pc'[x] = "done" /\ req'[x] \in Requests /\ Held(req[x])'
    <3>1. ASSUME NEW code \in Codes \ {200}, Answer(x, code) PROVE pc'[x] = "done" /\ status'[x] # 200
      <4>1. pc'[x] = "done" /\ status'[x] = code
        BY <3>1, Answers DEF Returned
      <4> QED
        BY <4>1
    <3>2. CASE storeSnapshot(x)
      <4>1. status'[x] = status[x] /\ pc[x] = "storeSnapshot" /\ req' = req
        BY <3>2 DEF storeSnapshot, Goto, At, localVars
      <4>2. status[x] # 200
        BY <4>1 DEF Accepted
      <4> QED
        BY <3>2, <4>1, <4>2, Writes
    <3>3. CASE touchDevice(x)
      <4>1. pc[x] = "touchDevice" /\ pc[x] \in Statements /\ snapshot' = snapshot
        BY <3>3 DEF touchDevice, At, tableVars, Statements
      <4>2. Held(req[x]) /\ req[x] \in Requests
        BY <4>1 DEF Accepted, TypeOK
      <4>3. pc'[x] = "done" /\ req' = req
        BY <3>3, Answers DEF touchDevice, Returned, Codes
      <4> QED
        BY <4>1, <4>2, <4>3 DEF Held
    <3>4. CASE \E r \in Requests : Receive(x, r)
      BY <3>4, Arrives DEF Returned
    <3>5. ASSUME pc[x] \in Statements, status'[x] = status[x], pc'[x] # "touchDevice" PROVE status'[x] # 200
      BY <3>5 DEF Accepted, Statements
    <3>6. CASE tenantBytesStored(x)
      <4>1. checkQuota(uploadsInWindow[x] - 1, req[x].bytes, TenantBytes) \in {0, 429, 507}
        BY DEF checkQuota
      <4>2. (\E code \in Codes \ {200} : Answer(x, code)) \/ Goto(x, "rememberNonce")
        BY <3>6, <4>1 DEF tenantBytesStored, Codes
      <4>3. Goto(x, "rememberNonce") => pc'[x] # "touchDevice" /\ status'[x] = status[x]
        BY DEF Goto, TypeOK
      <4> QED
        BY <3>1, <3>5, <3>6, <4>2, <4>3 DEF tenantBytesStored, At, Statements
    <3>7. CASE reserveUpload(x) \/ bucketLock(x)
      BY <3>5, <3>7 DEF reserveUpload, bucketLock, At, Statements, TypeOK
    <3>8. CASE lookupDevice(x) \/ rememberNonce(x) \/ latestSnapshot(x) \/ Fails(x)
      <4>1. \/ \E code \in Codes \ {200} : Answer(x, code)
            \/ \E s \in Statements : Goto(x, s) /\ s # "touchDevice"
        BY <3>8 DEF lookupDevice, rememberNonce, latestSnapshot, Fails, Codes, Statements
      <4>2. pc[x] \in Statements
        BY <3>8 DEF lookupDevice, rememberNonce, latestSnapshot, Fails, At, Statements
      <4>3. ASSUME NEW s \in Statements, Goto(x, s), s # "touchDevice"
            PROVE  pc'[x] # "touchDevice" /\ status'[x] = status[x]
        BY <4>3 DEF Goto, TypeOK
      <4> QED
        BY <3>1, <3>5, <4>1, <4>2, <4>3
    <3> QED
      BY <1>3, <3>2, <3>3, <3>4, <3>6, <3>7, <3>8 DEF Handles
  <2>3. \A y \in Executors : y # x => pc'[y] = pc[y] /\ req'[y] = req[y] /\ status'[y] = status[y]
    BY <2>1 DEF Elsewhere
  <2> QED
    BY <1>2, <2>2, <2>3 DEF Accepted
<1>4. CASE (\E v \in Devices : revokeDevice(v)) \/ Tick \/ UNCHANGED vars
  <2>1. UNCHANGED <<pc, req, status>>
    BY <1>4 DEF revokeDevice, Tick, vars, localVars
  <2> QED
    BY <1>2, <2>1 DEF Accepted
<1> QED
  BY <1>3, <1>4 DEF Next, Step, Handles

-----------------------------------------------------------------------------
(* The hourly cap *)

\* A minute is a natural number.
LEMMA MinutesCount == \A m \in Minutes : m \in Nat
BY DEF Minutes

\* Some of the instances are finitely many, and all but one are one fewer.
LEMMA SomeInstances ==
  ASSUME NEW S \in SUBSET Executors, NEW T \in SUBSET Executors
  PROVE  /\ Cardinality(S) \in Nat /\ Cardinality(Executors) \in Nat
         /\ S \subseteq T => Cardinality(S) <= Cardinality(T)
         /\ \A x \in Executors \ S : Cardinality(S) <= Cardinality(Executors) - 1
         /\ \A x \in S : S = T \cup {x} /\ x \notin T => Cardinality(S) = Cardinality(T) + 1
<1>1. IsFiniteSet(Executors) /\ IsFiniteSet(S) /\ IsFiniteSet(T)
  BY ParameterAssumption, FS_Subset
<1>2. Cardinality(S) \in Nat /\ Cardinality(Executors) \in Nat
  BY <1>1, FS_CardinalityType
<1>3. S \subseteq T => Cardinality(S) <= Cardinality(T)
  BY <1>1, FS_Subset
<1>4. ASSUME NEW x \in Executors \ S PROVE Cardinality(S) <= Cardinality(Executors) - 1
  <2>1. Cardinality(S \cup {x}) = Cardinality(S) + 1 /\ IsFiniteSet(S \cup {x})
    BY <1>1, FS_AddElement
  <2>2. S \cup {x} \in SUBSET Executors
    OBVIOUS
  <2>3. Cardinality(S \cup {x}) <= Cardinality(Executors)
    BY <1>1, <2>2, FS_Subset
  <2> QED
    BY <1>2, <2>1, <2>3
<1>5. ASSUME NEW x \in S, S = T \cup {x}, x \notin T PROVE Cardinality(S) = Cardinality(T) + 1
  BY <1>1, <1>5, FS_AddElement
<1> QED
  BY <1>2, <1>3, <1>4, <1>5

\* The hour before a bucket is finitely many buckets, and the bucket is not one of them.
LEMMA HourBefore ==
  ASSUME NEW b \in Minutes
  PROVE  /\ Earlier(b) \in SUBSET Minutes /\ IsFiniteSet(Earlier(b)) /\ \A m \in Earlier(b) : m < b
         /\ b \notin Earlier(b)
         /\ \A f \in [Minutes -> Nat] : SumFunctionOnSet(f, Earlier(b)) \in Nat
<1>1. IsFiniteSet(Minutes)
  BY FS_Interval, ParameterAssumption DEF Minutes
<1>2. Earlier(b) \in SUBSET Minutes /\ IsFiniteSet(Earlier(b))
  BY <1>1, FS_Subset DEF Earlier
<1>3. b \notin Earlier(b) /\ \A m \in Earlier(b) : m < b
  BY DEF Earlier, Minutes
<1> QED
  BY <1>2, <1>3, SumType

\* The counts of the invariant are naturals.
LEMMA CountsTyped ==
  ASSUME TypeOK, NEW v \in Devices, NEW b \in Minutes
  PROVE  /\ InFlight(v, b) \in SUBSET Executors /\ LetThrough(v, b) \in SUBSET Executors
         /\ Before(v, b) \in Nat /\ Let(v, b) \in Nat
<1>1. InFlight(v, b) \in SUBSET Executors /\ LetThrough(v, b) \in SUBSET Executors
  BY DEF InFlight, LetThrough
<1>2. upload_window[v] \in [Minutes -> Nat] /\ admitted[v][b] \in Nat
  BY DEF TypeOK
<1>3. SumFunctionOnSet(upload_window[v], Earlier(b)) \in Nat
  BY <1>2, HourBefore
<1>4. Cardinality(InFlight(v, b)) \in Nat /\ Cardinality(LetThrough(v, b)) \in Nat
  BY <1>1, SomeInstances
<1> QED
  BY <1>1, <1>2, <1>3, <1>4 DEF Before, Let

\* The same of the counts after a step.
LEMMA CountsTypedNext ==
  ASSUME TypeOK', NEW v \in Devices, NEW b \in Minutes
  PROVE  /\ InFlight(v, b)' \in SUBSET Executors /\ LetThrough(v, b)' \in SUBSET Executors
         /\ Before(v, b)' \in Nat /\ Let(v, b)' \in Nat
<1>1. InFlight(v, b)' \in SUBSET Executors /\ LetThrough(v, b)' \in SUBSET Executors
  BY DEF InFlight, LetThrough
<1>2. upload_window'[v] \in [Minutes -> Nat] /\ admitted'[v][b] \in Nat
  BY DEF TypeOK
<1>3. SumFunctionOnSet(upload_window'[v], Earlier(b)) \in Nat
  BY <1>2, HourBefore
<1>4. Cardinality(InFlight(v, b)') \in Nat /\ Cardinality(LetThrough(v, b)') \in Nat
  BY <1>1, SomeInstances
<1> QED
  BY <1>1, <1>2, <1>3, <1>4 DEF Before, Let

\* A step after which fewer uploads count, and no reservation is new, keeps the caps.
LEMMA CapsCarry ==
  ASSUME IInv, TypeOK', minute' >= minute, upload_window' = upload_window,
         \A v \in Devices, m \in Minutes : Let(v, m)' <= Let(v, m) /\ Before(v, m)' <= Before(v, m),
         \A x \in Executors : pc'[x] = "bucketLock" =>
           pc[x] = pc'[x] /\ req[x] = req'[x] /\ bucket[x] = bucket'[x] /\ uploadsInWindow[x] = uploadsInWindow'[x]
  PROVE  Capped'
<1> USE DEF IInv
<1>0. MAX_UPLOADS_PER_HOUR_PER_DEVICE \in Nat /\ Cardinality(Executors) \in Nat
  BY ParameterAssumption, SomeInstances
<1>1. ASSUME NEW v \in Devices, NEW m \in Minutes
      PROVE  /\ m > minute' => upload_window'[v][m] = 0
             /\ Let(v, m)' <= upload_window'[v][m]
             /\ Let(v, m)' > 0 =>
                  Before(v, m)' + Let(v, m)' <= MAX_UPLOADS_PER_HOUR_PER_DEVICE + Cardinality(Executors) - 1
  <2>1. /\ m > minute => upload_window[v][m] = 0
        /\ Let(v, m) <= upload_window[v][m]
        /\ Let(v, m) > 0 => Before(v, m) + Let(v, m) <= MAX_UPLOADS_PER_HOUR_PER_DEVICE + Cardinality(Executors) - 1
    BY DEF Capped
  <2>2. /\ Let(v, m) \in Nat /\ Before(v, m) \in Nat /\ Let(v, m)' \in Nat /\ Before(v, m)' \in Nat
        /\ upload_window[v][m] \in Nat /\ minute \in Nat /\ minute' \in Nat /\ m \in Nat
    <3>1. Let(v, m) \in Nat /\ Before(v, m) \in Nat
      BY CountsTyped
    <3>2. Let(v, m)' \in Nat /\ Before(v, m)' \in Nat
      BY CountsTypedNext
    <3>3. upload_window[v][m] \in Nat /\ minute \in Minutes /\ minute' \in Minutes
      BY DEF TypeOK
    <3> QED
      BY <3>1, <3>2, <3>3, MinutesCount
  <2>3. Let(v, m)' <= Let(v, m) /\ Before(v, m)' <= Before(v, m)
    OBVIOUS
  <2> QED
    BY <1>0, <2>1, <2>2, <2>3
<1>2. ASSUME NEW x \in Executors, NEW v \in Devices, NEW b \in Minutes,
             pc'[x] = "bucketLock", req'[x].device = v, bucket'[x] = b
      PROVE  Before(v, b)' <= uploadsInWindow'[x] + Cardinality(Executors) - 1
  <2>1. pc[x] = "bucketLock" /\ req[x].device = v /\ bucket[x] = b /\ uploadsInWindow'[x] = uploadsInWindow[x]
    BY <1>2
  <2>2. uploadsInWindow[x] \in Nat
    BY DEF TypeOK
  <2>3. Before(v, b) <= uploadsInWindow[x] + Cardinality(Executors) - 1
    BY <2>1 DEF Capped
  <2>4. Before(v, b)' <= Before(v, b)
    OBVIOUS
  <2>5. Before(v, b) \in Nat
    BY CountsTyped
  <2>6. Before(v, b)' \in Nat
    BY CountsTypedNext
  <2> QED
    BY <1>0, <2>1, <2>2, <2>3, <2>4, <2>5, <2>6
<1>3. ASSUME NEW x \in Executors, pc'[x] = "bucketLock"
      PROVE  Before(req[x].device, bucket[x])' <= uploadsInWindow'[x] + Cardinality(Executors) - 1
  <2>1. PICK v \in Devices, b \in Minutes : req'[x].device = v /\ bucket'[x] = b
    <3>1. pc[x] \in Statements /\ req'[x] = req[x]
      BY <1>3 DEF Statements
    <3> QED
      BY <3>1, Serving DEF TypeOK
  <2>2. Before(v, b)' <= uploadsInWindow'[x] + Cardinality(Executors) - 1
    BY <1>2, <1>3, <2>1
  <2>3. Before(req[x].device, bucket[x])' = Before(v, b)'
    BY <2>1 DEF Before, InFlight
  <2> QED
    BY <2>2, <2>3
<1> QED
  BY <1>1, <1>3 DEF Capped

\* Whoever is not at a reservation leaves the counts alone, or takes its own away.
LEMMA CapsUntouched ==
  ASSUME IInv, TypeOK', minute' >= minute, UNCHANGED <<upload_window, admitted>>,
         \A x \in Executors : pc'[x] \in {"bucketLock", "tenantBytesStored"} =>
           pc[x] = pc'[x] /\ req[x] = req'[x] /\ bucket[x] = bucket'[x] /\ uploadsInWindow[x] = uploadsInWindow'[x]
  PROVE  Capped'
<1>1. ASSUME NEW v \in Devices, NEW m \in Minutes PROVE Let(v, m)' <= Let(v, m) /\ Before(v, m)' <= Before(v, m)
  <2>1. InFlight(v, m)' \subseteq InFlight(v, m) /\ LetThrough(v, m)' \subseteq LetThrough(v, m)
    BY DEF InFlight, LetThrough
  <2>2. /\ InFlight(v, m) \in SUBSET Executors /\ LetThrough(v, m) \in SUBSET Executors
        /\ InFlight(v, m)' \in SUBSET Executors /\ LetThrough(v, m)' \in SUBSET Executors
    BY CountsTyped, CountsTypedNext DEF IInv
  <2>3. /\ Cardinality(InFlight(v, m)') <= Cardinality(InFlight(v, m))
        /\ Cardinality(InFlight(v, m)) \in Nat /\ Cardinality(InFlight(v, m)') \in Nat
    BY <2>1, <2>2, SomeInstances
  <2>4. /\ Cardinality(LetThrough(v, m)') <= Cardinality(LetThrough(v, m))
        /\ Cardinality(LetThrough(v, m)) \in Nat /\ Cardinality(LetThrough(v, m)') \in Nat
    BY <2>1, <2>2, SomeInstances
  <2>5. admitted[v][m] \in Nat /\ SumFunctionOnSet(upload_window[v], Earlier(m)) \in Nat
    BY HourBefore DEF IInv, TypeOK
  <2> QED
    BY <2>3, <2>4, <2>5 DEF Let, Before
<1> QED
  BY <1>1, CapsCarry

\* A reservation counts what it sees: what it misses is in flight.
LEMMA CapsReserve == ASSUME IInv, TypeOK', NEW x \in Executors, reserveUpload(x) PROVE Capped'
<1> USE DEF IInv
<1>1. /\ pc[x] = "reserveUpload" /\ pc[x] \in Statements /\ pc' = [pc EXCEPT ![x] = "bucketLock"]
      /\ bucket' = [bucket EXCEPT ![x] = minute]
      /\ uploadsInWindow' = [uploadsInWindow EXCEPT ![x] = SumFunctionOnSet(upload_window[req[x].device], Earlier(minute))]
      /\ minute' = minute /\ req' = req /\ upload_window' = upload_window /\ admitted' = admitted
  BY DEF reserveUpload, At, tableVars, historyVars, Statements
<1>2. /\ pc'[x] = "bucketLock" /\ bucket'[x] = minute
      /\ uploadsInWindow'[x] = SumFunctionOnSet(upload_window[req[x].device], Earlier(minute))
      /\ \A y \in Executors : y # x => /\ pc'[y] = pc[y] /\ bucket'[y] = bucket[y]
                                       /\ uploadsInWindow'[y] = uploadsInWindow[y]
  BY <1>1 DEF TypeOK
<1>3. \A v \in Devices, b \in Minutes : LetThrough(v, b)' = LetThrough(v, b)
  BY <1>1, <1>2 DEF LetThrough
<1>4. \A v \in Devices, b \in Minutes : b <= minute => InFlight(v, b)' = InFlight(v, b)
  BY <1>1, <1>2 DEF InFlight, TypeOK, Minutes
<1>5. \A v \in Devices, b \in Minutes : Let(v, b)' = Let(v, b)
  BY <1>1, <1>3 DEF Let
<1>6. \A v \in Devices, b \in Minutes : b <= minute => Before(v, b)' = Before(v, b)
  BY <1>1, <1>4 DEF Before
<1>7. ASSUME NEW v \in Devices, NEW m \in Minutes
      PROVE  /\ m > minute' => upload_window'[v][m] = 0
             /\ Let(v, m)' <= upload_window'[v][m]
             /\ Let(v, m)' > 0 =>
                  Before(v, m)' + Let(v, m)' <= MAX_UPLOADS_PER_HOUR_PER_DEVICE + Cardinality(Executors) - 1
  <2>1. /\ m > minute => upload_window[v][m] = 0
        /\ Let(v, m) <= upload_window[v][m]
        /\ Let(v, m) > 0 => Before(v, m) + Let(v, m) <= MAX_UPLOADS_PER_HOUR_PER_DEVICE + Cardinality(Executors) - 1
    BY DEF Capped
  <2>2. Let(v, m) \in Nat /\ minute \in Nat /\ m \in Nat
    <3>1. Let(v, m) \in Nat
      BY CountsTyped
    <3>2. minute \in Minutes
      BY DEF TypeOK
    <3> QED
      BY <3>1, <3>2, MinutesCount
  <2>3. Let(v, m) > 0 => m <= minute
    BY <2>1, <2>2
  <2> QED
    BY <1>1, <1>5, <1>6, <2>1, <2>3
<1>8. ASSUME NEW y \in Executors, pc'[y] = "bucketLock"
      PROVE  Before(req[y].device, bucket[y])' <= uploadsInWindow'[y] + Cardinality(Executors) - 1
  <2>1. PICK v \in Devices, b \in Minutes : req[y].device = v /\ bucket'[y] = b
    <3>1. pc[y] \in Statements
      BY <1>1, <1>2, <1>8 DEF Statements
    <3>2. req[y].device \in Devices
      BY <3>1, Serving
    <3>3. bucket'[y] \in Minutes
      BY DEF TypeOK
    <3> HIDE DEF IInv
    <3> QED
      BY <3>2, <3>3, Zenon
  <2>2. b <= minute
    <3>1. minute \in Nat
      BY MinutesCount DEF TypeOK
    <3>2. y # x => b = bucket[y]
      BY <1>2, <2>1
    <3>3. bucket[y] <= minute
      BY DEF Timely
    <3> HIDE DEF IInv
    <3> QED
      BY <1>2, <2>1, <3>1, <3>2, <3>3
  <2>3. Before(req[y].device, bucket[y])' = Before(v, b)
    <3>1. Before(req[y].device, bucket[y])' = Before(v, b)'
      BY <1>1, <2>1 DEF Before, InFlight
    <3> QED
      BY <1>6, <2>2, <3>1
  <2>4. CASE y = x
    <3>1. Cardinality(InFlight(v, b)) <= Cardinality(Executors) - 1
      BY <1>1, CountsTyped, SomeInstances DEF InFlight
    <3>2. uploadsInWindow'[y] = SumFunctionOnSet(upload_window[v], Earlier(b)) /\ uploadsInWindow'[y] \in Nat
      BY <1>2, <2>1, <2>4 DEF TypeOK
    <3>3. Cardinality(InFlight(v, b)) \in Nat /\ Cardinality(Executors) \in Nat
      BY CountsTyped, SomeInstances
    <3> QED
      BY <2>3, <3>1, <3>2, <3>3 DEF Before
  <2>5. CASE y # x
    BY <1>2, <1>8, <2>1, <2>3, <2>5 DEF Capped
  <2> QED
    BY <2>4, <2>5
<1> QED
  BY <1>7, <1>8 DEF Capped

\* A reservation whose count lets it through leaves no more before it than it counted,
\* and takes its place in its own bucket.
LEMMA CapsLock == ASSUME IInv, TypeOK', NEW x \in Executors, bucketLock(x) PROVE Capped'
<1> USE DEF IInv
<1> DEFINE N == Cardinality(Executors)
           most == MAX_UPLOADS_PER_HOUR_PER_DEVICE
<1>0. most \in Nat /\ N \in Nat
  BY ParameterAssumption, SomeInstances
<1> HIDE DEF N, most
<1>1. PICK w \in Devices, c \in Minutes, e \in Nat : req[x].device = w /\ bucket[x] = c /\ uploadsInWindow[x] = e
  <2>1. req[x].device \in Devices
    BY Serving DEF bucketLock, At, Statements
  <2>2. bucket[x] \in Minutes /\ uploadsInWindow[x] \in Nat
    BY DEF TypeOK
  <2> HIDE DEF IInv
  <2> QED
    BY <2>1, <2>2, Zenon
<1>2. /\ pc[x] = "bucketLock" /\ pc' = [pc EXCEPT ![x] = "tenantBytesStored"]
      /\ upload_window' = [upload_window EXCEPT ![w][c] = @ + 1]
      /\ uploadsInWindow' = [uploadsInWindow EXCEPT ![x] = @ + upload_window'[w][c]]
      /\ minute' = minute /\ req' = req /\ bucket' = bucket /\ admitted' = admitted
  BY <1>1 DEF bucketLock, At, historyVars
<1>3. /\ \A v \in Devices, m \in Minutes :
           /\ upload_window[v][m] \in Nat
           /\ upload_window'[v][m] = IF v = w /\ m = c THEN upload_window[v][m] + 1 ELSE upload_window[v][m]
      /\ \A v \in Devices : upload_window[v] \in [Minutes -> Nat] /\ upload_window'[v] \in [Minutes -> Nat]
  <2>1. upload_window \in [Devices -> [Minutes -> Nat]] /\ upload_window' \in [Devices -> [Minutes -> Nat]]
    BY DEF TypeOK
  <2>2. upload_window'[w] = [upload_window[w] EXCEPT ![c] = @ + 1] /\ \A v \in Devices : v # w => upload_window'[v] = upload_window[v]
    BY <1>2, <2>1
  <2> QED
    BY <2>1, <2>2
<1>4. /\ pc'[x] = "tenantBytesStored" /\ uploadsInWindow'[x] = e + upload_window'[w][c]
      /\ \A y \in Executors : y # x => pc'[y] = pc[y] /\ uploadsInWindow'[y] = uploadsInWindow[y]
  BY <1>1, <1>2 DEF TypeOK
<1>5. Before(w, c) <= e + N - 1
  BY <1>1, <1>2 DEF Capped, N
<1>6. ASSUME NEW v \in Devices, NEW b \in Minutes PROVE InFlight(v, b)' = InFlight(v, b) \ {x}
  BY <1>2, <1>4 DEF InFlight
<1>7. ASSUME NEW v \in Devices, NEW b \in Minutes PROVE Before(v, b)' <= Before(v, b)
  <2>1. /\ Earlier(b) \in SUBSET Minutes /\ IsFiniteSet(Earlier(b)) /\ \A m \in Earlier(b) : m < b
        /\ SumFunctionOnSet(upload_window[v], Earlier(b)) \in Nat
        /\ SumFunctionOnSet(upload_window'[v], Earlier(b)) \in Nat
    BY <1>3, HourBefore
  <2>2. InFlight(v, b) \in SUBSET Executors /\ InFlight(v, b)' \in SUBSET Executors
    BY CountsTyped, CountsTypedNext
  <2>3. /\ Cardinality(InFlight(v, b)) \in Nat /\ Cardinality(InFlight(v, b)') \in Nat
        /\ Cardinality(InFlight(v, b)') <= Cardinality(InFlight(v, b))
    BY <1>6, <2>2, SomeInstances
  <2>4. CASE v = w /\ c \in Earlier(b)
    <3>1. \A m \in Earlier(b) \ {c} : upload_window'[v][m] = upload_window[v][m]
      BY <1>3, <2>1
    <3>2. SumFunctionOnSet(upload_window'[v], Earlier(b))
            = (SumFunctionOnSet(upload_window[v], Earlier(b)) - upload_window[v][c]) + upload_window'[v][c]
      BY <1>3, <2>1, <2>4, <3>1, SumOneChanges
    <3>3. upload_window'[v][c] = upload_window[v][c] + 1 /\ upload_window[v][c] \in Nat
      BY <1>3, <2>4
    <3>4. x \in InFlight(v, b)
      BY <1>1, <1>2, <2>1, <2>4 DEF InFlight
    <3>5. InFlight(v, b) = (InFlight(v, b)') \cup {x} /\ x \notin InFlight(v, b)'
      BY <1>6, <3>4
    <3>6. Cardinality(InFlight(v, b)) = Cardinality(InFlight(v, b)') + 1
      BY <2>2, <3>4, <3>5, SomeInstances
    <3> QED
      BY <2>1, <2>3, <3>2, <3>3, <3>6 DEF Before
  <2>5. CASE ~(v = w /\ c \in Earlier(b))
    <3>1. \A m \in Earlier(b) : upload_window'[v][m] = upload_window[v][m]
      BY <1>3, <2>1, <2>5
    <3>2. SumFunctionOnSet(upload_window'[v], Earlier(b)) = SumFunctionOnSet(upload_window[v], Earlier(b))
      BY <1>3, <2>1, <3>1, SumSame
    <3> QED
      BY <2>1, <2>3, <3>2 DEF Before
  <2> QED
    BY <2>4, <2>5
<1>8. ASSUME NEW v \in Devices, NEW b \in Minutes
      PROVE  /\ Let(v, b)' = Let(v, b) \/ (v = w /\ b = c /\ uploadsInWindow'[x] <= most /\ Let(v, b)' = Let(v, b) + 1)
  <2>1. LetThrough(v, b) \in SUBSET Executors /\ LetThrough(v, b)' \in SUBSET Executors /\ x \notin LetThrough(v, b)
    <3>1. LetThrough(v, b) \in SUBSET Executors /\ LetThrough(v, b)' \in SUBSET Executors
      BY DEF LetThrough
    <3>2. x \notin LetThrough(v, b)
      BY <1>2 DEF LetThrough
    <3> QED
      BY <3>1, <3>2
  <2>2. admitted[v][b] \in Nat /\ Cardinality(LetThrough(v, b)) \in Nat
    <3>1. admitted[v][b] \in Nat
      BY DEF TypeOK
    <3> QED
      BY <2>1, <3>1, SomeInstances
  <2>3. CASE v = w /\ b = c /\ uploadsInWindow'[x] <= most
    <3>1. LetThrough(v, b)' = LetThrough(v, b) \cup {x}
      BY <1>1, <1>2, <1>4, <2>3 DEF LetThrough, most
    <3>2. Cardinality(LetThrough(v, b)') = Cardinality(LetThrough(v, b)) + 1
      BY <2>1, <3>1, SomeInstances
    <3> QED
      BY <1>2, <2>2, <2>3, <3>2 DEF Let
  <2>4. CASE ~(v = w /\ b = c /\ uploadsInWindow'[x] <= most)
    <3>1. LetThrough(v, b)' = LetThrough(v, b)
      BY <1>1, <1>2, <1>4, <2>4 DEF LetThrough, most
    <3> QED
      BY <1>2, <3>1 DEF Let
  <2> QED
    BY <2>3, <2>4
<1>9. ASSUME NEW v \in Devices, NEW m \in Minutes
      PROVE  /\ m > minute' => upload_window'[v][m] = 0
             /\ Let(v, m)' <= upload_window'[v][m]
             /\ Let(v, m)' > 0 => Before(v, m)' + Let(v, m)' <= most + N - 1
  <2>1. /\ m > minute => upload_window[v][m] = 0
        /\ Let(v, m) <= upload_window[v][m]
        /\ Let(v, m) > 0 => Before(v, m) + Let(v, m) <= most + N - 1
    BY DEF Capped, N, most
  <2>2. /\ Let(v, m) \in Nat /\ Before(v, m) \in Nat
    BY CountsTyped
  <2>3. Let(v, m)' \in Nat /\ Before(v, m)' \in Nat
    BY CountsTypedNext
  <2>4. c <= minute /\ c \in Nat /\ m \in Nat /\ minute \in Nat
    <3>1. c <= minute /\ minute \in Minutes
      BY <1>1 DEF Timely, TypeOK
    <3> QED
      BY <3>1, MinutesCount
  <2>5. Before(v, m)' <= Before(v, m)
    BY <1>7
  <2>6. upload_window[v][m] \in Nat /\ (v = w /\ m = c => upload_window'[v][m] = upload_window[v][m] + 1)
        /\ (~(v = w /\ m = c) => upload_window'[v][m] = upload_window[v][m])
    BY <1>3
  <2>7. m > minute' => upload_window'[v][m] = 0
    BY <1>2, <2>1, <2>4, <2>6
  <2>8. CASE Let(v, m)' = Let(v, m)
    BY <1>0, <2>1, <2>2, <2>3, <2>5, <2>6, <2>7, <2>8
  <2>9. CASE v = w /\ m = c /\ uploadsInWindow'[x] <= most /\ Let(v, m)' = Let(v, m) + 1
    <3>1. Let(v, m)' <= upload_window'[v][m]
      BY <2>1, <2>2, <2>6, <2>9
    <3>2. Before(v, m)' <= e + N - 1 /\ e + upload_window'[v][m] <= most
      BY <1>0, <1>4, <1>5, <2>2, <2>3, <2>5, <2>9
    <3> QED
      BY <1>0, <2>3, <2>6, <2>7, <2>9, <3>1, <3>2
  <2> QED
    BY <1>8, <2>8, <2>9
<1>10. ASSUME NEW y \in Executors, pc'[y] = "bucketLock"
       PROVE  Before(req[y].device, bucket[y])' <= uploadsInWindow'[y] + Cardinality(Executors) - 1
  <2>1. y # x /\ pc[y] = "bucketLock" /\ pc[y] \in Statements /\ uploadsInWindow'[y] = uploadsInWindow[y]
    BY <1>4, <1>10 DEF Statements
  <2>2. PICK v \in Devices, b \in Minutes : req[y].device = v /\ bucket[y] = b
    <3>1. req[y].device \in Devices
      BY <2>1, Serving
    <3>2. bucket[y] \in Minutes
      BY DEF TypeOK
    <3> HIDE DEF IInv
    <3> QED
      BY <3>1, <3>2, Zenon
  <2>3. Before(v, b) <= uploadsInWindow[y] + N - 1 /\ uploadsInWindow[y] \in Nat
    BY <2>1, <2>2 DEF Capped, TypeOK, N
  <2>4. Before(v, b)' <= Before(v, b)
    BY <1>7
  <2>5. Before(v, b) \in Nat
    BY CountsTyped
  <2>6. Before(v, b)' \in Nat
    BY CountsTypedNext
  <2>7. Before(req[y].device, bucket[y])' = Before(v, b)'
    BY <1>2, <2>2 DEF Before, InFlight
  <2>8. Before(v, b)' <= uploadsInWindow'[y] + N - 1
    BY <1>0, <2>1, <2>3, <2>4, <2>5, <2>6
  <2> QED
    BY <2>7, <2>8 DEF N
<1> QED
  BY <1>9, <1>10 DEF Capped, N, most

\* An upload that is let through moves from those that will be to those that were.
LEMMA CapsAdmit == ASSUME IInv, TypeOK', NEW x \in Executors, tenantBytesStored(x) PROVE Capped'
<1> USE DEF IInv
<1> DEFINE refusal == checkQuota(uploadsInWindow[x] - 1, req[x].bytes, TenantBytes)
<1>1. pc[x] = "tenantBytesStored" /\ pc[x] \in Statements /\ minute' = minute /\ upload_window' = upload_window
  BY DEF tenantBytesStored, At, tableVars, Statements
<1>2. minute' >= minute
  <2>1. minute \in Nat
    BY MinutesCount DEF TypeOK
  <2> QED
    BY <1>1, <2>1
<1>3. refusal \in {0, 429, 507}
  BY DEF checkQuota
<1>4. CASE refusal # 0
  <2>1. Answer(x, refusal) /\ admitted' = admitted
    BY <1>4 DEF tenantBytesStored
  <2>2. pc'[x] = "done" /\ Elsewhere(x)
    BY <1>3, <1>4, <2>1, Answers DEF Returned, Codes
  <2>3. \A y \in Executors : pc'[y] \in {"bucketLock", "tenantBytesStored"} =>
          pc[y] = pc'[y] /\ req[y] = req'[y] /\ bucket[y] = bucket'[y] /\ uploadsInWindow[y] = uploadsInWindow'[y]
    BY <2>2 DEF Elsewhere
  <2> HIDE DEF refusal
  <2> QED
    BY <1>1, <1>2, <2>1, <2>3, CapsUntouched
<1>5. CASE refusal = 0
  <2>1. /\ pc' = [pc EXCEPT ![x] = "rememberNonce"] /\ UNCHANGED <<req, bucket, uploadsInWindow>>
        /\ admitted' = [admitted EXCEPT ![req[x].device][bucket[x]] = @ + 1]
    BY <1>5 DEF tenantBytesStored, Goto, localVars
  <2>2. ~(uploadsInWindow[x] - 1 >= MAX_UPLOADS_PER_HOUR_PER_DEVICE)
    BY <1>5 DEF checkQuota
  <2> HIDE DEF refusal
  <2>3. PICK w \in Devices, c \in Minutes : req[x].device = w /\ bucket[x] = c
    <3>1. req[x].device \in Devices
      BY <1>1, Serving
    <3>2. bucket[x] \in Minutes
      BY DEF TypeOK
    <3> HIDE DEF IInv
    <3> QED
      BY <3>1, <3>2, Zenon
  <2>4. uploadsInWindow[x] <= MAX_UPLOADS_PER_HOUR_PER_DEVICE
    <3>1. uploadsInWindow[x] \in Nat
      BY DEF TypeOK
    <3> QED
      BY <2>2, <3>1, ParameterAssumption
  <2>5. x \in LetThrough(w, c)
    BY <1>1, <2>3, <2>4 DEF LetThrough
  <2>6. \A v \in Devices, m \in Minutes :
          admitted[v][m] \in Nat /\ admitted'[v][m] = IF v = w /\ m = c THEN admitted[v][m] + 1 ELSE admitted[v][m]
    <3>1. admitted \in [Devices -> [Minutes -> Nat]]
      BY DEF TypeOK
    <3>2. admitted'[w] = [admitted[w] EXCEPT ![c] = @ + 1] /\ \A v \in Devices : v # w => admitted'[v] = admitted[v]
      BY <2>1, <2>3, <3>1
    <3> QED
      BY <3>1, <3>2
  <2>7. \A y \in Executors : y # x => pc'[y] = pc[y]
    BY <2>1 DEF TypeOK
  <2>8. pc'[x] = "rememberNonce"
    BY <2>1 DEF TypeOK
  <2>9. ASSUME NEW v \in Devices, NEW m \in Minutes PROVE Let(v, m)' = Let(v, m) /\ Before(v, m)' = Before(v, m)
    <3>1. InFlight(v, m)' = InFlight(v, m)
      BY <1>1, <2>1, <2>7, <2>8 DEF InFlight
    <3>2. LetThrough(v, m) \in SUBSET Executors /\ LetThrough(v, m)' \in SUBSET Executors
      BY DEF LetThrough
    <3>3. LetThrough(v, m)' = LetThrough(v, m) \ {x}
      BY <2>1, <2>7, <2>8 DEF LetThrough
    <3>4. admitted[v][m] \in Nat /\ Cardinality(LetThrough(v, m)') \in Nat
      BY <2>6, <3>2, SomeInstances
    <3>5. CASE v = w /\ m = c
      <4>1. x \in LetThrough(v, m) /\ x \notin LetThrough(v, m)' /\ LetThrough(v, m) = LetThrough(v, m)' \cup {x}
        BY <2>5, <3>3, <3>5
      <4>2. Cardinality(LetThrough(v, m)) = Cardinality(LetThrough(v, m)') + 1
        BY <3>2, <4>1, SomeInstances
      <4>3. admitted'[v][m] = admitted[v][m] + 1
        BY <2>6, <3>5
      <4> QED
        BY <1>1, <3>1, <3>4, <4>2, <4>3 DEF Let, Before
    <3>6. CASE ~(v = w /\ m = c)
      <4>1. x \notin LetThrough(v, m)
        BY <2>3, <3>6 DEF LetThrough
      <4>2. LetThrough(v, m)' = LetThrough(v, m) /\ admitted'[v][m] = admitted[v][m]
        BY <2>6, <3>3, <3>6, <4>1
      <4> QED
        BY <1>1, <3>1, <4>2 DEF Let, Before
    <3> QED
      BY <3>5, <3>6
  <2>10. ASSUME NEW v \in Devices, NEW m \in Minutes PROVE Let(v, m)' <= Let(v, m) /\ Before(v, m)' <= Before(v, m)
    <3>1. Let(v, m) \in Nat /\ Before(v, m) \in Nat
      BY CountsTyped
    <3> QED
      BY <2>9, <3>1
  <2>11. \A y \in Executors : pc'[y] = "bucketLock" =>
           pc[y] = pc'[y] /\ req[y] = req'[y] /\ bucket[y] = bucket'[y] /\ uploadsInWindow[y] = uploadsInWindow'[y]
    BY <2>1, <2>7, <2>8
  <2> QED
    BY <1>1, <1>2, <2>10, <2>11, CapsCarry
<1> QED
  BY <1>4, <1>5

\* Every step keeps the caps.
LEMMA CappedKept == ASSUME IInv, [Next]_vars PROVE Capped'
<1> USE DEF IInv
<1>1. TypeOK' /\ minute \in Nat
  BY TypesKept, MinutesCount DEF TypeOK
<1>2. ASSUME NEW x \in Executors, Handles(x) \/ \E r \in Requests : Receive(x, r),
             ~reserveUpload(x), ~bucketLock(x), ~tenantBytesStored(x)
      PROVE  Capped'
  <2>1. UNCHANGED <<minute, upload_window, admitted>>
    BY <1>2 DEF Handles, Receive, lookupDevice, rememberNonce, latestSnapshot, storeSnapshot, touchDevice, Fails,
                tableVars, historyVars
  <2>2. pc'[x] \notin {"bucketLock", "tenantBytesStored"}
    <3>1. ASSUME NEW code \in Codes, Answer(x, code) PROVE pc'[x] = "done"
      BY <3>1, Answers DEF Returned
    <3>2. ASSUME NEW s \in Statements \ {"bucketLock", "tenantBytesStored"}, Goto(x, s)
          PROVE  pc'[x] \notin {"bucketLock", "tenantBytesStored"}
      BY <3>2 DEF Goto, TypeOK
    <3>3. CASE Handles(x)
      <4>1. \/ \E code \in Codes : Answer(x, code)
            \/ \E s \in Statements \ {"bucketLock", "tenantBytesStored"} : Goto(x, s)
        BY <1>2, <3>3 DEF Handles, lookupDevice, rememberNonce, latestSnapshot, storeSnapshot, touchDevice, Fails,
                          Codes, Statements
      <4> QED
        BY <3>1, <3>2, <4>1
    <3>4. CASE \E r \in Requests : Receive(x, r)
      BY <3>4, Arrives DEF Returned
    <3> QED
      BY <1>2, <3>3, <3>4
  <2>3. Elsewhere(x)
    BY <1>2, Proceeds, Arrives
  <2>4. \A y \in Executors : pc'[y] \in {"bucketLock", "tenantBytesStored"} =>
          pc[y] = pc'[y] /\ req[y] = req'[y] /\ bucket[y] = bucket'[y] /\ uploadsInWindow[y] = uploadsInWindow'[y]
    BY <2>2, <2>3 DEF Elsewhere
  <2>5. minute' >= minute
    BY <1>1, <2>1
  <2> QED
    BY <1>1, <2>1, <2>4, <2>5, CapsUntouched
<1>3. CASE (\E v \in Devices : revokeDevice(v)) \/ Tick \/ UNCHANGED vars
  <2>1. UNCHANGED <<pc, req, bucket, uploadsInWindow, upload_window, admitted>>
    BY <1>3 DEF revokeDevice, Tick, vars, tableVars, localVars, historyVars
  <2>2. minute' >= minute
    BY <1>1, <1>3 DEF revokeDevice, Tick, vars
  <2> QED
    BY <1>1, <2>1, <2>2, CapsUntouched
<1> QED
  BY <1>1, <1>2, <1>3, CapsReserve, CapsLock, CapsAdmit DEF Next, Step, Handles

-----------------------------------------------------------------------------
(* The bytes of the tenant *)

\* The bytes of every slot.
SlotBytes == [s \in Slots |-> IF snapshot[s] = None THEN 0 ELSE snapshot[s].bytes]

\* What is stored and what is to come are naturals.
LEMMA BytesTyped ==
  ASSUME TypeOK
  PROVE  /\ SlotBytes \in [Slots -> Nat] /\ Coming \in [Executors -> Nat]
         /\ TenantBytes \in Nat /\ SumFunctionOnSet(Coming, Executors) \in Nat
         /\ TenantBytes = SumFunctionOnSet(SlotBytes, Slots)
<1>1. SlotBytes \in [Slots -> Nat]
  BY DEF SlotBytes, TypeOK, Stored
<1>2. ASSUME NEW x \in Executors, pc[x] \in Underway PROVE req[x].bytes \in Nat
  <2>1. pc[x] \in Statements
    BY <1>2 DEF Underway, Statements
  <2>2. req[x] \in Requests
    BY <2>1 DEF TypeOK
  <2> QED
    BY <2>2, ParameterAssumption DEF Request
<1>3. Coming \in [Executors -> Nat]
  BY <1>2 DEF Coming
<1> QED
  BY <1>1, <1>3, SumType, ParameterAssumption DEF TenantBytes, SlotBytes

\* The same after a step.
LEMMA BytesTypedNext ==
  ASSUME TypeOK'
  PROVE  /\ SlotBytes' \in [Slots -> Nat] /\ Coming' \in [Executors -> Nat]
         /\ TenantBytes' \in Nat /\ SumFunctionOnSet(Coming', Executors) \in Nat
         /\ TenantBytes' = SumFunctionOnSet(SlotBytes', Slots)
<1>1. SlotBytes' \in [Slots -> Nat]
  BY DEF SlotBytes, TypeOK, Stored
<1>2. ASSUME NEW x \in Executors, pc'[x] \in Underway PROVE req'[x].bytes \in Nat
  <2>1. pc'[x] \in Statements
    BY <1>2 DEF Underway, Statements
  <2>2. req'[x] \in Requests
    BY <2>1 DEF TypeOK
  <2> QED
    BY <2>2, ParameterAssumption DEF Request
<1>3. Coming' \in [Executors -> Nat]
  BY <1>2 DEF Coming
<1> QED
  BY <1>1, <1>3, SumType, ParameterAssumption DEF TenantBytes, SlotBytes

Ceiling == MAX_TENANT_BYTES + (Cardinality(Executors) - 1) * MAX_PAYLOAD_BYTES

\* The instances are not none, so the ceiling with what may pass it is a natural.
LEMMA CeilingTyped ==
  /\ Cardinality(Executors) \in Nat \ {0} /\ MAX_PAYLOAD_BYTES \in Nat /\ MAX_TENANT_BYTES \in Nat
  /\ (Cardinality(Executors) - 1) * MAX_PAYLOAD_BYTES \in Nat /\ Ceiling \in Nat
<1>1. Cardinality(Executors) \in Nat \ {0}
  BY ParameterAssumption, FS_CardinalityType, FS_EmptySet
<1>2. MAX_PAYLOAD_BYTES \in Nat /\ MAX_TENANT_BYTES \in Nat
  BY ParameterAssumption
<1>3. \A a, b \in Nat : a * b \in Nat
  OBVIOUS
<1>4. (Cardinality(Executors) - 1) \in Nat
  BY <1>1
<1>5. (Cardinality(Executors) - 1) * MAX_PAYLOAD_BYTES \in Nat
  BY <1>2, <1>3, <1>4
<1> HIDE DEF Ceiling
<1>6. Ceiling \in Nat
  BY <1>2, <1>5 DEF Ceiling
<1> QED
  BY <1>1, <1>2, <1>5, <1>6

\* A step that stores nothing and admits nothing has no more to come.
LEMMA QuotaCarries ==
  ASSUME IInv, TypeOK', snapshot' = snapshot,
         \A x \in Executors : pc'[x] \in Underway => pc[x] \in Underway /\ req'[x] = req[x]
  PROVE  Quota'
<1>1. /\ Coming \in [Executors -> Nat] /\ TenantBytes \in Nat
      /\ SumFunctionOnSet(Coming, Executors) \in Nat
  BY BytesTyped DEF IInv
<1>2. Coming' \in [Executors -> Nat] /\ SumFunctionOnSet(Coming', Executors) \in Nat
  BY BytesTypedNext
<1>3. \A x \in Executors : Coming'[x] <= Coming[x]
  <2> SUFFICES ASSUME NEW x \in Executors PROVE Coming'[x] <= Coming[x]
    OBVIOUS
  <2>1. Coming'[x] = IF pc'[x] \in Underway THEN req'[x].bytes ELSE 0
    BY DEF Coming
  <2>2. Coming[x] = IF pc[x] \in Underway THEN req[x].bytes ELSE 0
    BY DEF Coming
  <2>3. Coming[x] \in Nat
    BY <1>1
  <2> QED
    BY <2>1, <2>2, <2>3
<1>4. SumFunctionOnSet(Coming', Executors) <= SumFunctionOnSet(Coming, Executors)
  BY <1>1, <1>2, <1>3, SumGrows, ParameterAssumption
<1>5. TenantBytes' = TenantBytes
  BY DEF TenantBytes
<1>6. TenantBytes + SumFunctionOnSet(Coming, Executors) <= Ceiling
  BY DEF IInv, Quota, Ceiling
<1>7. TenantBytes' + SumFunctionOnSet(Coming', Executors) <= Ceiling
  BY <1>1, <1>2, <1>4, <1>5, <1>6, CeilingTyped
<1> QED
  BY <1>7 DEF Quota, Ceiling

\* An upload is admitted when it fits, beside whatever the others still bring.
LEMMA QuotaAdmits == ASSUME IInv, TypeOK', NEW x \in Executors, tenantBytesStored(x) PROVE Quota'
<1> DEFINE refusal == checkQuota(uploadsInWindow[x] - 1, req[x].bytes, TenantBytes)
<1>1. pc[x] \in Statements /\ snapshot' = snapshot
  BY DEF tenantBytesStored, At, tableVars, Statements
<1>2. refusal \in {0, 429, 507}
  BY DEF checkQuota
<1>3. CASE refusal # 0
  <2>1. pc'[x] = "done" /\ Elsewhere(x)
    BY <1>2, <1>3, Answers DEF tenantBytesStored, Returned, Codes
  <2> QED
    BY <1>1, <2>1, QuotaCarries DEF Elsewhere, Underway
<1>4. CASE refusal = 0
  <2>1. pc' = [pc EXCEPT ![x] = "rememberNonce"] /\ req' = req
    BY <1>4 DEF tenantBytesStored, Goto, localVars
  <2>2. ~(TenantBytes + req[x].bytes > MAX_TENANT_BYTES)
    BY <1>4 DEF checkQuota
  <2> HIDE DEF refusal
  <2>3. TenantBytes \in Nat /\ req[x].bytes \in Nat
    BY <1>1, Serving, BytesTyped DEF IInv
  <2>4. Coming' \in [Executors -> Nat]
    BY BytesTypedNext
  <2>5. pc'[x] = "rememberNonce"
    BY <2>1 DEF IInv, TypeOK
  <2>6. Coming'[x] = req[x].bytes
    BY <2>1, <2>5 DEF Coming, Underway
  <2>7. \A y \in Executors : pc'[y] \in Underway => req[y].bytes <= MAX_PAYLOAD_BYTES
    <3>1. \A y \in Executors : pc'[y] \in Underway => pc[y] \in Statements
      BY <1>1, <2>1 DEF IInv, TypeOK, Underway, Statements
    <3> QED
      BY <3>1 DEF IInv, Timely
  <2>8. \A y \in Executors : Coming'[y] <= MAX_PAYLOAD_BYTES
    BY <2>1, <2>7, CeilingTyped DEF Coming
  <2> DEFINE others == Executors \ {x}
  <2>9. IsFiniteSet(others) /\ Cardinality(others) = Cardinality(Executors) - 1 /\ others \in SUBSET Executors
    BY ParameterAssumption, FS_RemoveElement
  <2>10. SumFunctionOnSet(Coming', Executors) = Coming'[x] + SumFunctionOnSet(Coming', others)
    BY <2>4, ParameterAssumption, SumTakes
  <2> HIDE DEF others
  <2>11. \A y \in others : Coming'[y] <= MAX_PAYLOAD_BYTES
    BY <2>8, <2>9
  <2>12. SumFunctionOnSet(Coming', others) <= Cardinality(others) * MAX_PAYLOAD_BYTES
    BY <2>4, <2>9, <2>11, CeilingTyped, SumBounded
  <2>13. SumFunctionOnSet(Coming', others) \in Nat
    BY <2>4, <2>9, SumType
  <2>14. TenantBytes' = TenantBytes
    BY <1>1 DEF TenantBytes
  <2> DEFINE slack == (Cardinality(Executors) - 1) * MAX_PAYLOAD_BYTES
  <2>15. slack \in Nat /\ MAX_TENANT_BYTES \in Nat /\ SumFunctionOnSet(Coming', others) <= slack
    BY <2>9, <2>12, CeilingTyped
  <2> HIDE DEF slack
  <2>16. TenantBytes' + SumFunctionOnSet(Coming', Executors) <= MAX_TENANT_BYTES + slack
    BY <2>2, <2>3, <2>6, <2>10, <2>13, <2>14, <2>15
  <2> QED
    BY <2>16 DEF Quota, slack
<1> QED
  BY <1>3, <1>4

\* What is stored was to come: the row that is replaced only makes room.
LEMMA QuotaStores == ASSUME IInv, TypeOK', NEW x \in Executors, storeSnapshot(x) PROVE Quota'
<1>1. pc[x] = "storeSnapshot" /\ pc[x] \in Statements /\ pc' = [pc EXCEPT ![x] = "touchDevice"] /\ req' = req
  BY DEF storeSnapshot, At, Goto, localVars, Statements
<1>2. PICK r \in Requests : req[x] = r
  BY <1>1, Serving
<1>3. r.slot \in Slots /\ r.bytes \in Nat
  BY ParameterAssumption DEF Request
<1>4. /\ SlotBytes \in [Slots -> Nat] /\ Coming \in [Executors -> Nat]
      /\ TenantBytes \in Nat /\ SumFunctionOnSet(Coming, Executors) \in Nat
      /\ TenantBytes = SumFunctionOnSet(SlotBytes, Slots)
  BY BytesTyped DEF IInv
<1>5. /\ SlotBytes' \in [Slots -> Nat] /\ Coming' \in [Executors -> Nat]
      /\ TenantBytes' \in Nat /\ SumFunctionOnSet(Coming', Executors) \in Nat
      /\ TenantBytes' = SumFunctionOnSet(SlotBytes', Slots)
  BY BytesTypedNext
<1>6. Coming[x] = r.bytes /\ Coming'[x] = 0
  <2>1. pc'[x] = "touchDevice"
    BY <1>1 DEF IInv, TypeOK
  <2> QED
    BY <1>1, <1>2, <2>1 DEF Coming, Underway
<1>7. \A y \in Executors \ {x} : Coming'[y] = Coming[y]
  BY <1>1 DEF Coming, IInv, TypeOK
<1>8. SumFunctionOnSet(Coming', Executors) = (SumFunctionOnSet(Coming, Executors) - r.bytes) + 0
  BY <1>4, <1>5, <1>6, <1>7, SumOneChanges, ParameterAssumption
<1>9. TenantBytes' <= TenantBytes + r.bytes
  <2>1. snapshot' \in {snapshot, [snapshot EXCEPT ![r.slot] = RowOf(r)]}
    BY <1>2, Writes
  <2>2. CASE snapshot' = snapshot
    <3>1. TenantBytes' = TenantBytes
      BY <2>2 DEF TenantBytes
    <3> QED
      BY <1>3, <1>4, <3>1
  <2>3. CASE snapshot' = [snapshot EXCEPT ![r.slot] = RowOf(r)]
    <3>1. snapshot \in [Slots -> Stored \cup {None}]
      BY DEF IInv, TypeOK
    <3>2. snapshot'[r.slot] = RowOf(r) /\ \A s \in Slots \ {r.slot} : snapshot'[s] = snapshot[s]
      BY <1>3, <2>3, <3>1
    <3>3. SlotBytes'[r.slot] = r.bytes
      BY <1>3, <3>2, RowTyped DEF SlotBytes, RowOf
    <3>4. \A s \in Slots \ {r.slot} : SlotBytes'[s] = SlotBytes[s]
      BY <3>2 DEF SlotBytes
    <3>5. TenantBytes' = (TenantBytes - SlotBytes[r.slot]) + r.bytes
      BY <1>3, <1>4, <1>5, <3>3, <3>4, SumOneChanges, ParameterAssumption
    <3>6. SlotBytes[r.slot] \in Nat
      BY <1>3, <1>4
    <3> QED
      BY <1>3, <1>4, <3>5, <3>6
  <2> QED
    BY <2>1, <2>2, <2>3
<1>10. TenantBytes + SumFunctionOnSet(Coming, Executors) <= Ceiling
  BY DEF IInv, Quota, Ceiling
<1>11. TenantBytes' + SumFunctionOnSet(Coming', Executors) <= Ceiling
  BY <1>3, <1>4, <1>5, <1>8, <1>9, <1>10, CeilingTyped
<1> QED
  BY <1>11 DEF Quota, Ceiling

\* Every step keeps the quota.
LEMMA QuotaKept == ASSUME IInv, [Next]_vars PROVE Quota'
<1>1. TypeOK'
  BY TypesKept
<1>2. ASSUME NEW x \in Executors, Handles(x) \/ \E r \in Requests : Receive(x, r),
             ~storeSnapshot(x), ~tenantBytesStored(x)
      PROVE  Quota'
  <2>1. snapshot' = snapshot
    BY <1>2 DEF Handles, Receive, lookupDevice, reserveUpload, bucketLock, rememberNonce, latestSnapshot, touchDevice,
                Fails, tableVars
  <2>2. pc'[x] \in Underway => pc[x] \in Underway /\ req'[x] = req[x]
    <3>1. ASSUME NEW code \in Codes, Answer(x, code) PROVE pc'[x] \notin Underway
      BY <3>1, Answers DEF Returned, Underway
    <3>2. ASSUME NEW s \in Statements, Goto(x, s) PROVE pc'[x] = s /\ req' = req
      BY <3>2 DEF Goto, localVars, IInv, TypeOK
    <3>3. CASE rememberNonce(x) \/ latestSnapshot(x)
      <4>1. pc[x] \in Underway
        BY <3>3 DEF rememberNonce, latestSnapshot, At, Underway
      <4>2. \/ \E code \in Codes : Answer(x, code)
            \/ \E s \in Statements : Goto(x, s)
        BY <3>3 DEF rememberNonce, latestSnapshot, Codes, Statements
      <4> QED
        BY <3>1, <3>2, <4>1, <4>2
    <3>4. CASE reserveUpload(x) \/ bucketLock(x)
      BY <3>4 DEF reserveUpload, bucketLock, Underway, IInv, TypeOK
    <3>5. CASE lookupDevice(x) \/ touchDevice(x) \/ Fails(x)
      <4>1. (\E code \in Codes : Answer(x, code)) \/ Goto(x, "reserveUpload")
        BY <3>5 DEF lookupDevice, touchDevice, Fails, Codes
      <4>2. "reserveUpload" \in Statements /\ "reserveUpload" \notin Underway
        BY DEF Statements, Underway
      <4> QED
        BY <3>1, <3>2, <4>1, <4>2
    <3>6. CASE \E r \in Requests : Receive(x, r)
      BY <3>6, Arrives DEF Returned, Underway
    <3> QED
      BY <1>2, <3>3, <3>4, <3>5, <3>6 DEF Handles
  <2>3. Elsewhere(x)
    BY <1>2, Proceeds, Arrives
  <2>4. \A y \in Executors : pc'[y] \in Underway => pc[y] \in Underway /\ req'[y] = req[y]
    BY <2>2, <2>3 DEF Elsewhere
  <2> QED
    BY <1>1, <2>1, <2>4, QuotaCarries
<1>3. CASE (\E v \in Devices : revokeDevice(v)) \/ Tick \/ UNCHANGED vars
  <2>1. UNCHANGED <<pc, req, snapshot>>
    BY <1>3 DEF revokeDevice, Tick, vars, tableVars, localVars
  <2> QED
    BY <1>1, <2>1, QuotaCarries
<1> QED
  BY <1>1, <1>2, <1>3, QuotaAdmits, QuotaStores DEF Next, Step, Handles

-----------------------------------------------------------------------------
(* The invariant holds *)

\* The invariant holds before the first request.
LEMMA Start == Init => IInv
<1> SUFFICES ASSUME Init PROVE IInv
  OBVIOUS
<1>1. TypeOK
  <2>1. 0 \in Minutes
    BY ParameterAssumption DEF Minutes
  <2>2. \A x \in Executors : pc[x] \notin Statements
    BY DEF Init, Statements
  <2> QED
    BY <2>1, <2>2 DEF Init, TypeOK
<1>2. Timely
  BY DEF Init, Timely, Statements
<1>3. Once
  BY DEF Init, Once
<1>4. Uploaded /\ Accepted
  BY DEF Init, Uploaded, Accepted
<1>5. Capped
  <2>1. ASSUME NEW v \in Devices, NEW m \in Minutes
        PROVE  upload_window[v][m] = 0 /\ Let(v, m) <= upload_window[v][m] /\ ~(Let(v, m) > 0)
    <3>1. LetThrough(v, m) = {}
      BY DEF Init, LetThrough
    <3>2. Cardinality(LetThrough(v, m)) = 0
      BY <3>1, FS_EmptySet
    <3>3. Let(v, m) = 0 /\ upload_window[v][m] = 0
      BY <3>2 DEF Init, Let
    <3> QED
      BY <3>3
  <2>2. \A x \in Executors : pc[x] # "bucketLock"
    BY DEF Init
  <2> QED
    BY <2>1, <2>2 DEF Capped
<1>6. Quota
  <2>1. /\ SlotBytes \in [Slots -> Nat] /\ Coming \in [Executors -> Nat]
        /\ TenantBytes = SumFunctionOnSet(SlotBytes, Slots)
    BY <1>1, BytesTyped
  <2>2. (\A s \in Slots : SlotBytes[s] = 0) /\ (\A x \in Executors : Coming[x] = 0)
    BY DEF Init, SlotBytes, Coming, Underway
  <2>3. SumFunctionOnSet(SlotBytes, {}) = SumFunctionOnSet(SlotBytes, Slots)
    BY <2>1, <2>2, SumIgnoresZeros, ParameterAssumption
  <2>4. SumFunctionOnSet(Coming, {}) = SumFunctionOnSet(Coming, Executors)
    BY <2>1, <2>2, SumIgnoresZeros, ParameterAssumption
  <2>5. TenantBytes + SumFunctionOnSet(Coming, Executors) = 0
    BY <2>1, <2>3, <2>4, SumEmpty
  <2>6. 0 <= Ceiling
    BY CeilingTyped
  <2> QED
    BY <2>5, <2>6 DEF Quota, Ceiling
<1> QED
  BY <1>1, <1>2, <1>3, <1>4, <1>5, <1>6 DEF IInv

\* The invariant holds throughout, whatever the instances, the clock and the deliveries do.
THEOREM Invariant == Spec => []IInv
<1>1. IInv /\ [Next]_vars => IInv'
  BY TypesKept, TimelyKept, OnceKept, UploadedKept, AcceptedKept, CappedKept, QuotaKept DEF IInv
<1> QED
  BY <1>1, Start, PTL DEF Spec

\* Every table and every local keeps its type.
THEOREM TypeCorrect == Spec => []TypeOK
<1>1. IInv => TypeOK
  BY DEF IInv
<1> QED
  BY <1>1, Invariant, PTL

-----------------------------------------------------------------------------
(* What follows *)

\* An upload answered 200 is in the table or was overtaken by a newer one, however many
\* instances upsert the same slot at once (ingest.ts, storeSnapshot).
THEOREM AcceptedStaysStored == Spec => []AcceptedIsStored
<1>1. IInv => AcceptedIsStored
  BY DEF IInv, Accepted, Held, AcceptedIsStored
<1> QED
  BY <1>1, Invariant, PTL

\* However often and whenever a captured request is sent again, it gets past seen_nonce
\* once: a swept nonce is one whose request the skew window refuses by then, because an
\* instance reads the clock a minute at most before it remembers the nonce.
THEOREM NeverReplayed == Spec => []NoReplay
<1>1. IInv => NoReplay
  BY DEF IInv, Once, NoReplay
<1> QED
  BY <1>1, Invariant, PTL

\* The bytes of a tenant pass its ceiling by no more than the payloads of all instances but
\* one, though checkQuota reads the total before any upload in flight is counted in it.
THEOREM OvershootIsBounded == Spec => []OvershootBounded
<1>1. IInv => OvershootBounded
  <2> SUFFICES ASSUME IInv PROVE OvershootBounded
    OBVIOUS
  <2>1. TenantBytes \in Nat /\ SumFunctionOnSet(Coming, Executors) \in Nat
    BY BytesTyped DEF IInv
  <2>2. TenantBytes + SumFunctionOnSet(Coming, Executors) <= Ceiling
    BY DEF IInv, Quota, Ceiling
  <2>3. TenantBytes <= Ceiling
    BY <2>1, <2>2, CeilingTyped
  <2> QED
    BY <2>3 DEF OvershootBounded, Ceiling
<1> QED
  BY <1>1, Invariant, PTL

\* Some minutes have a last one.
LEMMA LastOf ==
  ASSUME NEW P \in SUBSET Minutes, P # {}
  PROVE  \E b \in P : \A k \in P : k <= b
<1> DEFINE from(m) == {k \in P : k >= m}
           F == {from(m) : m \in P}
<1>1. IsFiniteSet(P)
  <2>1. IsFiniteSet(Minutes)
    BY FS_Interval, ParameterAssumption DEF Minutes
  <2> QED
    BY <2>1, FS_Subset
<1>2. F \in SUBSET SUBSET P /\ F # {}
  OBVIOUS
<1>3. PICK T \in F : \A U \in F : U \subseteq T => U = T
  <2> HIDE DEF F
  <2> QED
    BY <1>1, <1>2, LeastSet
<1>4. PICK b \in P : T = from(b)
  BY <1>3
<1>5. \A k \in P : k \in Nat
  BY MinutesCount
<1>6. ASSUME NEW k \in P, k > b PROVE FALSE
  <2>1. from(k) \in F /\ from(k) \subseteq T
    BY <1>4, <1>5, <1>6
  <2>2. from(k) = T
    BY <1>3, <2>1
  <2>3. b \in T /\ b \notin from(k)
    BY <1>4, <1>5, <1>6
  <2> QED
    BY <2>2, <2>3
<1>7. \A k \in P : k <= b
  BY <1>5, <1>6
<1> QED
  BY <1>7

\* The uploads of any hour are those of its last bucket and of the hour before it.
LEMMA HourIsCapped ==
  ASSUME IInv, NEW v \in Devices, NEW m \in Minutes
  PROVE  SumFunctionOnSet(admitted[v], InHour(m)) <= MAX_UPLOADS_PER_HOUR_PER_DEVICE + Cardinality(Executors) - 1
<1> DEFINE a == admitted[v]
           S == InHour(m)
           P == {k \in S : a[k] > 0}
<1>1. a \in [Minutes -> Nat] /\ S \in SUBSET Minutes /\ P \in SUBSET S
  BY DEF IInv, TypeOK, InHour
<1>2. IsFiniteSet(Minutes) /\ IsFiniteSet(S)
  <2>1. IsFiniteSet(Minutes)
    BY FS_Interval, ParameterAssumption DEF Minutes
  <2> HIDE DEF S
  <2> QED
    BY <1>1, <2>1, FS_Subset
<1>3. SumFunctionOnSet(a, P) = SumFunctionOnSet(a, S)
  <2>1. \A k \in S \ P : a[k] = 0
    BY <1>1
  <2> HIDE DEF a, S, P
  <2> QED
    BY <1>1, <1>2, <2>1, SumIgnoresZeros
<1>4. MAX_UPLOADS_PER_HOUR_PER_DEVICE \in Nat /\ Cardinality(Executors) \in Nat \ {0}
  BY CeilingTyped, ParameterAssumption
<1>5. CASE P = {}
  <2>1. SumFunctionOnSet(a, S) = 0
    BY <1>3, <1>5, SumEmpty
  <2> QED
    BY <1>4, <2>1
<1>6. CASE P # {}
  <2>1. PICK b \in P : \A k \in P : k <= b
    BY <1>1, <1>6, LastOf
  <2> DEFINE T == Earlier(b) \cup {b}
  <2>2. b \in Minutes /\ b \in Nat /\ a[b] > 0 /\ b <= m /\ m \in Nat
    BY <1>1, <2>1, MinutesCount DEF InHour
  <2>3. /\ Earlier(b) \in SUBSET Minutes /\ IsFiniteSet(Earlier(b)) /\ b \notin Earlier(b)
        /\ SumFunctionOnSet(a, Earlier(b)) \in Nat /\ SumFunctionOnSet(upload_window[v], Earlier(b)) \in Nat
    BY <1>1, <2>2, HourBefore DEF IInv, TypeOK
  <2>4. P \in SUBSET T
    <3> SUFFICES ASSUME NEW k \in P, k # b PROVE k \in Earlier(b)
      OBVIOUS
    <3>1. k \in Minutes /\ k \in Nat /\ k <= b /\ k > m - Window /\ Window \in Nat
      BY <1>1, <2>1, MinutesCount, ParameterAssumption DEF InHour
    <3>2. k < b /\ k > b - Window
      BY <2>2, <3>1
    <3> QED
      BY <3>1, <3>2 DEF Earlier
  <2>5. T \in SUBSET Minutes /\ IsFiniteSet(T) /\ b \in T /\ T \ {b} = Earlier(b)
    BY <2>2, <2>3, FS_AddElement
  <2>6. SumFunctionOnSet(a, P) <= SumFunctionOnSet(a, T)
    <3> HIDE DEF a, P, T
    <3> QED
      BY <1>1, <2>4, <2>5, SumOfPart
  <2>7. SumFunctionOnSet(a, T) = a[b] + SumFunctionOnSet(a, Earlier(b))
    <3> HIDE DEF a, T
    <3> QED
      BY <1>1, <2>5, SumTakes
  <2>8. SumFunctionOnSet(a, Earlier(b)) <= SumFunctionOnSet(upload_window[v], Earlier(b))
    <3>1. ASSUME NEW k \in Minutes PROVE a[k] <= upload_window[v][k] /\ a[k] <= Let(v, k)
      <4>1. Let(v, k) <= upload_window[v][k]
        BY DEF IInv, Capped
      <4>2. LetThrough(v, k) \in SUBSET Executors
        BY DEF LetThrough
      <4>3. Cardinality(LetThrough(v, k)) \in Nat
        BY <4>2, SomeInstances
      <4>4. Let(v, k) = a[k] + Cardinality(LetThrough(v, k)) /\ a[k] \in Nat /\ upload_window[v][k] \in Nat
        BY DEF Let, IInv, TypeOK
      <4> QED
        BY <4>1, <4>3, <4>4
    <3>2. upload_window[v] \in [Minutes -> Nat]
      BY DEF IInv, TypeOK
    <3> HIDE DEF a
    <3> QED
      BY <1>1, <2>3, <3>1, <3>2, SumGrows
  <2>9. a[b] <= Let(v, b) /\ a[b] \in Nat /\ Let(v, b) \in Nat
    <3>1. LetThrough(v, b) \in SUBSET Executors
      BY DEF LetThrough
    <3>2. Cardinality(LetThrough(v, b)) \in Nat /\ a[b] \in Nat
      BY <1>1, <2>2, <3>1, SomeInstances
    <3> QED
      BY <3>2 DEF Let
  <2>10. SumFunctionOnSet(upload_window[v], Earlier(b)) <= Before(v, b) /\ Before(v, b) \in Nat
    <3>1. InFlight(v, b) \in SUBSET Executors
      BY DEF InFlight
    <3>2. Cardinality(InFlight(v, b)) \in Nat
      BY <3>1, SomeInstances
    <3> QED
      BY <2>3, <3>2 DEF Before
  <2>11. Before(v, b) + Let(v, b) <= MAX_UPLOADS_PER_HOUR_PER_DEVICE + Cardinality(Executors) - 1
    <3>1. Let(v, b) > 0
      BY <2>2, <2>9
    <3> QED
      BY <2>2, <3>1 DEF IInv, Capped
  <2> DEFINE hour == SumFunctionOnSet(a, S)
             before == SumFunctionOnSet(a, Earlier(b))
             counted == SumFunctionOnSet(upload_window[v], Earlier(b))
  <2>12. hour <= a[b] + before
    BY <1>3, <2>6, <2>7
  <2>13. SumFunctionOnSet(a, S) \in Nat
    <3> HIDE DEF a, S
    <3> QED
      BY <1>1, <1>2, SumType
  <2>14. before <= counted /\ counted <= Before(v, b) /\ before \in Nat /\ counted \in Nat /\ hour \in Nat
    BY <2>3, <2>8, <2>10, <2>13
  <2> HIDE DEF hour, before, counted, T, P
  <2>15. hour <= MAX_UPLOADS_PER_HOUR_PER_DEVICE + Cardinality(Executors) - 1
    BY <1>4, <2>9, <2>10, <2>11, <2>12, <2>14
  <2> QED
    BY <2>15 DEF hour
<1> QED
  BY <1>5, <1>6

\* In no hour of buckets is a device let through more often than the cap and the instances
\* but one: what the snapshot of a reservation misses was reserved, and not yet written,
\* in an earlier minute, so it is in flight.
THEOREM HourlyCap == Spec => []HourlyCapHolds
<1>1. IInv => HourlyCapHolds
  BY HourIsCapped DEF HourlyCapHolds
<1> QED
  BY <1>1, Invariant, PTL

\* The upsert is a step of the abstract table or leaves it alone.
LEMMA UploadAdvances ==
  ASSUME IInv, [Next]_vars
  PROVE  (\E s \in Slots : Table!Advance(s)) \/ UNCHANGED snapshot
<1>1. ASSUME NEW x \in Executors, storeSnapshot(x) PROVE (\E s \in Slots : Table!Advance(s)) \/ UNCHANGED snapshot
  <2>1. PICK r \in Requests : req[x] = r
    BY <1>1, Serving DEF storeSnapshot, At, Statements
  <2>2. r.slot \in Slots /\ r.ts \in Int /\ snapshot \in [Slots -> Stored \cup {None}] /\ RowOf(r) # None
    <3>1. r.slot \in Slots /\ r.ts \in Minutes
      BY ParameterAssumption DEF Request
    <3>2. snapshot \in [Slots -> Stored \cup {None}]
      BY DEF IInv, TypeOK
    <3> QED
      BY <3>1, <3>2, MinutesCount, RowTyped
  <2>3. snapshot' = [snapshot EXCEPT ![r.slot] = IF Replaces(r, snapshot[r.slot]) THEN RowOf(r) ELSE snapshot[r.slot]]
    BY <1>1, <2>1 DEF storeSnapshot, RowOf
  <2>4. CASE ~Replaces(r, snapshot[r.slot])
    BY <2>2, <2>3, <2>4
  <2>5. CASE snapshot[r.slot] = RowOf(r)
    BY <2>2, <2>3, <2>5
  <2>6. CASE Replaces(r, snapshot[r.slot]) /\ snapshot[r.slot] # RowOf(r)
    <3>1. snapshot[r.slot] # None => snapshot[r.slot].ts < r.ts
      <4> SUFFICES ASSUME snapshot[r.slot] # None PROVE snapshot[r.slot].ts < r.ts
        OBVIOUS
      <4>1. PICK q \in Requests : q.slot = r.slot /\ snapshot[r.slot] = RowOf(q)
        BY <2>2 DEF IInv, Uploaded
      <4>2. snapshot[r.slot].ts = q.ts /\ q.ts \in Int /\ q.ts <= r.ts
        BY <2>6, <4>1, ParameterAssumption DEF RowOf, Replaces, Request, Minutes
      <4>3. q.ts = r.ts => RowOf(q) = RowOf(r)
        BY <4>1, HonestTimestamps DEF RowOf
      <4> QED
        BY <2>2, <2>6, <4>1, <4>2, <4>3
    <3>2. snapshot'[r.slot] = RowOf(r) /\ \A s \in Slots \ {r.slot} : snapshot'[s] = snapshot[s]
      BY <2>2, <2>3, <2>6
    <3>3. RowOf(r).ts = r.ts
      BY DEF RowOf
    <3>4. snapshot[r.slot] # None => snapshot'[r.slot].ts > snapshot[r.slot].ts
      <4>1. snapshot[r.slot] # None => snapshot[r.slot].ts \in Int
        BY <2>2 DEF Stored, Minutes
      <4> QED
        BY <2>2, <3>1, <3>2, <3>3, <4>1
    <3>5. Table!Advance(r.slot)
      BY <2>2, <3>2, <3>4 DEF Table!Advance
    <3> QED
      BY <2>2, <3>5
  <2> QED
    BY <2>4, <2>5, <2>6
<1> QED
  BY <1>1, RowsUntouched

\* The door implements the table the readers rely on: its statements, interleaved at will,
\* leave every row alone or replace one by a row of a later timestamp.
THEOREM DoorImplementsTable == Spec => DoorFillsTable
<1>1. Init => Table!TableInit
  BY DEF Init, Table!TableInit
<1>2. IInv /\ [Next]_vars => [\E k \in Slots : Table!Advance(k)]_snapshot
  BY UploadAdvances
<1>3. Spec => Table!TableInit /\ [][\E k \in Slots : Table!Advance(k)]_snapshot
  BY <1>1, <1>2, Invariant, PTL DEF Spec
<1> QED
  BY <1>3 DEF DoorFillsTable, Table!TableSpec
=============================================================================
