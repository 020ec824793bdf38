------------------------------- MODULE Ingest -------------------------------
(***************************************************************************)
(* The upload door of the server: handleIngest with verifyRequest and      *)
(* admitDevice inside, against the tables of schema.sql.                   *)
(*                                                                         *)
(* Requests are executed by function instances that run concurrently and   *)
(* may stop at any point.  One action is one SQL statement (each commits   *)
(* by itself) with the code that runs up to the next one.  A request may   *)
(* be delivered more than once and at any time after it was signed; a      *)
(* retry of the Bridge is a new request, with a nonce of its own, for the  *)
(* same snapshot.  Time is counted in the minutes of upload_window.        *)
(***************************************************************************)
EXTENDS Integers, FiniteSets, Functions

CONSTANTS
  Executors,                \* the function instances: at most so many requests at a time
  Devices,
  Slots,                    \* (company, section, as_of) of the tenant
  Requests,                 \* signed uploads
  None,
  MaxMinute,                \* bound on the clock
  MaxDeliveries,            \* bound on the requests that reach the server
  Window,                   \* minutes in RATE_WINDOW_SECONDS
  MAX_CLOCK_SKEW,           \* in minutes
  NONCE_RETENTION,          \* minutes past its expiry that a nonce is kept
  MAX_UPLOADS_PER_HOUR_PER_DEVICE,
  MAX_PAYLOAD_BYTES,
  MAX_TENANT_BYTES

Minutes == 0 .. MaxMinute

Request == [device : Devices, nonce : Nat, stamped : Minutes, slot : Slots,
            content : Nat, ts : Minutes, bytes : Nat, genuine : BOOLEAN, wellFormed : BOOLEAN]

ASSUME ParameterAssumption ==
  /\ IsFiniteSet(Executors) /\ Executors # {} /\ IsFiniteSet(Slots)
  /\ Requests \subseteq Request
  /\ {MaxMinute, MaxDeliveries, MAX_CLOCK_SKEW, MAX_PAYLOAD_BYTES, MAX_TENANT_BYTES} \subseteq Nat
  /\ {Window, NONCE_RETENTION, MAX_UPLOADS_PER_HOUR_PER_DEVICE} \subseteq Nat \ {0}
  /\ None \notin [content : Nat, ts : Minutes, bytes : Nat]

\* Date.now() never repeats within a device's uploads of one slot: a timestamp
\* names a content, and a retry carries both again.
ASSUME HonestTimestamps ==
  \A q, r \in Requests : q.slot = r.slot /\ q.ts = r.ts => q.content = r.content /\ q.bytes = r.bytes

VARIABLES
  minute,          \* now(), for the server's code and for its database
  revoked,         \* device: revoked_at is set
  upload_window,   \* device -> minute -> uploads
  seen_nonce,      \* the rows <<device, nonce, expires_at>>
  snapshot,        \* slot -> [content, ts, bytes] or None
  pc,              \* executor -> the statement it is at
  req,             \* executor -> the request it serves
  started,         \* executor -> the minute it read the clock in verifyRequest
  bucket,          \* executor -> the minute of its reservation's statement
  uploadsInWindow, \* executor -> the count that statement makes, and then returns
  deliveries,      \* requests received so far
  status,          \* executor -> the answer, 0 while there is none
  admitted,        \* device -> minute counted in -> uploads let through (history)
  effects          \* request -> executions that got past its nonce (history)

tableVars == <<revoked, upload_window, seen_nonce, snapshot>>
localVars == <<req, started, uploadsInWindow, bucket>>
historyVars == <<admitted, effects>>
vars == <<minute, tableVars, pc, localVars, status, deliveries, historyVars>>

Statements == {"lookupDevice", "reserveUpload", "bucketLock", "tenantBytesStored", "rememberNonce",
               "latestSnapshot", "storeSnapshot", "touchDevice"}

Init ==
  /\ minute = 0
  /\ revoked = [v \in Devices |-> FALSE]
  /\ upload_window = [v \in Devices |-> [m \in Minutes |-> 0]]
  /\ seen_nonce = {}
  /\ snapshot = [s \in Slots |-> None]
  /\ pc = [x \in Executors |-> "idle"]
  /\ req = [x \in Executors |-> None]
  /\ started = [x \in Executors |-> 0]
  /\ uploadsInWindow = [x \in Executors |-> 0]
  /\ bucket = [x \in Executors |-> 0]
  /\ status = [x \in Executors |-> 0]
  /\ deliveries = 0
  /\ admitted = [v \in Devices |-> [m \in Minutes |-> 0]]
  /\ effects = [r \in Requests |-> 0]

-----------------------------------------------------------------------------
At(x, statement) == pc[x] = statement

Goto(x, statement) ==
  /\ pc' = [pc EXCEPT ![x] = statement]
  /\ UNCHANGED <<status, localVars>>

\* The handler returns, its locals are gone; what an accepted upload was is kept
\* for the properties.
Answer(x, code) ==
  /\ pc' = [pc EXCEPT ![x] = "done"]
  /\ status' = [status EXCEPT ![x] = code]
  /\ req' = IF code = 200 THEN req ELSE [req EXCEPT ![x] = None]
  /\ started' = [started EXCEPT ![x] = 0]
  /\ uploadsInWindow' = [uploadsInWindow EXCEPT ![x] = 0]
  /\ bucket' = [bucket EXCEPT ![x] = 0]

Begin(x, r) ==
  /\ pc' = [pc EXCEPT ![x] = "lookupDevice"]
  /\ status' = [status EXCEPT ![x] = 0]
  /\ started' = [started EXCEPT ![x] = minute]
  /\ UNCHANGED <<uploadsInWindow, bucket>>

\* A signed request reaches an instance: its first delivery, a duplicate, or a
\* copy sent again later.  verifyRequest reads the clock before anything else.
Receive(x, r) ==
  /\ pc[x] \in {"idle", "done"}
  /\ deliveries < MaxDeliveries
  /\ deliveries' = deliveries + 1
  /\ r.stamped <= minute
  /\ \/ r.bytes > MAX_PAYLOAD_BYTES /\ Answer(x, 413)
     \/ r.bytes <= MAX_PAYLOAD_BYTES /\ Begin(x, r) /\ req' = [req EXCEPT ![x] = r]
  /\ UNCHANGED <<minute, tableVars, historyVars>>

Skewed(x) ==
  LET skew == started[x] - req[x].stamped
  IN  skew > MAX_CLOCK_SKEW \/ -skew > MAX_CLOCK_SKEW

lookupDevice(x) ==
  /\ At(x, "lookupDevice")
  /\ \/ revoked[req[x].device] /\ Answer(x, 403)
     \/ ~revoked[req[x].device] /\ (Skewed(x) \/ ~req[x].genuine) /\ Answer(x, 401)
     \/ ~revoked[req[x].device] /\ ~Skewed(x) /\ req[x].genuine /\ Goto(x, "reserveUpload")
  /\ UNCHANGED <<minute, tableVars, deliveries, historyVars>>

\* A mutant: the window tumbles with the clock instead of trailing it.
EarlierTumbling(now) == {m \in Minutes : m < now /\ m \div Window = now \div Window}

\* The buckets of the trailing hour before the current one.
Earlier(now) == {m \in Minutes : m < now /\ m > now - Window}

\* A mutant: nonces are swept as soon as the request they guard was signed.
SweptAtOnce(row, now) == row[3] - MAX_CLOCK_SKEW < now

Swept(row, now) == row[3] < now - NONCE_RETENTION

\* One statement, in two steps.  It fixes now() and sums the earlier buckets from
\* its snapshot, which misses a reservation still in flight across a minute...
reserveUpload(x) ==
  /\ At(x, "reserveUpload")
  /\ pc' = [pc EXCEPT ![x] = "bucketLock"]
  /\ bucket' = [bucket EXCEPT ![x] = minute]
  /\ uploadsInWindow' = [uploadsInWindow EXCEPT ![x] =
                            SumFunctionOnSet(upload_window[req[x].device], Earlier(minute))]
  /\ UNCHANGED <<minute, tableVars, req, started, status, deliveries, historyVars>>

\* ...then adds its own bucket's count, exact because the row is locked, and sweeps.
bucketLock(x) ==
  /\ At(x, "bucketLock")
  /\ pc' = [pc EXCEPT ![x] = "tenantBytesStored"]
  /\ LET v == req[x].device
     IN  /\ upload_window' = [upload_window EXCEPT ![v][bucket[x]] = @ + 1]
         /\ uploadsInWindow' = [uploadsInWindow EXCEPT ![x] = @ + upload_window'[v][bucket[x]]]
         /\ seen_nonce' = {row \in seen_nonce : ~(row[1] = v /\ Swept(row, bucket[x]))}
  /\ UNCHANGED <<minute, revoked, snapshot, req, started, bucket, status, deliveries, historyVars>>

TenantBytes == SumFunctionOnSet([s \in Slots |-> IF snapshot[s] = None THEN 0 ELSE snapshot[s].bytes], Slots)

\* A mutant: the ceiling is a trigger that fires once the tenant is over it.
checkQuotaTrigger(inLastHour, bytes, stored) ==
  CASE inLastHour >= MAX_UPLOADS_PER_HOUR_PER_DEVICE -> 429
    [] stored > MAX_TENANT_BYTES                     -> 507
    [] OTHER                                         -> 0

\* The status of the refusal, 0 for none.
checkQuota(inLastHour, bytes, stored) ==
  CASE inLastHour >= MAX_UPLOADS_PER_HOUR_PER_DEVICE -> 429
    [] stored + bytes > MAX_TENANT_BYTES             -> 507
    [] OTHER                                         -> 0

\* The second statement of admitDevice, and its verdict.
tenantBytesStored(x) ==
  /\ At(x, "tenantBytesStored")
  /\ LET refusal == checkQuota(uploadsInWindow[x] - 1, req[x].bytes, TenantBytes)
     IN  \/ refusal # 0 /\ Answer(x, refusal) /\ UNCHANGED admitted
         \/ /\ refusal = 0
            /\ Goto(x, "rememberNonce")
            /\ admitted' = [admitted EXCEPT ![req[x].device][bucket[x]] = @ + 1]
  /\ UNCHANGED <<minute, tableVars, deliveries, effects>>

NonceOf(r) == <<r.device, r.nonce, r.stamped + MAX_CLOCK_SKEW>>

Seen(r) == \E row \in seen_nonce : row[1] = r.device /\ row[2] = r.nonce

\* INSERT ... ON CONFLICT DO NOTHING; then the body is parsed and checked
\* against the signer, and its timestamp against the ceiling.
rememberNonce(x) ==
  /\ At(x, "rememberNonce")
  /\ \/ Seen(req[x]) /\ Answer(x, 409) /\ UNCHANGED <<seen_nonce, effects>>
     \/ /\ ~Seen(req[x])
        /\ seen_nonce' = seen_nonce \cup {NonceOf(req[x])}
        /\ effects' = [effects EXCEPT ![req[x]] = @ + 1]
        /\ \/ ~req[x].wellFormed /\ Answer(x, 400)
           \/ req[x].wellFormed /\ req[x].ts > minute + MAX_CLOCK_SKEW /\ Answer(x, 400)
           \/ req[x].wellFormed /\ req[x].ts <= minute + MAX_CLOCK_SKEW /\ Goto(x, "latestSnapshot")
  /\ UNCHANGED <<minute, revoked, upload_window, snapshot, deliveries, admitted>>

Stale(r, latest) ==
  /\ latest # None
  /\ r.ts < latest.ts \/ (r.ts = latest.ts /\ r.content # latest.content)

\* The floor is checked against a row read one statement earlier than the write.
latestSnapshot(x) ==
  /\ At(x, "latestSnapshot")
  /\ LET latest == snapshot[req[x].slot]
     IN  \/ Stale(req[x], latest) /\ Answer(x, 409)
         \/ ~Stale(req[x], latest) /\ Goto(x, "storeSnapshot")
  /\ UNCHANGED <<minute, tableVars, deliveries, historyVars>>

\* Mutants of the upsert's WHERE: none at all; a conflict is left alone.
ReplacesAlways(r, stored) == TRUE

ReplacesNothing(r, stored) == stored = None

Replaces(r, stored) == stored # None => stored.ts <= r.ts

storeSnapshot(x) ==
  /\ At(x, "storeSnapshot")
  /\ Goto(x, "touchDevice")
  /\ LET r == req[x]
     IN  snapshot' = [snapshot EXCEPT ![r.slot] =
           IF Replaces(r, @) THEN [content |-> r.content, ts |-> r.ts, bytes |-> r.bytes] ELSE @]
  /\ UNCHANGED <<minute, revoked, upload_window, seen_nonce, deliveries, historyVars>>

touchDevice(x) ==
  /\ At(x, "touchDevice")
  /\ Answer(x, 200)
  /\ UNCHANGED <<minute, tableVars, deliveries, historyVars>>

\* A statement fails, a count cannot be read, the instance is stopped: whatever
\* the earlier statements wrote stays.
Fails(x) ==
  /\ pc[x] \in Statements
  /\ Answer(x, 500)
  /\ UNCHANGED <<minute, tableVars, deliveries, historyVars>>

revokeDevice(v) ==
  /\ ~revoked[v]
  /\ revoked' = [revoked EXCEPT ![v] = TRUE]
  /\ UNCHANGED <<minute, upload_window, seen_nonce, snapshot, pc, localVars, status, deliveries, historyVars>>

\* No instance lives for more than a minute: the platform stops it before.
Tick ==
  /\ minute < MaxMinute
  /\ \A x \in Executors : pc[x] \in Statements => started[x] = minute
  /\ minute' = minute + 1
  /\ UNCHANGED <<tableVars, pc, localVars, status, deliveries, historyVars>>

Step(x) ==
  \/ \E r \in Requests : Receive(x, r)
  \/ lookupDevice(x) \/ reserveUpload(x) \/ bucketLock(x) \/ tenantBytesStored(x) \/ rememberNonce(x)
  \/ latestSnapshot(x) \/ storeSnapshot(x) \/ touchDevice(x) \/ Fails(x)

Next ==
  \/ \E x \in Executors : Step(x)
  \/ \E v \in Devices : revokeDevice(v)
  \/ Tick

Spec == Init /\ [][Next]_vars

-----------------------------------------------------------------------------
Stored == [content : Nat, ts : Minutes, bytes : Nat]

\* Every variable keeps its type, and an instance that is at a statement has a
\* request it serves.
TypeOK ==
  /\ minute \in Minutes
  /\ revoked \in [Devices -> BOOLEAN]
  /\ upload_window \in [Devices -> [Minutes -> Nat]]
  /\ seen_nonce \subseteq Devices \X Nat \X Nat
  /\ snapshot \in [Slots -> Stored \cup {None}]
  /\ pc \in [Executors -> Statements \cup {"idle", "done"}]
  /\ req \in [Executors -> Requests \cup {None}]
  /\ started \in [Executors -> Minutes]
  /\ uploadsInWindow \in [Executors -> Nat]
  /\ bucket \in [Executors -> Minutes]
  /\ status \in [Executors -> {0, 200, 400, 401, 403, 409, 413, 429, 500, 507}]
  /\ deliveries \in Nat
  /\ admitted \in [Devices -> [Minutes -> Nat]]
  /\ effects \in [Requests -> Nat]
  /\ \A x \in Executors : pc[x] \in Statements => req[x] \in Requests

InHour(m) == {k \in Minutes : k <= m /\ k > m - Window}

\* "A bounded undercount, at most the number of requests racing across one
\* boundary, and it cannot compound": over any hour of buckets, and not only over
\* the hours of the clock, a device gets no more than the cap and as many more as
\* can be in flight with the one that is counted last.
HourlyCapHolds ==
  \A v \in Devices, m \in Minutes :
    SumFunctionOnSet(admitted[v], InHour(m))
      <= MAX_UPLOADS_PER_HOUR_PER_DEVICE + Cardinality(Executors) - 1

\* A captured request takes effect once, however often and whenever it is sent
\* again: the skew window and the sweep of seen_nonce leave no gap between them.
NoReplay == \A r \in Requests : effects[r] <= 1

\* The floor is checked on a row read one statement before the write, and still
\* whatever the racing instances do to the rows is a step of the abstract table:
\* no slot is emptied, and none goes back to an older snapshot or to another one
\* of the same timestamp.  SyncCycle's one-step server rests on this.
Table == INSTANCE SnapshotTable WITH Keys <- Slots, table <- snapshot
DoorFillsTable == Table!TableSpec

\* An accepted upload, which the Bridge takes for stored, is stored or was
\* overtaken by a newer one.
AcceptedIsStored ==
  \A x \in Executors : status[x] = 200 =>
    LET stored == snapshot[req[x].slot]
    IN  stored # None /\ stored.ts >= req[x].ts

\* checkQuota reads the total one statement before the upload is counted in it,
\* so "a ceiling, not a trigger" may be passed; but only by as many uploads as are
\* in flight together.
OvershootBounded ==
  TenantBytes <= MAX_TENANT_BYTES + (Cardinality(Executors) - 1) * MAX_PAYLOAD_BYTES
=============================================================================
