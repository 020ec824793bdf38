----------------------------- MODULE TallyLink -----------------------------
(***************************************************************************)
(* TallyTransport: one request at a time to a single-threaded Tally, for   *)
(* every part of the desktop that asks it something.  A caller settles the *)
(* encoding if nobody has yet, then makes its requests one after another.  *)
(*                                                                         *)
(* Requests wait on a promise queue; the one at its head holds the slot,   *)
(* through a pause and a second try if its connection broke.  A socket is  *)
(* answered, refused, broken, or destroyed by one of three timers.         *)
(***************************************************************************)
EXTENDS Integers, Sequences, FiniteSets

CONSTANTS
  Callers,       \* what asks Tally: the cycle, "find Tally", the wizard
  MaxAsks,       \* bound: requests of one job after the probe
  MaxJobs,       \* bound: jobs of a behaviour, those of the cycle apart
  MaxBreaks,     \* bound: connections that break
  MaxChanges     \* bound: times Tally is opened, closed or swapped

ASSUME LinkAssumption == MaxAsks \in Nat /\ MaxJobs \in Nat /\ MaxBreaks \in Nat /\ MaxChanges \in Nat

Encodings == <<"utf16le", "utf8">>
Unknown == "unknown"

\* What a Tally may understand; it takes more than one to run into all of them.
Tallies == {{"utf16le", "utf8"}, {"utf8"}, {"utf16le"}}

VARIABLES
  tally,        \* what is behind the port: "closed", "open", "other" (another program)
  understands,  \* the encodings this Tally understands
  encoding,     \* the encoding cached for the life of the process
  heard,        \* what the Tally that answered well last understands (history)
  queued,       \* the promise queue
  slots,        \* requests holding the slot
  sockets,      \* sockets open to the port
  jobs,         \* caller -> where it is
  asked, breaks, changes

tallyVars == <<tally, understands, changes>>
known == <<encoding, heard>>
linkVars == <<tallyVars, known, queued, slots, sockets, jobs, asked, breaks>>

NoJob == [at |-> "idle", candidate |-> 0, asks |-> 0]

LinkInit ==
  /\ tally \in {"closed", "open"}
  /\ understands \in Tallies
  /\ encoding = Unknown /\ heard = {}
  /\ queued = <<>> /\ slots = {} /\ sockets = 0
  /\ jobs = [c \in Callers |-> NoJob]
  /\ asked = 0 /\ breaks = 0 /\ changes = 0

-----------------------------------------------------------------------------
(* Callers *)

detection(c, i) == [by |-> c, candidate |-> i, try |-> 1, at |-> "queued"]
plain(c) == detection(c, 0)

\* probeCompanies and probeCompanyList: the encoding first, unless it is known.
StartJob(c) ==
  /\ jobs[c].at = "idle"
  /\ IF encoding = Unknown
     THEN /\ queued' = Append(queued, detection(c, 1))
          /\ jobs' = [jobs EXCEPT ![c] = [at |-> "detecting", candidate |-> 1, asks |-> 0]]
     ELSE /\ queued' = Append(queued, plain(c))
          /\ jobs' = [jobs EXCEPT ![c] = [at |-> "asking", candidate |-> 0, asks |-> 0]]
  /\ UNCHANGED <<tallyVars, known, slots, sockets, breaks>>

\* What says nothing about the encoding: Tally is closed, or the port is somebody else's.
Pointless == {"not_running", "not_tally"}

\* The answer reaches the caller: detectEncoding goes on to the next candidate or settles, then
\* the probe is sent; a request that failed ends the job, one that did not may be followed by more.
Answered(r, result) ==
  LET c == r.by
      goesOn == [at |-> "asking", candidate |-> 0, asks |-> jobs[c].asks + 1] IN
  \/ /\ r.candidate > 0
     /\ encoding' = IF result = "ok" THEN Encodings[r.candidate] ELSE encoding
     /\ IF result \notin Pointless \cup {"ok"} /\ r.candidate < Len(Encodings)
        THEN /\ queued' = Append(queued, detection(c, r.candidate + 1))
             /\ jobs' = [jobs EXCEPT ![c].candidate = @ + 1]
        ELSE /\ queued' = Append(queued, plain(c))
             /\ jobs' = [jobs EXCEPT ![c] = [at |-> "asking", candidate |-> 0, asks |-> 0]]
  \/ /\ r.candidate = 0
     /\ UNCHANGED encoding
     /\ \/ /\ jobs' = [jobs EXCEPT ![c] = NoJob]
           /\ UNCHANGED queued
        \/ /\ result = "ok" /\ jobs[c].asks < MaxAsks
           /\ jobs' = [jobs EXCEPT ![c] = goesOn]
           /\ queued' = Append(queued, plain(c))

-----------------------------------------------------------------------------
(* The slot *)

\* A mutant: a request does not wait for the one before.
AtOnce == TRUE

free == slots = {}

\* attempt: the request of the caller whose turn it is opens a socket.
Opens ==
  /\ queued # <<>> /\ free
  /\ slots' = slots \cup {[Head(queued) EXCEPT !.at = "socket"]}
  /\ queued' = Tail(queued)
  /\ sockets' = sockets + 1
  /\ UNCHANGED <<tallyVars, known, jobs, asked, breaks>>

\* A mutant: the probe is encoded once for both candidates.
writtenOnce(r) == IF r.candidate = 0 /\ encoding # Unknown THEN encoding ELSE "utf8"

\* The encoding a request is written in: the candidate's, else the one known by now.
written(r) == CASE r.candidate > 0 -> Encodings[r.candidate]
                [] r.candidate = 0 /\ encoding # Unknown -> encoding
                [] OTHER -> "utf16le"

\* What comes back on a socket that neither breaks nor falls silent: of a Tally that is asked for what it
\* understands anything but "not_tally", of one that is not anything but "ok".
replies(r) ==
  CASE tally = "closed" -> {"not_running"}
    [] tally = "other" -> {"not_tally", "http_status", "no_company_open"}
    [] tally = "open" /\ written(r) \in understands -> {"ok", "no_company_open", "tally_error", "http_status"}
    [] OTHER -> {"no_company_open", "tally_error", "http_status", "not_tally"}

\* done: the promise of the request at the slot resolves, once, and the slot is free.
Done(r, result) ==
  /\ slots' = slots \ {r}
  /\ sockets' = sockets - 1
  /\ Answered(r, result)
  /\ heard' = IF result = "ok" THEN understands ELSE heard
  /\ UNCHANGED <<tallyVars, asked>>

Replies(r) ==
  /\ r.at = "socket"
  /\ \E result \in replies(r) : Done(r, result)
  /\ UNCHANGED breaks

\* A mutant: no timer.
WaitsForever(r) == FALSE

\* The overall, the idle or the connect timer destroys the socket.
Timeout(r) ==
  /\ r.at = "socket"
  /\ Done(r, "timeout")
  /\ UNCHANGED breaks

\* A connection that breaks is tried once more, after RETRY_PAUSE_MS and without giving up the slot, unless
\* the error is of a kind that no second try would mend.
Breaks(r) ==
  /\ r.at = "socket" /\ breaks < MaxBreaks
  /\ breaks' = breaks + 1
  /\ \/ /\ r.try = 1
        /\ slots' = (slots \ {r}) \cup {[r EXCEPT !.at = "pausing"]}
        /\ sockets' = sockets - 1
        /\ UNCHANGED <<tallyVars, asked, known, queued, jobs>>
     \/ Done(r, "network")

Retries(r) ==
  /\ r.at = "pausing"
  /\ slots' = (slots \ {r}) \cup {[r EXCEPT !.at = "socket", !.try = 2]}
  /\ sockets' = sockets + 1
  /\ UNCHANGED <<tallyVars, asked, known, queued, jobs, breaks>>

\* The owner opens or closes Tally, or opens another release of it; another program takes the port.
TallyChanges ==
  /\ changes < MaxChanges
  /\ changes' = changes + 1
  /\ \/ tally' \in {"closed", "other"} \ {tally} /\ UNCHANGED understands
     \/ tally' = "open" /\ understands' \in Tallies /\ <<tally', understands'>> # <<tally, understands>>
  /\ UNCHANGED <<known, queued, slots, sockets, jobs, asked, breaks>>

-----------------------------------------------------------------------------

\* "One request in flight to Tally": counting the socket of a second try, and
\* whoever else is asking meanwhile.
OneSocket == sockets <= 1

\* The encoding kept for the life of the process is one that the Tally which answered well last understands,
\* also when two callers settle it at once, requests fail in between and another Tally is opened meanwhile.  So
\* one that has gone stale shows: from then on no request is answered well.
EncodingUnderstood == encoding # Unknown => encoding \in heard
=============================================================================
