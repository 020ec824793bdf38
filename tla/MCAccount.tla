----------------------------- MODULE MCAccount -----------------------------
(***************************************************************************)
(* Two devices that both hold the bootstrap secret and one caller who does *)
(* not; two runs of the setup; two addresses; two sessions.                *)
(***************************************************************************)
EXTENDS Account, TLC

Register(d, secret, wellFormed) ==
  [kind |-> "register", device |-> d, secret |-> secret, wellFormed |-> wellFormed]
Put(d, run) == [kind |-> "putWrappedKey", device |-> d, run |-> run, wellFormed |-> TRUE]
Login(a, run) == [kind |-> "login", address |-> a, run |-> run, wellFormed |-> TRUE]
Behind(kind, t) == [kind |-> kind, token |-> t, device |-> 1]

Garbage(r) == [r EXCEPT !.wellFormed = FALSE]
Prelogin(a) == [kind |-> "prelogin", address |-> a, run |-> 1, wellFormed |-> TRUE]

\* Enrolment: a race, a retry, and requests that must not spend the shot.
Enrolling ==
  {Register(1, TRUE, TRUE), Register(2, TRUE, TRUE), Register(2, FALSE, TRUE), Garbage(Register(1, TRUE, TRUE)),
   Put(1, 1)}

\* Two runs store their keys while someone logs in and the device is revoked.
Storing == {Put(1, 1), Put(1, 2), Garbage(Put(1, 2)), Login("a", 1), Behind("revokeDevice", 1)}

\* One address floods the door, and another one comes with a bad token.
Guessing == {Garbage(Login("a", 1)), Login("b", 2)}

\* The owner's browser asks for its salt and logs in.
Opening == {Prelogin("a"), Login("a", 1)}

\* A session is used, left idle, outlived and logged out beside another one.
Browsing == {Login("a", 1), Login("b", 1), Behind("wrappedKeys", 1), Behind("logout", 1)}

MCRequests == Enrolling \cup Storing \cup Guessing \cup Opening \cup Browsing

Scenario(begin, set, n) == [begin |-> begin, left |-> [r \in MCRequests |-> IF r \in set THEN n ELSE 0]]

MCScenarios ==
  { Scenario("fresh", Enrolling, 1), Scenario("live", Storing, 1),
    [Scenario("live", Guessing, 1) EXCEPT !.left[Garbage(Login("a", 1))] = 3],
    [Scenario("live", Opening, 1) EXCEPT !.left[Prelogin("a")] = 2],
    [Scenario("live", Browsing, 1) EXCEPT !.left[Behind("wrappedKeys", 1)] = 2] }

Interchangeable == Permutations(Executors)

MCInstanceOf == [x \in Executors |-> "i"]
MCPerAddress == [door \in Doors |-> 1]
MCOverall == [door \in Doors |-> 2]
=============================================================================
