--------------------------- MODULE MCOnboarding ---------------------------
(***************************************************************************)
(* Instances of Onboarding: two companies, two project names, and in each  *)
(* behaviour a few things that go wrong.                                   *)
(***************************************************************************)
EXTENDS Onboarding, TLC

Nothing == [f \in Faults |-> 0]

\* Failures the wizard says it recovers from; with a quit, with a torn keystore write, with a reset.
MCScenarios ==
  { ("refused" :> 1 @@ "lost" :> 1) @@ Nothing,
    ("refused" :> 2) @@ Nothing,
    ("lost" :> 1 @@ "quit" :> 1) @@ Nothing,
    ("refused" :> 1 @@ "quit" :> 1) @@ Nothing,
    ("torn" :> 1 @@ "lost" :> 1) @@ Nothing,
    ("torn" :> 1 @@ "reset" :> 1 @@ "quit" :> 1) @@ Nothing,
    ("reset" :> 2 @@ "quit" :> 1 @@ "refused" :> 1) @@ Nothing,
    ("lostEnrolment" :> 1 @@ "quit" :> 1) @@ Nothing,
    ("payment" :> 1 @@ "quit" :> 1) @@ Nothing,
    ("keyFails" :> 1 @@ "quit" :> 1) @@ Nothing }
=============================================================================
