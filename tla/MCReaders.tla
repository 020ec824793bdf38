----------------------------- MODULE MCReaders -----------------------------
(***************************************************************************)
(* Instances of Readers: the desktop alone, the pairing service alone, and *)
(* two tabs of a browser while computers come and go and the server is     *)
(* restored.                                                               *)
(***************************************************************************)
EXTENDS Readers, TLC

Alike == Permutations(Tabs) \cup Permutations(Slots)

Nothing == [e \in Events |-> 0]

MCScenarios ==
  { ("unlock" :> 4 @@ "lock" :> 1 @@ "cards" :> 1 @@ "keysBack" :> 1) @@ Nothing,
    ("unlock" :> 3 @@ "lock" :> 1 @@ "quit" :> 1 @@ "rewrap" :> 1 @@ "keysBack" :> 1) @@ Nothing,
    ("unlock" :> 3 @@ "reset" :> 1 @@ "rewrap" :> 1 @@ "keysBack" :> 1) @@ Nothing,
    ("unlock" :> 3 @@ "rewrap" :> 2 @@ "keysBack" :> 1 @@ "markDamaged" :> 1) @@ Nothing,
    ("unlock" :> 2 @@ "lock" :> 1 @@ "cards" :> 2 @@ "quit" :> 1 @@ "reset" :> 1) @@ Nothing,
    ("pair" :> 6) @@ Nothing,
    ("pair" :> 3 @@ "submit" :> 2 @@ "load" :> 1 @@ "upload" :> 1 @@ "serverBack" :> 2) @@ Nothing,
    ("pair" :> 4 @@ "submit" :> 2 @@ "load" :> 1 @@ "upload" :> 1) @@ Nothing,
    ("upload" :> 3 @@ "submit" :> 2 @@ "load" :> 2 @@ "serverBack" :> 2) @@ Nothing,
    ("upload" :> 2 @@ "submit" :> 2 @@ "load" :> 2 @@ "serverBack" :> 2 @@ "storageDamaged" :> 1) @@ Nothing,
    ("upload" :> 2 @@ "submit" :> 2 @@ "load" :> 2 @@ "cleared" :> 1 @@ "lock" :> 1 @@ "failure" :> 1) @@ Nothing }
=============================================================================
