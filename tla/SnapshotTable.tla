--------------------------- MODULE SnapshotTable ---------------------------
(***************************************************************************)
(* What the server's table of snapshots promises to everyone who reads or  *)
(* writes it: a slot once filled stays filled, and each step either leaves *)
(* the table alone or replaces one slot by a snapshot taken later.         *)
(*                                                                         *)
(* SyncCycle takes an upload for one step of this table.  Ingest executes  *)
(* it as a dozen statements of racing instances, and is no less: both are  *)
(* shown to implement it.                                                  *)
(***************************************************************************)
EXTENDS Integers

CONSTANTS Keys, None

VARIABLE table

TableInit == table = [k \in Keys |-> None]

\* Slot k is filled, or its snapshot replaced by one with a later timestamp.
Advance(k) ==
  /\ \A j \in Keys \ {k} : table'[j] = table[j]
  /\ table'[k] # None
  /\ table[k] # None => table'[k].ts > table[k].ts

TableSpec == TableInit /\ [][\E k \in Keys : Advance(k)]_table
=============================================================================
