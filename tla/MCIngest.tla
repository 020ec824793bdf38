------------------------------ MODULE MCIngest ------------------------------
(***************************************************************************)
(* Two devices of one tenant: an upload and its retry under a new nonce, a *)
(* newer upload of the same slot, two from the other device (the first     *)
(* with a snapshot stamped ahead of the server's clock), and three that    *)
(* are turned away: too large, forged, malformed.                          *)
(***************************************************************************)
EXTENDS Ingest, TLC

\* The sections of the second device are twice the size.
Upload(device, nonce, stamped, slot, content, ts) ==
  [device |-> device, nonce |-> nonce, stamped |-> stamped, slot |-> slot, content |-> content,
   ts |-> ts, bytes |-> device, genuine |-> TRUE, wellFormed |-> TRUE]

MCSlots == {1, 2, 3}
MCDevices == {1, 2}

MCRequests ==
  { Upload(1, 1, 0, 1, 1, 0),
    Upload(1, 2, 1, 1, 1, 0),
    Upload(1, 3, 2, 1, 2, 1),
    Upload(2, 1, 0, 2, 3, 2),
    Upload(2, 2, 2, 3, 4, 2),
    [Upload(1, 4, 3, 2, 5, 3) EXCEPT !.bytes = 3],
    [Upload(1, 5, 3, 3, 6, 3) EXCEPT !.genuine = FALSE],
    [Upload(2, 3, 3, 1, 7, 3) EXCEPT !.wellFormed = FALSE] }

Instances == Permutations(Executors)
=============================================================================
