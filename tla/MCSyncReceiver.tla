--------------------------- MODULE MCSyncReceiver ---------------------------
(***************************************************************************)
(* Small instances of SyncReceiver for TLC.                                *)
(***************************************************************************)
EXTENDS SyncReceiver, TLC

CONSTANTS u1, u2, u3, h1, h2

Alike == Permutations({u1, u2}) \cup Permutations({h1, h2})

=============================================================================
