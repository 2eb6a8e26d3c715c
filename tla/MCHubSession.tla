---------------------------- MODULE MCHubSession ----------------------------
(***************************************************************************)
(* Small instances of HubSession for TLC: the constants are given in the   *)
(* configurations.                                                         *)
(***************************************************************************)
EXTENDS HubSession, TLC

CONSTANTS s1, s2, c1, c2

ClosersAlike == Permutations({c1, c2})

=============================================================================
