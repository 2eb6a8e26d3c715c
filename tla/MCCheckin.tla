----------------------------- MODULE MCCheckin -----------------------------
(***************************************************************************)
(* Small instances of Checkin for TLC.                                     *)
(***************************************************************************)
EXTENDS Checkin, TLC

CONSTANTS s1, s2, s3,   \* students
          x1, x2,       \* sessions
          r1, r2, r3    \* request threads

\* One session; s3 is in the building but not on the roster.
OneRoster == (x1 :> {s1, s2})

\* Two sessions that share a student.
TwoRosters == (x1 :> {s1, s2}) @@ (x2 :> {s2})

ThreadsAlike == Permutations({r1, r2, r3})

=============================================================================
