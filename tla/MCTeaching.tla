----------------------------- MODULE MCTeaching -----------------------------
(***************************************************************************)
(* Small instances of what is kept about teaching: the monitors' record,   *)
(* the timetable and the figures the examinations go by.  They share no    *)
(* state here, so a behaviour is one component's, chosen at the start, and *)
(* the run explores the sum of their states, not the product.              *)
(***************************************************************************)
EXTENDS Patrol, Timetable, Eligibility, TLC

CONSTANTS c1, c2, u1, l1, l2, r1

\* The round: a lecture in a room on each of two days, and one of another cohort online
Lecture(unit, dow, start, cohort, online) ==
    [unit |-> unit, dow |-> dow, start |-> start, len |-> 1, cohort |-> cohort, online |-> online]
Lectures == {Lecture("u1", 0, 0, "c1", FALSE), Lecture("u2", 1, 1, "c1", FALSE), Lecture("u1", 1, 1, "c2", TRUE)}

\* A handler with a school, one with an extra school only, and a role that is not bounded
Handlers == {[kind |-> "SCHOOL", home |-> "home", extra |-> {}],
             [kind |-> "SCHOOL", home |-> "", extra |-> {"home"}],
             [kind |-> "ALL", home |-> "", extra |-> {}]}

\* The timetable: two cohorts that may share a class in the one room
Ask(c, h, d, l) == [key |-> <<c, u1, h>>, dur |-> d, room |-> r1, lect |-> l]
Wanted == {Ask(c1, 0, 1, l1), Ask(c1, 0, 1, NoOne), Ask(c1, 0, 2, l1), Ask(c2, 0, 1, l1), Ask(c2, 1, 1, l2)}

OneOffering == [s \in Examinee |-> CHOOSE o \in Offering : TRUE]

-----------------------------------------------------------------------------
VARIABLE focus

teachingVars == <<focus, patrolVars, ttVars, eligVars>>

TeachingInit ==
    /\ focus \in {"patrol", "timetable", "exam"}
    /\ PatrolInit /\ TimetableInit /\ EligibilityInit
    /\ focus # "patrol" => desk = "round"
    /\ focus # "timetable" => side = "grid" /\ coordOf = <<>>

TeachingNext ==
    /\ UNCHANGED focus
    /\ \/ focus = "patrol" /\ PatrolNext /\ UNCHANGED <<ttVars, eligVars>>
       \/ focus = "timetable" /\ TimetableNext /\ UNCHANGED <<patrolVars, eligVars>>
       \/ focus = "exam" /\ EligibilityNext /\ UNCHANGED <<patrolVars, ttVars>>

TeachingSpec == TeachingInit /\ [][TeachingNext]_teachingVars

\* Requests and students stand for each other in different components, so the two
\* permutations serve them all
Interchangeable == Permutations(PReq) \cup Permutations(Coord)

=============================================================================
