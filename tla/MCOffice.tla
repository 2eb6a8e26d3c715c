------------------------------ MODULE MCOffice ------------------------------
(***************************************************************************)
(* Small instances of the offices' components: the university panel, the   *)
(* end of a semester, the notices, the staff register and the academic     *)
(* calendar.  They share no state here, so a behaviour is one component's, *)
(* chosen at the start, and the run explores the sum of their states, not  *)
(* the product.                                                            *)
(***************************************************************************)
EXTENDS UPanel, Semester, Notices, Employees, Calendar, TLC

CONSTANTS q1, q2, s1, s2, rep, dqa, crs, dpt, y1, y2, n1, n2

\* Notices: two lecturers of a course, their department's QA representative, the director
Roles == (s1 :> "LECTURER") @@ (s2 :> "LECTURER") @@ (rep :> "QA_DEPT_REP") @@ (dqa :> "DQA_DIRECTOR")
Ups == (crs :> dpt) @@ (dpt :> NoPlace)
Posts == (s1 :> crs) @@ (s2 :> crs) @@ (rep :> dpt) @@ (dqa :> NoPlace)

\* The semester: a student of each of two intakes
TwoIntakes == (n1 :> y1) @@ (n2 :> y2)

-----------------------------------------------------------------------------
VARIABLE focus

officeVars == <<focus, upanelVars, semVars, noticeVars, empVars, calVars>>

OfficeInit ==
    /\ focus \in {"panel", "semester", "notices", "staff", "calendar"}
    /\ UPanelInit /\ SemesterInit /\ NoticesInit /\ EmployeesInit /\ CalendarInit
    /\ focus # "panel" => half = "import"

OfficeNext ==
    /\ UNCHANGED focus
    /\ \/ focus = "panel" /\ UPanelNext /\ UNCHANGED <<semVars, noticeVars, empVars, calVars>>
       \/ focus = "semester" /\ SemesterNext /\ UNCHANGED <<upanelVars, noticeVars, empVars, calVars>>
       \/ focus = "notices" /\ NoticesNext /\ UNCHANGED <<upanelVars, semVars, empVars, calVars>>
       \/ focus = "staff" /\ EmployeesNext /\ UNCHANGED <<upanelVars, semVars, noticeVars, calVars>>
       \/ focus = "calendar" /\ CalendarNext /\ UNCHANGED <<upanelVars, semVars, noticeVars, empVars>>

OfficeSpec == OfficeInit /\ [][OfficeNext]_officeVars

\* Requests and intakes, and people and cohorts, stand for each other in different
\* components, so the two permutations serve them all
Interchangeable == Permutations({q1, q2}) \cup Permutations({s1, s2})

=============================================================================
