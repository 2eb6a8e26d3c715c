------------------------------ MODULE Employees ------------------------------
(***************************************************************************)
(* The staff of the support departments: their register, the punches of    *)
(* the check-in tablet and of the university panel, the attendance report  *)
(* over them, the 09:30 no-show list, and the daily sheets of the clocking *)
(* machine.  Files are imported row by row, without a transaction; imports *)
(* overlap and are repeated.  A moment is a day and a tick of it.  Names,  *)
(* contacts and job titles are one detail of a person that may be missing. *)
(***************************************************************************)
EXTENDS Integers, FiniteSets, Sequences

CONSTANTS Staff,      \* staff ids
          Import,     \* requests that import punches
          Dept,       \* departments
          Support,    \* those that are support departments
          None,       \* no department, no detail, no clocking
          Day, Ticks, \* bounds: the days, and the moments of a day
          Deadline,   \* the last tick up to 09:30
          OnDuty,     \* the tick duty begins at
          MaxPunches, \* bound: punches stored
          MaxEdits    \* bound: edits of the register

ASSUME EmployeesAssumption ==
    /\ Support \subseteq Dept /\ None \notin Dept \cup Ticks
    /\ Day \subseteq Nat /\ Ticks \subseteq Nat /\ {Deadline, OnDuty, MaxPunches, MaxEdits} \subseteq Nat

VARIABLES employees, \* employees: staff id to department and detail
          punches,   \* employee_attendance_logs, as inserted
          imports,   \* the row each import is at
          seen,      \* history: the punches imports have written, new or not
          days,      \* employee_attendance_days: <<staff, day>> to the row
          edits      \* saves, edits and deletions of a person, and sheets

empVars == <<employees, punches, imports, seen, days, edits>>

NoImport == [pc |-> "none"]
EmployeesInit ==
    /\ employees = <<>> /\ punches = <<>> /\ seen = {} /\ days = <<>> /\ edits = 0
    /\ imports = [i \in Import |-> NoImport]

Enter(f, k, v) == [x \in DOMAIN f \cup {k} |-> IF x = k THEN v ELSE f[x]]
Leave(f, k) == [x \in DOMAIN f \ {k} |-> f[x]]

-----------------------------------------------------------------------------
(* The register *)

\* requireSupportDepartment
InSupport(d) == d \in Support
\* COALESCE(NULLIF(EXCLUDED.x, ''), employees.x)
Coalesce(old, new) == IF new = None THEN old ELSE new
Merge(s, dept, detail) ==
    IF s \in DOMAIN employees
    THEN [dept |-> Coalesce(employees[s].dept, dept), detail |-> Coalesce(employees[s].detail, detail)]
    ELSE [dept |-> dept, detail |-> detail]
CreateEmployee(s, dept, detail) ==
    /\ edits < MaxEdits /\ edits' = edits + 1 /\ InSupport(dept)
    /\ employees' = Enter(employees, s, Merge(s, dept, detail))
    /\ UNCHANGED <<punches, imports, seen, days>>
\* A row of the roster; one of no support department is skipped
ImportEmployees(s, dept, detail) ==
    /\ edits < MaxEdits /\ edits' = edits + 1
    /\ employees' = IF InSupport(dept) THEN Enter(employees, s, Merge(s, dept, detail)) ELSE employees
    /\ UNCHANGED <<punches, imports, seen, days>>
\* UpdateEmployee: all fields as given, the staff id too
UpdateEmployee(s, to, dept, detail) ==
    /\ edits < MaxEdits /\ edits' = edits + 1 /\ InSupport(dept)
    /\ s \in DOMAIN employees /\ to \notin DOMAIN employees \ {s}
    /\ employees' = Enter(Leave(employees, s), to, [dept |-> dept, detail |-> detail])
    /\ UNCHANGED <<punches, imports, seen, days>>
DeleteEmployee(s) ==
    /\ edits < MaxEdits /\ edits' = edits + 1 /\ s \in DOMAIN employees
    /\ employees' = Leave(employees, s)
    /\ UNCHANGED <<punches, imports, seen, days>>

-----------------------------------------------------------------------------
(* Punches *)

\* normalizeEventType: a label that is not known is PUNCH
EventType == {"IN", "OUT", "PUNCH"}
\* A row of the tablet's file, or an admin record of the panel; one without a readable time is skipped
TakeRow(i, s, d, t, type, detail) ==
    /\ imports[i] = NoImport /\ Len(punches) < MaxPunches
    /\ imports' = [imports EXCEPT ![i] = [pc |-> "punch", row |-> <<s, d, t, type>>]]
    \* the person is registered first, and what is known of them stays
    /\ employees' = Enter(employees, s, IF s \in DOMAIN employees
                                        THEN [employees[s] EXCEPT !.detail = IF @ = None THEN detail ELSE @]
                                        ELSE [dept |-> None, detail |-> detail])
    /\ UNCHANGED <<punches, seen, days, edits>>
ImportEmployeePunches(i, s, d, t, type, detail) == TakeRow(i, s, d, t, type, detail)
\* ingestAdminPunches: the panel's type is normalised the same way
IngestAdminPunches(i, s, d, t, detail) == \E type \in EventType : TakeRow(i, s, d, t, type, detail)
NeverThere(p) == FALSE
\* ON CONFLICT (staff_id, event_time, event_type) DO NOTHING
AlreadyThere(p) == \E k \in 1 .. Len(punches) : punches[k] = p
WritePunch(i) ==
    /\ imports[i] # NoImport
    /\ punches' = IF AlreadyThere(imports[i].row) THEN punches ELSE Append(punches, imports[i].row)
    /\ seen' = seen \cup {imports[i].row}
    /\ imports' = [imports EXCEPT ![i] = NoImport]
    /\ UNCHANGED <<employees, days, edits>>

-----------------------------------------------------------------------------
(* What is reported *)

OnDay(s, d) == {k \in 1 .. Len(punches) : punches[k][1] = s /\ punches[k][2] = d}
TypesOn(s, d) == {punches[k][4] : k \in OnDay(s, d)}
ListEmployees == DOMAIN employees
\* The rows of the report: the register, and whoever has a punch
ReportRows == ListEmployees \cup {punches[k][1] : k \in 1 .. Len(punches)}
\* summarizePunches, over the days of dateRange
PresentOn(s, d) == OnDay(s, d) # {}
WorkedOn(s, d) == {"IN", "OUT"} \subseteq TypesOn(s, d) \/ Cardinality(OnDay(s, d)) >= 2
DateRange(from, to) == {d \in Day : from <= d /\ d <= to}
EmployeeAttendanceReport(s, from, to) ==
    [present |-> Cardinality({d \in DateRange(from, to) : PresentOn(s, d)}),
     worked  |-> Cardinality({d \in DateRange(from, to) : WorkedOn(s, d)})]

EveryPunchInTime(s, d) == PresentOn(s, d) /\ \A k \in OnDay(s, d) : punches[k][3] <= Deadline
CheckedInByDeadline(s, d) == \E k \in OnDay(s, d) : punches[k][3] <= Deadline
\* queryNoShows
NoShows(d) == {s \in ListEmployees : ~CheckedInByDeadline(s, d)}
\* postAbsentees: who has neither address nor number is left out
Notified(d) == {s \in NoShows(d) : employees[s].detail # None}

-----------------------------------------------------------------------------
(* The sheets of the clocking machine *)

LateAtTheHour(t) == t # None /\ t >= OnDuty
\* hhmmMinutes of both, when both can be read
IsLate(t) == t # None /\ t > OnDuty
ImportDay(s, d, t) ==
    /\ edits < MaxEdits /\ edits' = edits + 1
    /\ days' = Enter(days, <<s, d>>, [clockIn |-> t, late |-> IsLate(t), absent |-> t = None])
    /\ UNCHANGED <<employees, punches, imports, seen>>
EmployeeDays(from, to, onlyLate, onlyAbsent) ==
    {x \in DOMAIN days : /\ x[2] \in DateRange(from, to)
                         /\ onlyLate => days[x].late
                         /\ onlyAbsent => days[x].absent}

EmployeesNext ==
    \/ \E s \in Staff, dept \in Dept, detail \in {None, "known"} :
          \/ CreateEmployee(s, dept, detail) \/ ImportEmployees(s, dept, detail)
          \/ \E to \in Staff : UpdateEmployee(s, to, dept, detail)
    \/ \E s \in Staff : DeleteEmployee(s) \/ \E d \in Day, t \in Ticks \cup {None} : ImportDay(s, d, t)
    \/ \E i \in Import : \/ \E s \in Staff, d \in Day, t \in Ticks, type \in EventType, detail \in {None, "known"} :
                                ImportEmployeePunches(i, s, d, t, type, detail)
                         \/ \E s \in Staff, d \in Day, t \in Ticks, detail \in {None, "known"} : IngestAdminPunches(i, s, d, t, detail)
                         \/ WritePunch(i)

EmployeesSpec == EmployeesInit /\ [][EmployeesNext]_empVars

-----------------------------------------------------------------------------
\* However often and however interleaved the files and the panel bring a punch, the report counts it once: the days
\* worked are those of the distinct punches brought (employee_attendance.go: idempotent re-import)
FiguresSurviveReimport ==
    \A s \in Staff, d \in Day :
        LET brought == {p \in seen : p[1] = s /\ p[2] = d} IN
        /\ brought # {} => s \in ReportRows
        /\ EmployeeAttendanceReport(s, d, d).present = (IF brought = {} THEN 0 ELSE 1)
        /\ EmployeeAttendanceReport(s, d, d).worked = (IF Cardinality(brought) < 2 THEN 0 ELSE 1)

\* The late list of a day is who clocked in after duty began, after any number of corrected sheets (ImportEmployeeSheet)
LateListIsRight ==
    \A d \in Day : EmployeeDays(d, d, TRUE, FALSE) = {x \in DOMAIN days : x[2] = d /\ days[x].clockIn \in {t \in Ticks : t > OnDuty}}

\* Nobody is listed as a no-show, or written to, who is known to have punched in by the deadline, and nobody registered
\* who has not is left out, also while an import is between registering a person and storing the punch (queryNoShows)
NoShowsDidNotCome ==
    \A s \in ListEmployees, d \in Day :
        LET came == \E p \in seen : p[1] = s /\ p[2] = d /\ p[3] <= Deadline IN
        /\ s \in NoShows(d) <=> ~came
        /\ s \in Notified(d) => ~came /\ employees[s].detail # None

\* The report, the no-show list and the late list tell what the punches and the sheets told.
ReportIsRight == FiguresSurviveReimport /\ NoShowsDidNotCome /\ LateListIsRight

\* A worked day has a successful in and out, or two punches without a label
WorkedDayHasInAndOut ==
    \A s \in Staff, d \in Day : EmployeeAttendanceReport(s, d, d).worked = 1 =>
        {"IN", "OUT"} \subseteq TypesOn(s, d) \/ Cardinality({k \in OnDay(s, d) : punches[k][4] = "PUNCH"}) >= 2
=============================================================================
