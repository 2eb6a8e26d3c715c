------------------------------- MODULE Calendar -------------------------------
(***************************************************************************)
(* The academic calendar of one course: its students, its cohorts (course  *)
(* offerings), and the period the institution is in.  An advance moves     *)
(* every active student and every cohort of its scope one semester, in one *)
(* transaction; the period is read before that transaction begins, so      *)
(* advances overlap there.  Its first statement locks the students it      *)
(* moves, and the rest is one step.  A student's semester, year or level   *)
(* may be missing: rosters are imported without them.                      *)
(***************************************************************************)
EXTENDS Integers, FiniteSets

CONSTANTS Student, Cohort, Intake,
          Advance,       \* requests to advance
          Null,          \* a NULL column, no level, no cohort
          MaxYear,       \* students_extended.current_year BETWEEN 1 AND this
          NoCap,         \* the years of a level nobody has given any
          MaxAdvances,   \* bound: advances committed
          MaxChanges     \* bound: changes of an administrator

ASSUME CalendarAssumption ==
    /\ {MaxYear, NoCap, MaxAdvances, MaxChanges} \subseteq Nat /\ MaxYear < NoCap
    /\ Null \notin Nat /\ Null \notin Cohort

VARIABLES roster,     \* students_extended: student to row
          cohorts,    \* course_offerings: cohort to row
          levelYears, \* courses.level_years of the one level, None where the course gives none
          period,     \* tenants.active_academic_year and active_semester
          advances,   \* what each request has read
          advanced,   \* history: advances of the whole institution committed
          entry,      \* history: how a student was last entered, and the advances of them since
          changes

calVars == <<roster, cohorts, levelYears, period, advances, advanced, entry, changes>>

Level == {Null, "level"}
TenantYears == 2   \* tenants.level_years of that level
NoAdvance == [pc |-> "none"]
CalendarInit ==
    /\ roster = <<>> /\ cohorts = <<>> /\ entry = <<>>
    /\ levelYears = Null /\ period = [year |-> 1, sem |-> 1]
    /\ advances = [a \in Advance |-> NoAdvance] /\ advanced = 0 /\ changes = 0

With(f, k, v) == [x \in DOMAIN f \cup {k} |-> IF x = k THEN v ELSE f[x]]
Except(f, gone) == [x \in DOMAIN f \ gone |-> f[x]]
Change == changes < MaxChanges /\ changes' = changes + 1

-----------------------------------------------------------------------------
(* One step along the track *)

\* COALESCE(course level_years, tenant level_years, 99)
Years(level) == IF level = Null THEN NoCap ELSE IF levelYears # Null THEN levelYears ELSE TenantYears
\* LEAST passes over a NULL
Least(a, b) == IF a = Null \/ b < a THEN b ELSE a
Plus1(y) == IF y = Null THEN Null ELSE y + 1
Finishes(row) == row.sem = 2 /\ row.year # Null /\ row.year + 1 > Years(row.level)
NextSem(sem) == IF sem = 2 THEN 1 ELSE 2
YearEachSemester(sem) == TRUE
\* A year begins after semester 2
YearTurns(sem) == sem = 2
\* NULL = 2 is not true, so a row without a semester goes to 2
Advanced(row) ==
    [row EXCEPT !.sem = NextSem(@),
                !.year = IF YearTurns(row.sem) THEN Least(Plus1(@), Years(row.level)) ELSE @,
                !.acad = IF row.sem = 2 /\ @ # Null THEN @ + 1 ELSE @,
                !.status = IF Finishes(row) THEN "GRADUATED" ELSE @]
StaysInSemester(c) == [c EXCEPT !.sem = 2, !.year = IF c.sem = 2 THEN @ + 1 ELSE @]
Shifted(c) == [c EXCEPT !.sem = NextSem(@), !.year = IF c.sem = 2 THEN @ + 1 ELSE @]

\* The students and cohorts of a scope: all, or those of the intakes asked for
Moving(scope) == {s \in DOMAIN roster : roster[s].status = "ACTIVE" /\ roster[s].intake \in scope}
AnyIntake(c, scope) == TRUE
OfIntake(c, scope) == cohorts[c].intake \in scope
CohortsOf(scope) == {c \in DOMAIN cohorts : OfIntake(c, scope)}
Completed(scope) == {c \in CohortsOf(scope) : cohorts[c].sem = 2 /\ cohorts[c].year + 1 > Years(cohorts[c].level)}
\* ON DELETE SET NULL
WithoutCohorts(rows, gone) == [s \in DOMAIN rows |-> [rows[s] EXCEPT !.cohort = IF @ \in gone THEN Null ELSE @]]
RosterAfter(scope) ==
    WithoutCohorts([s \in DOMAIN roster |-> IF s \in Moving(scope) THEN Advanced(roster[s]) ELSE roster[s]], Completed(scope))
CohortsAfter(scope) ==
    [c \in DOMAIN cohorts \ Completed(scope) |-> IF c \in CohortsOf(scope) THEN Shifted(cohorts[c]) ELSE cohorts[c]]
\* The check of the column, and ux_offerings_cohort, at the commit
YearFits(row) == row.year = Null \/ row.year \in 1 .. MaxYear
Distinct(rows) == \A c, d \in DOMAIN rows : rows[c] = rows[d] => c = d
Commits(scope) == (\A s \in Moving(scope) : YearFits(Advanced(roster[s]))) /\ Distinct(CohortsAfter(scope))

\* The whole institution: the pointer is read first
AdvanceBegin(a) ==
    /\ advances[a] = NoAdvance
    /\ advances' = [advances EXCEPT ![a] = [pc |-> "read", period |-> period]]
    /\ UNCHANGED <<roster, cohorts, levelYears, period, advanced, entry, changes>>
\* incAcademicYear: a year not of the form YYYY/YYYY stays
IncAcademicYear(y) == IF y = Null THEN Null ELSE y + 1
NextPeriod(p) == IF p.sem = 2 THEN [year |-> IncAcademicYear(p.year), sem |-> 1] ELSE [p EXCEPT !.sem = 2]
Moved(scope) == [s \in DOMAIN entry |-> IF s \in Moving(scope) THEN [entry[s] EXCEPT !.moves = @ + 1] ELSE entry[s]]
AdvanceAcademicPeriod(a) ==
    /\ advances[a].pc = "read" /\ advanced < MaxAdvances
    /\ advances' = [advances EXCEPT ![a] = NoAdvance]
    /\ \/ /\ Commits(Intake \cup {Null})
          /\ roster' = RosterAfter(Intake \cup {Null}) /\ cohorts' = CohortsAfter(Intake \cup {Null})
          /\ period' = NextPeriod(advances[a].period)
          /\ advanced' = advanced + 1 /\ entry' = Moved(Intake \cup {Null})
       \/ ~Commits(Intake \cup {Null}) /\ UNCHANGED <<roster, cohorts, period, advanced, entry>>
    /\ UNCHANGED <<levelYears, changes>>
AdvanceIntakeStudents(intakes) ==
    /\ Change /\ intakes # {} /\ Commits(intakes)
    /\ roster' = RosterAfter(intakes) /\ cohorts' = CohortsAfter(intakes) /\ entry' = Moved(intakes)
    /\ UNCHANGED <<levelYears, period, advances, advanced>>

\* Every active student is put on the year given; the semester only when it is one
UpdateTenantAcademicPeriod(year, sem) ==
    /\ Change
    /\ period' = [year |-> year, sem |-> IF sem \in {1, 2} THEN sem ELSE period.sem]
    /\ roster' = [s \in DOMAIN roster |-> IF roster[s].status = "ACTIVE" THEN [roster[s] EXCEPT !.acad = year] ELSE roster[s]]
    /\ UNCHANGED <<cohorts, levelYears, advances, advanced, entry>>

-----------------------------------------------------------------------------
(* What an administrator enters *)

Entered(s, row) ==
    /\ YearFits(row)
    /\ roster' = With(roster, s, row)
    /\ entry' = With(entry, s, [year |-> row.year, sem |-> row.sem, moves |-> 0,
                                placed |-> row.cohort # Null /\ row.year = cohorts[row.cohort].year /\ row.sem = cohorts[row.cohort].sem
                                           /\ row.level = cohorts[row.cohort].level /\ row.intake = cohorts[row.cohort].intake])
OrOne(n) == IF n = Null THEN 1 ELSE n
Or(new, old) == IF new = Null THEN old ELSE new
\* offering_id, when it is given, is an offering there is
CohortIsThere(c) == c = Null \/ c \in DOMAIN cohorts
CreateStudent(s, year, sem, level, intake, c) ==
    /\ Change /\ s \notin DOMAIN roster /\ CohortIsThere(c)
    /\ Entered(s, [year |-> OrOne(year), sem |-> OrOne(sem), acad |-> period.year, level |-> level, intake |-> intake,
                   cohort |-> c, status |-> "ACTIVE"])
    /\ UNCHANGED <<cohorts, levelYears, period, advances, advanced>>
UpdateStudent(s, year, sem, intake, status, c) ==
    /\ Change /\ s \in DOMAIN roster /\ CohortIsThere(c)
    /\ Entered(s, [roster[s] EXCEPT !.year = OrOne(year), !.sem = OrOne(sem), !.intake = intake, !.status = status,
                                    !.cohort = Or(c, @)])
    /\ UNCHANGED <<cohorts, levelYears, period, advances, advanced>>
\* A row of the roster file: a blank year or semester is NULL, also over what was known
ImportRow(s, year, sem, level, intake, c) ==
    /\ Change /\ CohortIsThere(c)
    /\ Entered(s, IF s \in DOMAIN roster
                  THEN [roster[s] EXCEPT !.year = year, !.sem = sem, !.level = Or(level, @), !.intake = Or(intake, @),
                                         !.cohort = Or(c, @)]
                  ELSE [year |-> year, sem |-> sem, acad |-> period.year, level |-> level, intake |-> intake, cohort |-> c,
                        status |-> "ACTIVE"])
    /\ UNCHANGED <<cohorts, levelYears, period, advances, advanced>>

\* Its students are no longer known to be with it
Unplaced(c) == [s \in DOMAIN entry |-> IF roster[s].cohort = c THEN [entry[s] EXCEPT !.placed = FALSE] ELSE entry[s]]
SaveCohort(c, row) == Distinct(With(cohorts, c, row)) /\ cohorts' = With(cohorts, c, row)
CreateOffering(c, year, sem, level, intake) ==
    /\ Change /\ c \notin DOMAIN cohorts
    /\ SaveCohort(c, [year |-> year, sem |-> sem, level |-> level, intake |-> intake])
    /\ UNCHANGED <<roster, levelYears, period, advances, advanced, entry>>
UpdateOffering(c, year, sem) ==
    /\ Change /\ c \in DOMAIN cohorts
    /\ SaveCohort(c, [cohorts[c] EXCEPT !.year = year, !.sem = sem])
    /\ entry' = Unplaced(c)
    /\ UNCHANGED <<roster, levelYears, period, advances, advanced>>
DeleteCohort(c) ==
    /\ Change /\ c \in DOMAIN cohorts
    /\ cohorts' = Except(cohorts, {c}) /\ roster' = WithoutCohorts(roster, {c}) /\ entry' = Unplaced(c)
    /\ UNCHANGED <<levelYears, period, advances, advanced>>
\* UpdateCourse: the years of a level are kept between 1 and 10
UpdateCourse(years) ==
    /\ Change /\ levelYears' = (IF years < 1 THEN 1 ELSE IF years > 10 THEN 10 ELSE years)
    /\ UNCHANGED <<roster, cohorts, period, advances, advanced, entry>>

CalendarNext ==
    \/ \E a \in Advance : AdvanceBegin(a) \/ AdvanceAcademicPeriod(a)
    \/ changes < MaxChanges /\
       \/ \E intakes \in SUBSET Intake : AdvanceIntakeStudents(intakes)
       \/ \E sem \in {0, 2} : UpdateTenantAcademicPeriod(1, sem)
       \/ \E years \in {0, 1} : UpdateCourse(years)
       \/ \E c \in Cohort : \/ \E year \in 1 .. 2, sem \in {1, 2}, level \in Level, i \in Intake : CreateOffering(c, year, sem, level, i)
                            \/ UpdateOffering(c, 1, 1) \/ DeleteCohort(c)
       \/ \E s \in Student, year \in {Null, 1, MaxYear}, sem \in {Null, 2}, i \in Intake, c \in Cohort \cup {Null} :
             \/ \E level \in Level : CreateStudent(s, year, sem, level, i, c) \/ ImportRow(s, year, sem, level, i, c)
             \/ \E status \in {"ACTIVE", "GRADUATED"} : UpdateStudent(s, year, sem, i, status, c)

CalendarSpec == CalendarInit /\ [][CalendarNext]_calVars

-----------------------------------------------------------------------------
\* A student entered with a cohort's own year, semester, level and intake is in that cohort's semester for as long as they
\* study, through advances of the institution and of single intakes and changes of the level's years
\* (advanceIntakeStudents: the catalog "stays in lock-step with the students")
InLockStep ==
    \A s \in DOMAIN roster : entry[s].placed /\ roster[s].status = "ACTIVE" =>
        /\ roster[s].cohort \in DOMAIN cohorts
        /\ cohorts[roster[s].cohort].year = roster[s].year /\ cohorts[roster[s].cohort].sem = roster[s].sem

Term(year, sem) == 2 * year + sem
\* A student entered with a year and a semester has studied one semester for every advance of them, none skipped and
\* none repeated, also when the years of the level change on the way (AdvanceAcademicPeriod, advanceIntakeStudents)
OneTermPerAdvance ==
    \A s \in DOMAIN roster : LET e == entry[s] IN
        e.year # Null /\ e.sem # Null /\ roster[s].status = "ACTIVE" =>
            Term(roster[s].year, roster[s].sem) = Term(e.year, e.sem) + e.moves

\* Whatever the scope, shifting the cohorts makes no two of them the same, so the constraint checked at the commit never
\* takes an advance back (036_offering_cohort_deferrable.sql)
ShiftNeverClashes == \A intakes \in SUBSET Intake : Distinct(CohortsAfter(intakes))

\* Students and cohorts move together, one semester at a time, and can always be moved.
CalendarAgrees == InLockStep /\ OneTermPerAdvance /\ ShiftNeverClashes

\* An advance takes a student to the next semester, of the next year after semester 2
NobodySkipsAYear ==
    [][advanced' # advanced => \A s \in DOMAIN roster : roster'[s].year # roster[s].year =>
          roster[s].year # Null /\ roster'[s].year = roster[s].year + 1]_calVars
=============================================================================
