------------------------------ MODULE Eligibility ------------------------------
(***************************************************************************)
(* Who may sit the examination of one course unit.  The sessions and the   *)
(* attendance rows are written by the sync receiver (a closed session,     *)
(* then its rows, one statement each), by the online room, and by the      *)
(* corrections of quality assurance.  The figures every page and the       *)
(* clearance tokens read are a table of their own, rebuilt by              *)
(* refresh_attendance_summary; only the sync receiver calls it, in the     *)
(* background after each upload, and drops its error.                      *)
(*                                                                         *)
(* A rebuild is one READ COMMITTED transaction of two statements.  The     *)
(* DELETE sees the rows of the moment it starts and waits for another      *)
(* rebuild that has deleted them; the INSERT takes its own snapshot, and   *)
(* fails on the primary key when a rebuild that committed in between left  *)
(* rows the DELETE did not see.                                            *)
(***************************************************************************)
EXTENDS Integers, FiniteSets, Sequences

CONSTANTS Examinee,    \* the active students of the course
          Offering,    \* the study sessions of the course (Day, Evening, ...)
          OfferingOf,  \* Examinee to Offering
          MaxSessions, \* bound: sessions of the unit
          MaxUploads,  \* bound: sessions that reach the server by an upload
          MaxRows      \* bound: attendance rows

ASSUME EligibilityAssumption ==
    /\ OfferingOf \in [Examinee -> Offering] /\ IsFiniteSet(Examinee)
    /\ {MaxSessions, MaxUploads, MaxRows} \subseteq Nat

VARIABLES sessions,  \* the sessions table, numbered as they are inserted: offering and status
          present,   \* attendance_logs: <<session, student>>
          packages,  \* how far the upload of each session is
          rebuilds,  \* refreshEligibilityView, named by the session whose upload asked for it
          holder,    \* the rebuild that holds the rows of the summary
          summary,   \* student_attendance_summary
          version    \* rebuilds committed

eligVars == <<sessions, present, packages, rebuilds, holder, summary, version>>

Session == 1 .. MaxSessions
Nobody == 0   \* no rebuild
NoRebuild == [pc |-> "none"]
EligibilityInit ==
    /\ sessions = <<>> /\ present = {} /\ summary = <<>> /\ version = 0 /\ holder = Nobody
    /\ packages = [s \in Session |-> "none"]
    /\ rebuilds = [s \in Session |-> NoRebuild]

IsNew(s) == s = Len(sessions) + 1
WithSession(offering, status) == Append(sessions, [offering |-> offering, status |-> status])

-----------------------------------------------------------------------------
(* The figures *)

ClosedSessions == {s \in DOMAIN sessions : sessions[s].status = "CLOSED"}
AttendedOf(stu) == Cardinality({s \in ClosedSessions : <<s, stu>> \in present})
HeldWhereLogged(stu) == AttendedOf(stu)
\* Every closed session of the unit, whoever came
HeldFor(stu) == Cardinality(ClosedSessions)
\* ROUND(attended / held * 100, 2), in hundredths of a per cent
Percentage(held, attended) == (20000 * attended + held) \div (2 * held)
Figures ==
    [stu \in {x \in Examinee : HeldFor(x) > 0} |->
        [held |-> HeldFor(stu), attended |-> AttendedOf(stu), pct |-> Percentage(HeldFor(stu), AttendedOf(stu))]]

-----------------------------------------------------------------------------
(* What the pages make of them *)

Threshold == 75
StrictlyAbove(row) == row.pct > 100 * Threshold
Reaches(row) == row.pct >= 100 * Threshold
\* ClearanceToken: one token for each
TokenHolders == {stu \in DOMAIN summary : Reaches(summary[stu])}
\* GetEligibility and StudentProgressByReg: int(0.75 * held + 0.999) - attended, in thousandths
UnitDeficit(row) ==
    LET needed == (10 * Threshold * row.held + 999) \div 1000 - row.attended IN
    IF Reaches(row) \/ needed < 0 THEN 0 ELSE needed
\* DQABulkIneligible and OrgAtRisk: those below the threshold, with GREATEST(0, CEIL(0.75 * held) - attended)
BelowThreshold == {stu \in DOMAIN summary : summary[stu].pct < 100 * Threshold}
CeilDeficit(row) ==
    LET needed == -((-Threshold * row.held) \div 100) - row.attended IN IF needed < 0 THEN 0 ELSE needed
\* StudentProgressByReg: units_at_risk, for the one unit
UnitsAtRisk(stu) == IF Reaches(summary[stu]) THEN 0 ELSE 1
\* DQAAllEligibility counts the two sides row by row, VCOverview with a filter each
EligibleCount == Cardinality({stu \in DOMAIN summary : Reaches(summary[stu])})
IneligibleCount == Cardinality({stu \in DOMAIN summary : summary[stu].pct < 100 * Threshold})
\* queryStudentAttendance reads no summary: the sessions of the student's own offering, whatever their status
HeldOnPage(stu) == Cardinality({s \in DOMAIN sessions : sessions[s].offering = OfferingOf[stu]})

-----------------------------------------------------------------------------
(* The sync receiver *)

AddRow(s, stu) == present' = present \cup {<<s, stu>>} /\ Cardinality(present') <= MaxRows

UploadSession(s, offering) ==
    /\ IsNew(s)
    /\ Cardinality({x \in Session : packages[x] # "none"}) < MaxUploads
    /\ sessions' = WithSession(offering, "CLOSED")
    /\ packages' = [packages EXCEPT ![s] = "writing"]
    /\ UNCHANGED <<present, rebuilds, holder, summary, version>>
UploadLog(s, stu) ==
    /\ packages[s] = "writing" /\ <<s, stu>> \notin present
    /\ AddRow(s, stu)
    /\ UNCHANGED <<sessions, packages, rebuilds, holder, summary, version>>
UploadDone(s) ==
    /\ packages[s] = "writing"
    /\ packages' = [packages EXCEPT ![s] = "synced"]
    /\ rebuilds' = [rebuilds EXCEPT ![s] = [pc |-> "due"]]
    /\ UNCHANGED <<sessions, present, holder, summary, version>>

\* The DELETE starts
RebuildStart(r) ==
    /\ rebuilds[r].pc = "due"
    /\ rebuilds' = [rebuilds EXCEPT ![r] = [pc |-> "deleting", saw |-> version]]
    /\ UNCHANGED <<sessions, present, packages, holder, summary, version>>
WaitsForNobody(r) == TRUE
RowsAreFree(r) == holder = Nobody
Clashes(r) == rebuilds[r].saw # version /\ DOMAIN summary # {}
\* The DELETE has its rows and the INSERT runs, or fails on the primary key
RebuildInsert(r) ==
    /\ rebuilds[r].pc = "deleting" /\ RowsAreFree(r)
    /\ IF Clashes(r)
         THEN rebuilds' = [rebuilds EXCEPT ![r] = NoRebuild] /\ UNCHANGED holder
         ELSE rebuilds' = [rebuilds EXCEPT ![r] = [pc |-> "inserted", figures |-> Figures]] /\ holder' = r
    /\ UNCHANGED <<sessions, present, packages, summary, version>>
RebuildCommit(r) ==
    /\ rebuilds[r].pc = "inserted"
    /\ summary' = rebuilds[r].figures /\ version' = version + 1 /\ holder' = Nobody
    /\ rebuilds' = [rebuilds EXCEPT ![r] = NoRebuild]
    /\ UNCHANGED <<sessions, present, packages>>

-----------------------------------------------------------------------------
(* The gateway: none of these rebuilds the summary *)

OpenOnline(s, offering) ==
    /\ IsNew(s)
    /\ sessions' = WithSession(offering, "ACTIVE")
    /\ UNCHANGED <<present, packages, rebuilds, holder, summary, version>>
CheckInOnline(s, stu) ==
    /\ s \in DOMAIN sessions /\ sessions[s].status = "ACTIVE" /\ <<s, stu>> \notin present
    /\ AddRow(s, stu)
    /\ UNCHANGED <<sessions, packages, rebuilds, holder, summary, version>>
CloseOnline(s) ==
    /\ s \in DOMAIN sessions /\ sessions[s].status = "ACTIVE"
    /\ sessions' = [sessions EXCEPT ![s].status = "CLOSED"]
    /\ UNCHANGED <<present, packages, rebuilds, holder, summary, version>>
\* One student of one session, whatever its status; a second row is refused
QAManualCorrection(s, stu) ==
    /\ s \in DOMAIN sessions /\ <<s, stu>> \notin present
    /\ AddRow(s, stu)
    /\ UNCHANGED <<sessions, packages, rebuilds, holder, summary, version>>
\* One row of the sheet, a statement of its own
QAStudentAttendanceImport(s, stu) ==
    /\ s \in DOMAIN sessions
    /\ AddRow(s, stu)
    /\ UNCHANGED <<sessions, packages, rebuilds, holder, summary, version>>

EligibilityNext ==
    \E s \in Session :
        \/ \E o \in Offering : UploadSession(s, o) \/ OpenOnline(s, o)
        \/ \E stu \in Examinee : UploadLog(s, stu) \/ CheckInOnline(s, stu) \/ QAManualCorrection(s, stu)
        \/ \E stu \in Examinee : QAStudentAttendanceImport(s, stu)
        \/ UploadDone(s) \/ CloseOnline(s)
        \/ RebuildStart(s) \/ RebuildInsert(s) \/ RebuildCommit(s)

EligibilitySpec == EligibilityInit /\ [][EligibilityNext]_eligVars

-----------------------------------------------------------------------------
(* Properties *)

\* Absentees are measured by the same classes as everybody else: once the unit has figures every student has
\* a row, all rows of a rebuild count the same number of sessions held, and nobody attended more than were
\* held (the repair of migration 046, over every order of uploads, corrections and rebuilds).
EveryoneIsMeasured ==
    DOMAIN summary # {} =>
        /\ DOMAIN summary = Examinee
        /\ \A a, b \in Examinee : summary[a].held = summary[b].held /\ summary[a].attended <= summary[a].held

\* The decision and the advice agree: a student holds a clearance token exactly when no page lists them as
\* below the threshold, the number of classes they are told they lack is the smallest number that would bring
\* them to 75 % of those held, whether Go or the database worked it out, and both counts add up.
ClearanceIsExact ==
    /\ \A stu \in DOMAIN summary :
          LET row == summary[stu] IN
          /\ stu \in TokenHolders <=> stu \notin BelowThreshold
          /\ stu \in TokenHolders <=> UnitsAtRisk(stu) = 0
          /\ stu \in TokenHolders <=> 4 * row.attended >= 3 * row.held
          /\ UnitDeficit(row) = CeilDeficit(row)
          /\ 4 * (row.attended + UnitDeficit(row)) >= 3 * row.held
          /\ UnitDeficit(row) > 0 => 4 * (row.attended + UnitDeficit(row) - 1) < 3 * row.held
    /\ EligibleCount = Cardinality(TokenHolders) /\ EligibleCount + IneligibleCount = Cardinality(DOMAIN summary)

\* The figures treat everybody alike, and every decision agrees with them.
FiguresAreFair == EveryoneIsMeasured /\ ClearanceIsExact

\* Overlapping rebuilds never put an older picture over a newer one: no student's figures go down (sessions
\* and rows are only added here), although each rebuild reads and writes at different moments.
SummaryNeverGoesBack ==
    [][\A stu \in DOMAIN summary :
          /\ stu \in DOMAIN summary'
          /\ summary'[stu].held >= summary[stu].held /\ summary'[stu].attended >= summary[stu].attended]_eligVars

\* When every upload has been answered and no rebuild is under way, every uploaded session is counted.
UploadReachesEligibility ==
    (\A s \in Session : packages[s] # "writing" /\ rebuilds[s].pc = "none")
        => \A stu \in Examinee : Cardinality({s \in Session : packages[s] = "synced"}) > 0 =>
               /\ stu \in DOMAIN summary
               /\ summary[stu].held >= Cardinality({s \in Session : packages[s] = "synced"})

\* A student is measured only against the sessions of their own study session, the ones the attendance page
\* counts for them.
MeasuredByOwnCohort == \A stu \in DOMAIN summary : summary[stu].held <= HeldOnPage(stu)
=============================================================================
