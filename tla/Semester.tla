------------------------------ MODULE Semester ------------------------------
(***************************************************************************)
(* The end of a semester: the administrator clears the attendance of       *)
(* chosen intakes while classes of the other intakes go on, and what goes  *)
(* is first put in an archive.  A clear is one transaction of many         *)
(* statements at Postgres' READ COMMITTED: each statement sees what was    *)
(* committed before it began, and what the clear itself did.  Uploads and  *)
(* other clears commit in between.  The password check, file formats and   *)
(* the academic year (a second filter on the same students) are left out.  *)
(***************************************************************************)
EXTENDS FiniteSets

CONSTANTS Clear,     \* requests to clear
          Upload,    \* packages of coordinators' phones
          YearGroup, Learner, Class,
          IntakeOf   \* students_extended.intake_session

ASSUME SemesterAssumption == IntakeOf \in [Learner -> YearGroup]

VARIABLES logs,      \* attendance_logs: <<class, student>>
          classes,   \* sessions
          taught,    \* lecturer_attendance_logs, by session
          uploads,   \* sync_uploads: the class an upload brings; a deleted row is missing
          clears,    \* the transaction of each clear
          archives,  \* semester_archives, by the clear that stored it
          discarded  \* archives an administrator has deleted

semVars == <<logs, classes, taught, uploads, clears, archives, discarded>>

NoClear == [pc |-> "none", students |-> {}, affected |-> {}, kept |-> {}, keptTaught |-> {},
            rows |-> {}, emptied |-> {}, taught |-> {}, late |-> {}]
SemesterInit ==
    /\ logs = {} /\ classes = {} /\ taught = {} /\ uploads = <<>>
    /\ clears = [c \in Clear |-> NoClear] /\ archives = <<>> /\ discarded = {}

-----------------------------------------------------------------------------
(* What a statement sees, and what it waits for *)

OfScope(intakes) == {l \in Learner : IntakeOf[l] \in intakes}
RowsOf(students) == {r \in logs : r[2] \in students}
ClassesOf(rows) == {r[1] : r \in rows}
\* What a transaction that has not committed has deleted
HeldRows(c) == IF clears[c].pc \in {"empty", "lecturers", "sessions", "commit"} THEN clears[c].rows ELSE {}
HeldTaught(c) == IF clears[c].pc \in {"sessions", "commit"} THEN clears[c].taught ELSE {}
HeldClasses(c) == IF clears[c].pc = "commit" THEN clears[c].emptied ELSE {}
LeftFor(c) == logs \ HeldRows(c)
Stands(c, pc) == clears[c].pc = pc
Moves(c, rec) == clears' = [clears EXCEPT ![c] = rec]
readOnly == UNCHANGED <<logs, classes, taught, uploads, archives, discarded>>

-----------------------------------------------------------------------------
(* ClearSemesterData *)

\* A request that names no intake is refused; no student in scope ends it
ClearSemesterData(c, intakes) ==
    /\ Stands(c, "none") /\ intakes # {}
    /\ Moves(c, [NoClear EXCEPT !.pc = IF OfScope(intakes) = {} THEN "done" ELSE "affected",
                                !.students = OfScope(intakes)])
    /\ readOnly
FindAffected(c) ==
    /\ Stands(c, "affected")
    /\ Moves(c, [clears[c] EXCEPT !.pc = "archive", !.affected = ClassesOf(RowsOf(clears[c].students))])
    /\ readOnly

ArchiveAfterDelete(students) == {}
\* attendance.csv: the rows of the students in scope
ArchiveRows(students) == RowsOf(students)
BuildSemesterArchive(c) ==
    /\ Stands(c, "archive")
    /\ Moves(c, [clears[c] EXCEPT !.pc = "archive2", !.kept = ArchiveRows(clears[c].students)])
    /\ readOnly
\* sessions.csv and lecturer_attendance.csv: what those rows touch.  The archive is stored in the transaction
ArchiveTaught(c) ==
    /\ Stands(c, "archive2")
    /\ Moves(c, [clears[c] EXCEPT !.pc = "delete", !.keptTaught = taught \cap ClassesOf(clears[c].kept)])
    /\ readOnly

DeleteLogs(c) ==
    LET rows == RowsOf(clears[c].students) IN
    /\ Stands(c, "delete") /\ \A d \in Clear \ {c} : HeldRows(d) \cap rows = {}
    /\ Moves(c, [clears[c] EXCEPT !.pc = "empty", !.rows = rows])
    /\ readOnly
\* Of the affected sessions those that no intake has a row in any more
EmptiedClasses(c) == clears[c].affected \ ClassesOf(LeftFor(c))
FindEmptied(c) ==
    /\ Stands(c, "empty")
    /\ Moves(c, [clears[c] EXCEPT !.pc = IF EmptiedClasses(c) = {} THEN "commit" ELSE "lecturers",
                                  !.emptied = EmptiedClasses(c)])
    /\ readOnly
DeleteTaught(c) ==
    /\ Stands(c, "lecturers") /\ \A d \in Clear \ {c} : HeldTaught(d) \cap clears[c].emptied = {}
    /\ Moves(c, [clears[c] EXCEPT !.pc = "sessions", !.taught = taught \cap clears[c].emptied])
    /\ readOnly

NoForeignKey(c) == FALSE
\* attendance_logs and lecturer_attendance_logs reference sessions, and do not cascade
StillReferenced(c) ==
    clears[c].emptied \cap (ClassesOf(LeftFor(c)) \cup (taught \ clears[c].taught)) # {}
\* The failed DELETE rolls everything back, the archive too
DeleteSessions(c) ==
    /\ Stands(c, "sessions") /\ \A d \in Clear \ {c} : HeldClasses(d) \cap clears[c].emptied = {}
    /\ Moves(c, IF StillReferenced(c) THEN [NoClear EXCEPT !.pc = "done"] ELSE [clears[c] EXCEPT !.pc = "commit"])
    /\ readOnly
\* Uploads whose sessions all went are forgotten, whatever their state
Forgotten(c) == {u \in DOMAIN uploads : uploads[u] \in clears[c].emptied}
Commit(c) ==
    /\ Stands(c, "commit")
    /\ logs' = logs \ clears[c].rows
    /\ taught' = taught \ clears[c].taught
    /\ classes' = classes \ clears[c].emptied
    /\ uploads' = [u \in DOMAIN uploads \ Forgotten(c) |-> uploads[u]]
    /\ archives' = [d \in DOMAIN archives \cup {c} |->
                       IF d = c THEN [rows |-> clears[c].kept, taught |-> clears[c].keptTaught] ELSE archives[d]]
    /\ Moves(c, [clears[c] EXCEPT !.pc = "done"])
    /\ UNCHANGED discarded

-----------------------------------------------------------------------------
(* The archives' page *)

ListSemesterArchives == DOMAIN archives
DownloadSemesterArchive(a) == archives[a]
DeleteSemesterArchive(a) ==
    /\ a \in DOMAIN archives
    /\ archives' = [d \in DOMAIN archives \ {a} |-> archives[d]]
    /\ discarded' = discarded \cup {a}
    /\ UNCHANGED <<logs, classes, taught, uploads, clears>>

-----------------------------------------------------------------------------
(* What phones send in the meantime *)

InitUpload(u, s) ==
    /\ u \notin DOMAIN uploads /\ uploads' = [x \in DOMAIN uploads \cup {u} |-> IF x = u THEN s ELSE uploads[x]]
    /\ UNCHANGED <<logs, classes, taught, clears, archives, discarded>>
\* CompleteUpload: the session is made if it is missing, then the lecturer's row, then the student's.
\* The insert waits for a transaction that has deleted the session
CompleteUpload(u, l) ==
    /\ u \in DOMAIN uploads /\ \A d \in Clear : uploads[u] \notin HeldClasses(d)
    /\ classes' = classes \cup {uploads[u]} /\ taught' = taught \cup {uploads[u]}
    /\ logs' = logs \cup {<<uploads[u], l>>}
    \* history: rows that a clear's archive has been too early for
    /\ clears' = [c \in Clear |->
          IF clears[c].pc \in {"archive2", "delete", "empty", "lecturers", "sessions", "commit"}
          THEN [clears[c] EXCEPT !.late = @ \cup ({<<uploads[u], l>>} \ clears[c].kept)] ELSE clears[c]]
    /\ UNCHANGED <<uploads, archives, discarded>>

SemesterNext ==
    \/ \E c \in Clear : \/ \E i \in SUBSET YearGroup : ClearSemesterData(c, i)
                        \/ FindAffected(c) \/ BuildSemesterArchive(c) \/ ArchiveTaught(c)
                        \/ DeleteLogs(c) \/ FindEmptied(c) \/ DeleteTaught(c) \/ DeleteSessions(c)
                        \/ Commit(c) \/ DeleteSemesterArchive(c)
    \/ \E u \in Upload : \/ \E s \in Class : InitUpload(u, s)
                         \/ \E l \in Learner : CompleteUpload(u, l)

SemesterSpec == SemesterInit /\ [][SemesterNext]_semVars

-----------------------------------------------------------------------------
Cleared(c) == clears[c].pc = "done" /\ clears[c].students # {}

\* What a finished clear deleted is in its archive, unless an administrator deleted that or the row arrived after
\* the archive had been read; a lecturer's row it deleted is in the archive of some clear unless a row of its
\* class came late (clear_semester.go: archive-first)
OnlyLateRowsAreLost ==
    \A c \in {d \in Clear : Cleared(d)} :
        /\ \/ c \in discarded
           \/ /\ c \in ListSemesterArchives
              /\ clears[c].rows \subseteq DownloadSemesterArchive(c).rows \cup clears[c].late
        /\ clears[c].taught \subseteq UNION {clears[d].keptTaught \cup ClassesOf(clears[d].late) : d \in Clear}

\* A row that is left keeps its session and its lecturer's row, also when it arrives while the session is being
\* swept as empty, and also when it is of an intake that goes on (clear_semester.go: a shared session is preserved)
SharedClassIsKept == \A r \in logs : r[1] \in classes \cap taught

\* A clear loses nothing that was there when it read, and leaves nothing without its class.
ClearIsSafe == OnlyLateRowsAreLost /\ SharedClassIsKept

\* The promise of the header of clear_semester.go: nothing is ever lost
NothingIsLost ==
    \A c \in Clear : Cleared(c) /\ c \in ListSemesterArchives =>
        clears[c].rows \subseteq DownloadSemesterArchive(c).rows
=============================================================================
