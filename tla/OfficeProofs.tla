---------------------------- MODULE OfficeProofs ----------------------------
(***************************************************************************)
(* Machine-checked proofs about the office's records: the semester clear   *)
(* (Semester), the two inboxes (Notices), the academic calendar            *)
(* (Calendar), the staff register and punches (Employees) and the import   *)
(* of the university panel (UPanel), for any people, classes, cohorts,     *)
(* readers and any bounds.                                                 *)
(*                                                                         *)
(* Semester.  A clear is one transaction of several statements, and        *)
(* uploads and other clears commit between them.  Knows says what it may   *)
(* still rely on before each statement: what it will delete is archived or *)
(* came late, and a class it sweeps as empty is empty.                     *)
(*                                                                         *)
(* Notices.  A notification has a copy for each of its recipients and for  *)
(* nobody else (CopiesInv).                                                *)
(*                                                                         *)
(* Calendar.  A student's row and its cohort's are moved by different      *)
(* handlers.  WithCohort: a student placed in a cohort stands where it     *)
(* stands.  OnTrack: a student is as many terms on as there were advances. *)
(*                                                                         *)
(* Employees.  What is stored is what was brought, each once               *)
(* (PunchesAreKept), and a late mark is that of its clocking.              *)
(*                                                                         *)
(* UPanel.  What a fetch has read is no later than the panel, so every row *)
(* it stores is true of the panel then and later (StoredInv); an import    *)
(* that saw the panel as it is has stored a row of each check-in and       *)
(* absence (SettledInv).  The pages read are a prefix of the collection    *)
(* (PagingInv).                                                            *)
(***************************************************************************)
EXTENDS Semester, Notices, Calendar, Employees, UPanel, FiniteSetTheorems, SequenceTheorems, TLAPS

-----------------------------------------------------------------------------
(* Semester: the inductive invariant *)

Row == Class \X Learner
ArchivedAt == {"archive2", "delete"}
DeletedAt == {"empty", "lecturers", "sessions", "commit"}
AClear ==
    [pc : {"none", "affected", "archive", "archive2", "delete", "empty", "lecturers", "sessions", "commit", "done"},
     students : SUBSET Learner, affected : SUBSET Class, kept : SUBSET Row, keptTaught : SUBSET Class,
     rows : SUBSET Row, emptied : SUBSET Class, taught : SUBSET Class, late : SUBSET Row]

SemTyped ==
    /\ logs \subseteq Row /\ taught \subseteq Class
    /\ uploads \in [DOMAIN uploads -> Class]
    /\ clears \in [Clear -> AClear]

\* The classes whose lecturer's row is with a finished clear, or that a row came late for
Covered == {x \in Class : \E d \in Clear : /\ Cleared(d)
                                          /\ x \in clears[d].keptTaught \cup ClassesOf(clears[d].late)}

\* What a transaction s knows, against the rows L, the lecturers' rows T and the classes covered C: what it
\* deletes is in its archive or came late; a class it looks at has a row that it will archive or is covered; what
\* it sweeps as empty is empty
RowsIn(L, students) == {r \in L : r[2] \in students}
KnowsRows(s, L) ==
    /\ s.pc \notin {"none", "done"} => s.students # {}
    /\ s.pc \in ArchivedAt => RowsIn(L, s.students) \subseteq s.kept \cup s.late
    /\ s.pc \in DeletedAt => s.rows \subseteq s.kept \cup s.late
KnowsClasses(s, L, T, C) ==
    /\ s.pc = "archive" => s.affected \subseteq C \cup ClassesOf(RowsIn(L, s.students))
    /\ s.pc \in ArchivedAt \cup DeletedAt => s.affected \subseteq C \cup ClassesOf(s.kept)
    /\ s.pc = "archive2" => ClassesOf(s.kept) \subseteq C \cup T
    /\ s.pc \in {"delete"} \cup DeletedAt => ClassesOf(s.kept) \subseteq C \cup s.keptTaught
KnowsEmpty(s, L) ==
    /\ s.emptied \subseteq s.affected /\ s.taught \subseteq s.emptied
    /\ s.pc \in {"none", "affected", "archive", "archive2", "delete", "empty"} => s.emptied = {}
    /\ s.pc = "commit" => \A r \in L \ s.rows : r[1] \notin s.emptied
Knows(s, L, T, C) == KnowsRows(s, L) /\ KnowsClasses(s, L, T, C) /\ KnowsEmpty(s, L)

ClearedInv ==
    \A c \in Clear : Cleared(c) =>
        /\ c \in discarded \/ (c \in DOMAIN archives /\ clears[c].rows \subseteq archives[c].rows \cup clears[c].late)
        /\ clears[c].taught \subseteq Covered

SemInv ==
    /\ SemTyped /\ SharedClassIsKept /\ ClearedInv
    /\ \A c \in Clear : Knows(clears[c], logs, taught, Covered)

\* Before the first clear nothing is known and nothing has to be.
LEMMA SemInvInit == SemesterInit => SemInv
  <1>. SUFFICES ASSUME SemesterInit PROVE SemInv  OBVIOUS
  <1>1. NoClear \in AClear /\ NoClear.pc = "none" /\ NoClear.emptied = {} /\ NoClear.taught = {}
    BY DEF NoClear, AClear
  <1>2. \A c \in Clear : clears[c] = NoClear  BY DEF SemesterInit
  <1>3. SemTyped  BY <1>1 DEF SemesterInit, SemTyped
  <1>4. \A L, T, C : Knows(NoClear, L, T, C)
    BY <1>1 DEF Knows, KnowsRows, KnowsClasses, KnowsEmpty, ArchivedAt, DeletedAt
  <1>5. SharedClassIsKept  BY DEF SharedClassIsKept, SemesterInit
  <1>6. ClearedInv  BY <1>1, <1>2 DEF ClearedInv, Cleared
  <1>. QED BY <1>2, <1>3, <1>4, <1>5, <1>6 DEF SemInv

\* A step of one transaction that touches no table, and does not finish a clear.
LEMMA ClearMoves ==
    ASSUME SemInv, NEW c \in Clear, NEW s \in AClear, Moves(c, s), readOnly, ~Cleared(c),
           ~(s.pc = "done" /\ s.students # {}), Knows(s, logs, taught, Covered)
    PROVE  SemInv'
  <1>1. /\ clears' \in [Clear -> AClear] /\ clears'[c] = s /\ \A d \in Clear : d # c => clears'[d] = clears[d]
    BY DEF Moves, SemInv, SemTyped
  <1>2. UNCHANGED <<logs, classes, taught, uploads, archives, discarded>>  BY DEF readOnly
  <1>3. \A d \in Clear : /\ Cleared(d)' <=> Cleared(d)
                         /\ Cleared(d) => clears'[d] = clears[d]
    BY <1>1 DEF Cleared
  <1>4. Covered' = Covered  BY <1>3 DEF Covered
  <1>5. SemTyped' /\ SharedClassIsKept'  BY <1>1, <1>2 DEF SemInv, SemTyped, SharedClassIsKept
  <1>6. ClearedInv'  BY <1>2, <1>3, <1>4 DEF SemInv, ClearedInv
  <1>7. \A d \in Clear : Knows(clears'[d], logs', taught', Covered')
    BY <1>1, <1>2, <1>4 DEF SemInv
  <1>. QED BY <1>5, <1>6, <1>7 DEF SemInv

\* The transaction begins with its students, or ends at once without any.
LEMMA BeginKeeps ==
    ASSUME SemInv, NEW c \in Clear, NEW i, ClearSemesterData(c, i)
    PROVE  SemInv'
  <1>. DEFINE s == [NoClear EXCEPT !.pc = IF OfScope(i) = {} THEN "done" ELSE "affected", !.students = OfScope(i)]
  <1>1. /\ s \in AClear /\ s.students = OfScope(i) /\ s.emptied = {} /\ s.taught = {}
        /\ s.pc = IF OfScope(i) = {} THEN "done" ELSE "affected"
    BY DEF NoClear, AClear, OfScope
  <1>2. Moves(c, s) /\ readOnly /\ clears[c].pc = "none"  BY DEF ClearSemesterData, Stands
  <1>3. ~Cleared(c)  BY <1>2 DEF Cleared
  <1>. HIDE DEF s
  <1>4. Knows(s, logs, taught, Covered)
    BY <1>1 DEF Knows, KnowsRows, KnowsClasses, KnowsEmpty, ArchivedAt, DeletedAt
  <1>5. ~(s.pc = "done" /\ s.students # {})  BY <1>1
  <1>. QED BY <1>1, <1>2, <1>3, <1>4, <1>5, ClearMoves

\* The classes of the students' rows as the statement sees them.
LEMMA FindAffectedKeeps ==
    ASSUME SemInv, NEW c \in Clear, FindAffected(c)
    PROVE  SemInv'
  <1>. DEFINE o == clears[c]  a == ClassesOf(RowsOf(o.students))
              s == [o EXCEPT !.pc = "archive", !.affected = a]
  <1>1. o \in AClear /\ o.pc = "affected" /\ Moves(c, s) /\ readOnly
    BY DEF FindAffected, Stands, SemInv, SemTyped
  <1>2. Knows(o, logs, taught, Covered)  BY DEF SemInv
  <1>3. a \subseteq Class  BY DEF ClassesOf, RowsOf, Row, SemInv, SemTyped
  <1>4. a = ClassesOf(RowsIn(logs, o.students))  BY DEF RowsOf, RowsIn
  <1>. HIDE DEF o, a
  <1>5. /\ s \in AClear /\ s.pc = "archive" /\ s.students = o.students /\ s.affected = a
        /\ s.emptied = o.emptied /\ s.taught = o.taught
    BY <1>1, <1>3 DEF AClear
  <1>6. ~Cleared(c)  BY <1>1 DEF Cleared, o
  <1>. HIDE DEF s
  <1>7. Knows(s, logs, taught, Covered)
    BY <1>1, <1>2, <1>4, <1>5 DEF Knows, KnowsRows, KnowsClasses, KnowsEmpty, ArchivedAt, DeletedAt
  <1>. QED BY <1>1, <1>5, <1>6, <1>7, ClearMoves

\* The archive takes the rows as its own statement sees them.
LEMMA BuildArchiveKeeps ==
    ASSUME SemInv, NEW c \in Clear, BuildSemesterArchive(c)
    PROVE  SemInv'
  <1>. DEFINE o == clears[c]  k == RowsIn(logs, o.students)
              s == [o EXCEPT !.pc = "archive2", !.kept = k]
  <1>0. k = ArchiveRows(o.students)  BY DEF RowsIn, ArchiveRows, RowsOf
  <1>1. o \in AClear /\ o.pc = "archive" /\ Moves(c, s) /\ readOnly
    BY <1>0 DEF BuildSemesterArchive, Stands, SemInv, SemTyped
  <1>2. Knows(o, logs, taught, Covered)  BY DEF SemInv
  <1>3. k \subseteq logs /\ logs \subseteq Row  BY DEF RowsIn, SemInv, SemTyped
  <1>4. ClassesOf(k) \subseteq taught  BY <1>3 DEF ClassesOf, SemInv, SharedClassIsKept
  <1>. HIDE DEF o, k
  <1>5. /\ s \in AClear /\ s.pc = "archive2" /\ s.students = o.students /\ s.affected = o.affected /\ s.kept = k
        /\ s.emptied = o.emptied /\ s.taught = o.taught
    BY <1>1, <1>3 DEF AClear
  <1>6. ~Cleared(c)  BY <1>1 DEF Cleared, o
  <1>. HIDE DEF s
  <1>7. Knows(s, logs, taught, Covered)
    <2>1. k = RowsIn(logs, s.students)  BY <1>5 DEF k
    <2>. QED BY <1>1, <1>2, <1>4, <1>5, <2>1 DEF Knows, KnowsRows, KnowsClasses, KnowsEmpty, ArchivedAt, DeletedAt
  <1>. QED BY <1>1, <1>5, <1>6, <1>7, ClearMoves

\* The lecturers' rows of the archived classes follow in a statement of their own.
LEMMA ArchiveTaughtKeeps ==
    ASSUME SemInv, NEW c \in Clear, ArchiveTaught(c)
    PROVE  SemInv'
  <1>. DEFINE o == clears[c]  k == taught \cap ClassesOf(o.kept)
              s == [o EXCEPT !.pc = "delete", !.keptTaught = k]
  <1>1. o \in AClear /\ o.pc = "archive2" /\ Moves(c, s) /\ readOnly
    BY DEF ArchiveTaught, Stands, SemInv, SemTyped
  <1>2. Knows(o, logs, taught, Covered)  BY DEF SemInv
  <1>3. k \subseteq Class  BY DEF SemInv, SemTyped
  <1>. HIDE DEF o
  <1>4. ClassesOf(o.kept) \subseteq Covered \cup k
    BY <1>1, <1>2 DEF Knows, KnowsClasses
  <1>. HIDE DEF k
  <1>5. /\ s \in AClear /\ s.pc = "delete" /\ s.students = o.students /\ s.affected = o.affected /\ s.kept = o.kept
        /\ s.late = o.late /\ s.keptTaught = k /\ s.emptied = o.emptied /\ s.taught = o.taught
    BY <1>1, <1>3 DEF AClear
  <1>6. ~Cleared(c)  BY <1>1 DEF Cleared, o
  <1>. HIDE DEF s
  <1>7. Knows(s, logs, taught, Covered)
    BY <1>1, <1>2, <1>4, <1>5 DEF Knows, KnowsRows, KnowsClasses, KnowsEmpty, ArchivedAt, DeletedAt
  <1>. QED BY <1>1, <1>5, <1>6, <1>7, ClearMoves

\* What is deleted is what is there now, which may be more than was archived.
LEMMA DeleteLogsKeeps ==
    ASSUME SemInv, NEW c \in Clear, DeleteLogs(c)
    PROVE  SemInv'
  <1>. DEFINE o == clears[c]  k == RowsIn(logs, o.students)
              s == [o EXCEPT !.pc = "empty", !.rows = k]
  <1>0. k = RowsOf(o.students)  BY DEF RowsIn, RowsOf
  <1>1. o \in AClear /\ o.pc = "delete" /\ Moves(c, s) /\ readOnly
    BY <1>0 DEF DeleteLogs, Stands, SemInv, SemTyped
  <1>2. Knows(o, logs, taught, Covered)  BY DEF SemInv
  <1>3. k \subseteq Row  BY DEF RowsIn, SemInv, SemTyped
  <1>. HIDE DEF o
  <1>4. k \subseteq o.kept \cup o.late  BY <1>1, <1>2 DEF Knows, KnowsRows, ArchivedAt
  <1>. HIDE DEF k
  <1>5. /\ s \in AClear /\ s.pc = "empty" /\ s.students = o.students /\ s.affected = o.affected /\ s.kept = o.kept
        /\ s.late = o.late /\ s.keptTaught = o.keptTaught /\ s.rows = k /\ s.emptied = o.emptied /\ s.taught = o.taught
    BY <1>1, <1>3 DEF AClear
  <1>6. ~Cleared(c)  BY <1>1 DEF Cleared, o
  <1>. HIDE DEF s
  <1>7. Knows(s, logs, taught, Covered)
    BY <1>1, <1>2, <1>4, <1>5 DEF Knows, KnowsRows, KnowsClasses, KnowsEmpty, ArchivedAt, DeletedAt
  <1>. QED BY <1>1, <1>5, <1>6, <1>7, ClearMoves

\* The affected classes without a row are about to lose their sessions.
LEMMA FindEmptiedKeeps ==
    ASSUME SemInv, NEW c \in Clear, FindEmptied(c)
    PROVE  SemInv'
  <1>. DEFINE o == clears[c]  e == EmptiedClasses(c)
              s == [o EXCEPT !.pc = IF e = {} THEN "commit" ELSE "lecturers", !.emptied = e]
  <1>1. o \in AClear /\ o.pc = "empty" /\ Moves(c, s) /\ readOnly
    BY DEF FindEmptied, Stands, SemInv, SemTyped
  <1>2. Knows(o, logs, taught, Covered)  BY DEF SemInv
  <1>3. e \subseteq o.affected  BY DEF EmptiedClasses
  <1>. HIDE DEF o, e
  <1>5. /\ s \in AClear /\ s.pc = (IF e = {} THEN "commit" ELSE "lecturers")
        /\ s.students = o.students /\ s.affected = o.affected /\ s.kept = o.kept
        /\ s.late = o.late /\ s.keptTaught = o.keptTaught /\ s.rows = o.rows /\ s.emptied = e /\ s.taught = o.taught
    BY <1>1, <1>3 DEF AClear
  <1>6. ~Cleared(c)  BY <1>1 DEF Cleared, o
  <1>. HIDE DEF s
  <1>7. o.taught = {}  BY <1>1, <1>2 DEF Knows, KnowsEmpty
  <1>8. Knows(s, logs, taught, Covered)
    BY <1>1, <1>2, <1>3, <1>5, <1>7 DEF Knows, KnowsRows, KnowsClasses, KnowsEmpty, ArchivedAt, DeletedAt
  <1>9. ~(s.pc = "done" /\ s.students # {})  BY <1>5
  <1>. QED BY <1>1, <1>5, <1>6, <1>8, <1>9, ClearMoves

\* Their lecturers' rows go first.
LEMMA DeleteTaughtKeeps ==
    ASSUME SemInv, NEW c \in Clear, DeleteTaught(c)
    PROVE  SemInv'
  <1>. DEFINE o == clears[c]  t == taught \cap o.emptied
              s == [o EXCEPT !.pc = "sessions", !.taught = t]
  <1>1. o \in AClear /\ o.pc = "lecturers" /\ Moves(c, s) /\ readOnly
    BY DEF DeleteTaught, Stands, SemInv, SemTyped
  <1>2. Knows(o, logs, taught, Covered)  BY DEF SemInv
  <1>3. t \subseteq o.emptied /\ t \subseteq Class  BY DEF SemInv, SemTyped
  <1>. HIDE DEF o, t
  <1>5. /\ s \in AClear /\ s.pc = "sessions" /\ s.students = o.students /\ s.affected = o.affected /\ s.kept = o.kept
        /\ s.late = o.late /\ s.keptTaught = o.keptTaught /\ s.rows = o.rows /\ s.emptied = o.emptied /\ s.taught = t
    BY <1>1, <1>3 DEF AClear
  <1>6. ~Cleared(c)  BY <1>1 DEF Cleared, o
  <1>. HIDE DEF s
  <1>7. Knows(s, logs, taught, Covered)
    BY <1>1, <1>2, <1>3, <1>5 DEF Knows, KnowsRows, KnowsClasses, KnowsEmpty, ArchivedAt, DeletedAt
  <1>. QED BY <1>1, <1>5, <1>6, <1>7, ClearMoves

\* The sessions go unless a row still refers to one of them, and then everything comes back.
LEMMA DeleteSessionsKeeps ==
    ASSUME SemInv, NEW c \in Clear, DeleteSessions(c)
    PROVE  SemInv'
  <1>. DEFINE o == clears[c]
  <1>1. o \in AClear /\ o.pc = "sessions" /\ readOnly
    BY DEF DeleteSessions, Stands, SemInv, SemTyped
  <1>2. Knows(o, logs, taught, Covered)  BY DEF SemInv
  <1>3. ~Cleared(c)  BY <1>1 DEF Cleared
  <1>4. CASE StillReferenced(c)
    <2>. DEFINE s == [NoClear EXCEPT !.pc = "done"]
    <2>1. s \in AClear /\ s.pc = "done" /\ s.students = {} /\ s.emptied = {} /\ s.taught = {}
      BY DEF NoClear, AClear
    <2>2. Moves(c, s)  BY <1>4 DEF DeleteSessions
    <2>. HIDE DEF s
    <2>3. Knows(s, logs, taught, Covered)
      BY <2>1 DEF Knows, KnowsRows, KnowsClasses, KnowsEmpty, ArchivedAt, DeletedAt
    <2>. QED BY <1>1, <1>3, <2>1, <2>2, <2>3, ClearMoves
  <1>5. CASE ~StillReferenced(c)
    <2>. DEFINE s == [o EXCEPT !.pc = "commit"]
    <2>1. Moves(c, s)  BY <1>5 DEF DeleteSessions
    <2>2. o.emptied \cap ClassesOf(logs \ o.rows) = {}
      BY <1>1, <1>5 DEF StillReferenced, LeftFor, HeldRows
    <2>3. \A r \in logs \ o.rows : r[1] \notin o.emptied  BY <2>2 DEF ClassesOf
    <2>. HIDE DEF o
    <2>4. /\ s \in AClear /\ s.pc = "commit" /\ s.students = o.students /\ s.affected = o.affected /\ s.kept = o.kept
          /\ s.late = o.late /\ s.keptTaught = o.keptTaught /\ s.rows = o.rows /\ s.emptied = o.emptied
          /\ s.taught = o.taught
      BY <1>1 DEF AClear
    <2>. HIDE DEF s
    <2>5. Knows(s, logs, taught, Covered)
      BY <1>1, <1>2, <2>3, <2>4 DEF Knows, KnowsRows, KnowsClasses, KnowsEmpty, ArchivedAt, DeletedAt
    <2>6. ~(s.pc = "done" /\ s.students # {})  BY <2>4
    <2>. QED BY <1>1, <1>3, <2>1, <2>4, <2>5, <2>6, ClearMoves
  <1>. QED BY <1>4, <1>5

\* What a transaction knows stays true when another one commits: rows and lecturers' rows go, and their classes are
\* covered.
LEMMA KnowsAfterCommit ==
    ASSUME NEW s, NEW L, NEW T, NEW C, NEW L2, NEW T2, NEW C2, Knows(s, L, T, C),
           L2 \subseteq L, C \subseteq C2, ClassesOf(L \ L2) \subseteq C2, T \subseteq T2 \cup C2
    PROVE  Knows(s, L2, T2, C2)
  <1>1. RowsIn(L2, s.students) \subseteq RowsIn(L, s.students)  BY DEF RowsIn
  <1>2. ClassesOf(RowsIn(L, s.students)) \subseteq C2 \cup ClassesOf(RowsIn(L2, s.students))
    BY DEF RowsIn, ClassesOf
  <1>3. KnowsRows(s, L2)  BY <1>1 DEF Knows, KnowsRows
  <1>4. KnowsEmpty(s, L2)  BY DEF Knows, KnowsEmpty
  <1>5. KnowsClasses(s, L2, T2, C2)
    <2>1. s.pc = "archive" => s.affected \subseteq C2 \cup ClassesOf(RowsIn(L2, s.students))
      BY <1>2 DEF Knows, KnowsClasses
    <2>2. s.pc \in ArchivedAt \cup DeletedAt => s.affected \subseteq C2 \cup ClassesOf(s.kept)
      BY DEF Knows, KnowsClasses
    <2>3. s.pc = "archive2" => ClassesOf(s.kept) \subseteq C2 \cup T2  BY DEF Knows, KnowsClasses
    <2>4. s.pc \in {"delete"} \cup DeletedAt => ClassesOf(s.kept) \subseteq C2 \cup s.keptTaught
      BY DEF Knows, KnowsClasses
    <2>. QED BY <2>1, <2>2, <2>3, <2>4 DEF KnowsClasses
  <1>. QED BY <1>3, <1>4, <1>5 DEF Knows

\* And when an upload brings a row, noted as late by the transactions whose archive has been read.
LEMMA KnowsAfterUpload ==
    ASSUME NEW s \in AClear, NEW L, NEW T, NEW C, NEW T2, NEW r \in Row, Knows(s, L, T, C), T \subseteq T2,
           s.pc = "commit" => r[1] \notin s.emptied
    PROVE  LET v == IF s.pc \in ArchivedAt \cup DeletedAt THEN [s EXCEPT !.late = @ \cup ({r} \ s.kept)] ELSE s
           IN  v \in AClear /\ Knows(v, L \cup {r}, T2, C)
  <1>. DEFINE v == IF s.pc \in ArchivedAt \cup DeletedAt THEN [s EXCEPT !.late = @ \cup ({r} \ s.kept)] ELSE s
  <1>1. v \in AClear  BY DEF AClear
  <1>2. /\ v.pc = s.pc /\ v.students = s.students /\ v.affected = s.affected /\ v.kept = s.kept
        /\ v.keptTaught = s.keptTaught /\ v.rows = s.rows /\ v.emptied = s.emptied /\ v.taught = s.taught
    BY DEF AClear
  <1>3. s.pc \in ArchivedAt \cup DeletedAt => s.late \subseteq v.late /\ r \in v.kept \cup v.late
    BY <1>2 DEF AClear
  <1>. HIDE DEF v
  <1>4. RowsIn(L \cup {r}, s.students) \subseteq RowsIn(L, s.students) \cup {r}  BY DEF RowsIn
  <1>5. ClassesOf(RowsIn(L, s.students)) \subseteq ClassesOf(RowsIn(L \cup {r}, s.students))
    BY DEF RowsIn, ClassesOf
  <1>6. KnowsRows(v, L \cup {r})  BY <1>2, <1>3, <1>4 DEF Knows, KnowsRows
  <1>7. KnowsClasses(v, L \cup {r}, T2, C)
    <2>1. v.pc = "archive" => v.affected \subseteq C \cup ClassesOf(RowsIn(L \cup {r}, v.students))
      BY <1>2, <1>5 DEF Knows, KnowsClasses
    <2>2. v.pc \in ArchivedAt \cup DeletedAt => v.affected \subseteq C \cup ClassesOf(v.kept)
      BY <1>2 DEF Knows, KnowsClasses
    <2>3. v.pc = "archive2" => ClassesOf(v.kept) \subseteq C \cup T2  BY <1>2 DEF Knows, KnowsClasses
    <2>4. v.pc \in {"delete"} \cup DeletedAt => ClassesOf(v.kept) \subseteq C \cup v.keptTaught
      BY <1>2 DEF Knows, KnowsClasses
    <2>. QED BY <2>1, <2>2, <2>3, <2>4 DEF KnowsClasses
  <1>8. KnowsEmpty(v, L \cup {r})  BY <1>2 DEF Knows, KnowsEmpty
  <1>9. v \in AClear /\ Knows(v, L \cup {r}, T2, C)  BY <1>1, <1>6, <1>7, <1>8 DEF Knows
  <1>. QED BY <1>9 DEF v

\* The commit: rows, lecturers' rows and sessions go at once, and the archive is there.
LEMMA CommitKeeps ==
    ASSUME SemInv, NEW c \in Clear, Commit(c)
    PROVE  SemInv'
  <1>. DEFINE o == clears[c]  s == [o EXCEPT !.pc = "done"]
  <1>1. o \in AClear /\ o.pc = "commit" /\ Moves(c, s)  BY DEF Commit, Stands, SemInv, SemTyped
  <1>2. /\ logs' = logs \ o.rows /\ taught' = taught \ o.taught /\ classes' = classes \ o.emptied
        /\ uploads' = [u \in DOMAIN uploads \ Forgotten(c) |-> uploads[u]] /\ UNCHANGED discarded
        /\ archives' = [d \in DOMAIN archives \cup {c} |->
                          IF d = c THEN [rows |-> o.kept, taught |-> o.keptTaught] ELSE archives[d]]
    BY DEF Commit
  <1>3. Knows(o, logs, taught, Covered)  BY DEF SemInv
  <1>. HIDE DEF o
  <1>4. /\ s \in AClear /\ s.pc = "done" /\ s.students = o.students /\ s.affected = o.affected /\ s.kept = o.kept
        /\ s.late = o.late /\ s.keptTaught = o.keptTaught /\ s.rows = o.rows /\ s.emptied = o.emptied
        /\ s.taught = o.taught
    BY <1>1 DEF AClear
  <1>. HIDE DEF s
  <1>5. /\ clears' \in [Clear -> AClear] /\ clears'[c] = s /\ \A d \in Clear : d # c => clears'[d] = clears[d]
    BY <1>1, <1>4 DEF Moves, SemInv, SemTyped
  <1>6. /\ o.students # {} /\ o.rows \subseteq o.kept \cup o.late
        /\ o.taught \subseteq o.emptied /\ o.emptied \subseteq o.affected
        /\ o.affected \subseteq Covered \cup ClassesOf(o.kept)
        /\ ClassesOf(o.kept) \subseteq Covered \cup o.keptTaught
        /\ \A r \in logs \ o.rows : r[1] \notin o.emptied
    BY <1>1, <1>3 DEF Knows, KnowsRows, KnowsClasses, KnowsEmpty, DeletedAt
  <1>7. /\ Cleared(c)' /\ \A d \in Clear : d # c => (Cleared(d)' <=> Cleared(d))
        /\ ~Cleared(c)
    BY <1>1, <1>4, <1>5, <1>6 DEF Cleared, o
  <1>8. Covered \subseteq Covered' /\ o.keptTaught \cup ClassesOf(o.late) \subseteq Covered'
    <2>1. \A d \in Clear : Cleared(d) => Cleared(d)' /\ clears'[d] = clears[d]  BY <1>5, <1>7
    <2>2. Covered \subseteq Covered'  BY <2>1 DEF Covered
    <2>3. o.keptTaught \subseteq Class /\ ClassesOf(o.late) \subseteq Class
      BY <1>1 DEF AClear, ClassesOf, Row
    <2>4. clears'[c].keptTaught = o.keptTaught /\ clears'[c].late = o.late  BY <1>4, <1>5
    <2>5. o.keptTaught \cup ClassesOf(o.late) \subseteq Covered'  BY <1>7, <2>3, <2>4 DEF Covered
    <2>. QED BY <2>2, <2>5
  <1>9. ClassesOf(o.rows) \subseteq Covered' /\ o.taught \subseteq Covered'
    <2>1. ClassesOf(o.rows) \subseteq ClassesOf(o.kept) \cup ClassesOf(o.late)  BY <1>6 DEF ClassesOf
    <2>. QED BY <1>6, <1>8, <2>1
  <1>10. ClassesOf(logs \ logs') \subseteq Covered' /\ taught \subseteq taught' \cup Covered' /\ logs' \subseteq logs
    <2>1. ClassesOf(logs \ logs') \subseteq ClassesOf(o.rows)  BY <1>2 DEF ClassesOf
    <2>. QED BY <1>2, <1>9, <2>1
  <1>11. SemTyped'
    <2>1. uploads' \in [DOMAIN uploads' -> Class]  BY <1>2 DEF SemInv, SemTyped
    <2>. QED BY <1>2, <1>5, <2>1 DEF SemInv, SemTyped
  <1>12. SharedClassIsKept'  BY <1>2, <1>6 DEF SemInv, SharedClassIsKept
  <1>13. \A d \in Clear : Knows(clears'[d], logs', taught', Covered')
    <2>1. \A L, T, C : Knows(s, L, T, C)
      BY <1>4, <1>6 DEF Knows, KnowsRows, KnowsClasses, KnowsEmpty, ArchivedAt, DeletedAt
    <2>2. ASSUME NEW d \in Clear, d # c PROVE Knows(clears'[d], logs', taught', Covered')
      <3>. DEFINE z == clears[d]  L2 == logs'  T2 == taught'  C2 == Covered'
      <3>1. Knows(z, logs, taught, Covered)  BY DEF SemInv
      <3>2. L2 \subseteq logs /\ Covered \subseteq C2 /\ ClassesOf(logs \ L2) \subseteq C2 /\ taught \subseteq T2 \cup C2
        BY <1>8, <1>10
      <3>3. clears'[d] = z  BY <1>5, <2>2
      <3>. HIDE DEF z, L2, T2, C2
      <3>4. Knows(z, L2, T2, C2)  BY <3>1, <3>2, KnowsAfterCommit
      <3>. QED BY <3>3, <3>4 DEF L2, T2, C2
    <2>. QED BY <1>5, <2>1, <2>2
  <1>14. ClearedInv'
    <2>1. ASSUME NEW d \in Clear, Cleared(d)'
          PROVE  /\ d \in discarded' \/ (d \in DOMAIN archives' /\ clears'[d].rows \subseteq archives'[d].rows \cup clears'[d].late)
                 /\ clears'[d].taught \subseteq Covered'
      <3>1. CASE d = c
        <4>1. c \in DOMAIN archives' /\ archives'[c].rows = o.kept  BY <1>2
        <4>2. clears'[c].rows = o.rows /\ clears'[c].late = o.late /\ clears'[c].taught = o.taught  BY <1>4, <1>5
        <4>. QED BY <1>6, <1>9, <3>1, <4>1, <4>2
      <3>2. CASE d # c
        <4>1. Cleared(d) /\ clears'[d] = clears[d]  BY <1>5, <1>7, <2>1, <3>2
        <4>2. /\ d \in discarded \/ (d \in DOMAIN archives /\ clears[d].rows \subseteq archives[d].rows \cup clears[d].late)
              /\ clears[d].taught \subseteq Covered
          BY <4>1 DEF SemInv, ClearedInv
        <4>3. d \in DOMAIN archives => d \in DOMAIN archives' /\ archives'[d] = archives[d]  BY <1>2, <3>2
        <4>. QED BY <1>2, <1>8, <4>1, <4>2, <4>3
      <3>. QED BY <3>1, <3>2
    <2>. QED BY <2>1 DEF ClearedInv
  <1>. QED BY <1>11, <1>12, <1>13, <1>14 DEF SemInv

\* An upload's row arrives with its lecturer's row, and too late for the archives already read.
LEMMA UploadKeeps ==
    ASSUME SemInv, NEW u, NEW l \in Learner, CompleteUpload(u, l)
    PROVE  SemInv'
  <1>. DEFINE x == uploads[u]  r == <<x, l>>
              After(s) == IF s.pc \in ArchivedAt \cup DeletedAt THEN [s EXCEPT !.late = @ \cup ({r} \ s.kept)] ELSE s
  <1>1. x \in Class /\ r \in Row /\ r[1] = x  BY DEF CompleteUpload, SemInv, SemTyped, Row
  <1>2. /\ classes' = classes \cup {x} /\ taught' = taught \cup {x} /\ logs' = logs \cup {r}
        /\ UNCHANGED <<uploads, archives, discarded>>
        /\ \A d \in Clear : x \notin HeldClasses(d)
    BY DEF CompleteUpload
  <1>3. clears' = [c \in Clear |-> After(clears[c])]
    BY DEF CompleteUpload, ArchivedAt, DeletedAt
  <1>4. \A d \in Clear : clears'[d] = After(clears[d])  BY <1>3
  <1>. HIDE DEF x, r
  <1>5. ASSUME NEW d \in Clear
        PROVE  clears'[d] \in AClear /\ Knows(clears'[d], logs', taught', Covered)
    <2>1. clears[d] \in AClear /\ Knows(clears[d], logs, taught, Covered)  BY DEF SemInv, SemTyped
    <2>2. clears[d].pc = "commit" => r[1] \notin clears[d].emptied  BY <1>1, <1>2 DEF HeldClasses
    <2>. DEFINE z == clears[d]  T2 == taught'  C == Covered  L == logs  T == taught
    <2>3. z \in AClear /\ Knows(z, L, T, C) /\ T \subseteq T2 /\ (z.pc = "commit" => r[1] \notin z.emptied)
      BY <1>2, <2>1, <2>2
    <2>. HIDE DEF z, T2, C, L, T
    <2>4. After(z) \in AClear /\ Knows(After(z), L \cup {r}, T2, C)  BY <1>1, <2>3, KnowsAfterUpload
    <2>5. clears'[d] = After(z)  BY <1>4 DEF z
    <2>. HIDE DEF After
    <2>. QED BY <1>2, <2>4, <2>5 DEF L, T2, C
  <1>6. \A d \in Clear : (Cleared(d)' <=> Cleared(d)) /\ (Cleared(d) => clears'[d] = clears[d])
    <2>. SUFFICES ASSUME NEW d \in Clear PROVE (Cleared(d)' <=> Cleared(d)) /\ (Cleared(d) => clears'[d] = clears[d])
      OBVIOUS
    <2>1. clears[d] \in AClear  BY DEF SemInv, SemTyped
    <2>2. After(clears[d]).pc = clears[d].pc /\ After(clears[d]).students = clears[d].students  BY <2>1 DEF AClear
    <2>3. clears[d].pc = "done" => After(clears[d]) = clears[d]  BY DEF ArchivedAt, DeletedAt
    <2>. HIDE DEF After
    <2>. QED BY <1>4, <2>2, <2>3 DEF Cleared
  <1>7. Covered' = Covered  BY <1>6 DEF Covered
  <1>8. SemTyped'
    <2>1. clears' \in [Clear -> AClear]
      <3>. HIDE DEF After
      <3>. QED BY <1>3, <1>5
    <2>. QED BY <1>1, <1>2, <2>1 DEF SemInv, SemTyped
  <1>9. SharedClassIsKept'  BY <1>1, <1>2 DEF SemInv, SharedClassIsKept
  <1>10. ClearedInv'  BY <1>2, <1>6, <1>7 DEF SemInv, ClearedInv
  <1>. QED BY <1>5, <1>7, <1>8, <1>9, <1>10 DEF SemInv

\* A new upload, a deleted archive, and nothing.
LEMMA ElsewhereKeeps ==
    ASSUME SemInv,
           \/ \E u \in Upload, k \in Class : InitUpload(u, k)
           \/ \E a \in Clear : DeleteSemesterArchive(a)
           \/ UNCHANGED semVars
    PROVE  SemInv'
  <1>1. UNCHANGED <<logs, classes, taught, clears>>  BY DEF InitUpload, DeleteSemesterArchive, semVars
  <1>2. uploads' \in [DOMAIN uploads' -> Class]
    <2>1. ASSUME NEW u \in Upload, NEW k \in Class, InitUpload(u, k) PROVE uploads' \in [DOMAIN uploads' -> Class]
      <3>1. uploads' = [y \in DOMAIN uploads \cup {u} |-> IF y = u THEN k ELSE uploads[y]]  BY <2>1 DEF InitUpload
      <3>2. uploads \in [DOMAIN uploads -> Class]  BY DEF SemInv, SemTyped
      <3>. QED BY <3>1, <3>2
    <2>2. CASE UNCHANGED uploads  BY <2>2 DEF SemInv, SemTyped
    <2>. QED BY <2>1, <2>2 DEF DeleteSemesterArchive, semVars
  <1>3. \A d \in Clear : d \in discarded' \/
          (/\ d \in discarded => d \in discarded'
           /\ d \in DOMAIN archives => d \in DOMAIN archives' /\ archives'[d] = archives[d])
    <2>1. ASSUME NEW a \in Clear, DeleteSemesterArchive(a)
          PROVE  /\ discarded' = discarded \cup {a}
                 /\ \A d \in DOMAIN archives : d # a => d \in DOMAIN archives' /\ archives'[d] = archives[d]
      BY <2>1 DEF DeleteSemesterArchive
    <2>2. CASE UNCHANGED <<archives, discarded>>  BY <2>2
    <2>3. CASE \E a \in Clear : DeleteSemesterArchive(a)  BY <2>1, <2>3
    <2>. QED BY <2>2, <2>3 DEF InitUpload, semVars
  <1>4. Covered' = Covered /\ \A d : Cleared(d)' <=> Cleared(d)  BY <1>1 DEF Covered, Cleared
  <1>5. ClearedInv'  BY <1>1, <1>3, <1>4 DEF SemInv, ClearedInv
  <1>. QED BY <1>1, <1>2, <1>4, <1>5 DEF SemInv, SemTyped, SharedClassIsKept

\* The invariant holds of every run.
LEMMA SemInvHolds == SemesterSpec => []SemInv
  <1>1. SemInv /\ [SemesterNext]_semVars => SemInv'
    BY BeginKeeps, FindAffectedKeeps, BuildArchiveKeeps, ArchiveTaughtKeeps, DeleteLogsKeeps, FindEmptiedKeeps,
       DeleteTaughtKeeps, DeleteSessionsKeeps, CommitKeeps, UploadKeeps, ElsewhereKeeps
    DEF SemesterNext
  <1>. QED BY <1>1, SemInvInit, PTL DEF SemesterSpec

\* For any clears, uploads, intakes, students and classes at READ COMMITTED: what a finished clear deleted is in its
\* archive or came after the archive was read, a lecturer's row that went is in the archive of some clear or a row of
\* its class came late, and every row that is left has its session and its lecturer's row (clear_semester.go).
THEOREM ClearIsSafeAlways == SemesterSpec => []ClearIsSafe
  <1>1. SemInv => ClearIsSafe
    <2>. SUFFICES ASSUME SemInv PROVE OnlyLateRowsAreLost  BY DEF ClearIsSafe, SemInv
    <2>1. Covered \subseteq UNION {clears[d].keptTaught \cup ClassesOf(clears[d].late) : d \in Clear}
      BY DEF Covered
    <2>. QED BY <2>1 DEF OnlyLateRowsAreLost, SemInv, ClearedInv, ListSemesterArchives, DownloadSemesterArchive
  <1>. QED BY <1>1, SemInvHolds, PTL

-----------------------------------------------------------------------------
(* Notices: the inductive invariant *)

ReadState == [read : BOOLEAN, gone : BOOLEAN]

NoticesTyped ==
    /\ at \in [Person -> Place \cup {NoPlace}]
    /\ messages \in Seq([from : Person, to : SUBSET (Place \cup {"ALL_QA", "DQA"})])
    /\ sending \in [Person -> [busy : BOOLEAN, to : SUBSET Person]]
    /\ notes \in Seq([from : Person, to : SUBSET Person])
    /\ copies \in [DOMAIN copies -> ReadState]
    /\ reads \in [DOMAIN reads -> ReadState]

\* Whom a request has resolved is somebody, and not who sends
ResolvedInv == \A s \in Person : sending[s].busy => sending[s].to # {} /\ s \notin sending[s].to

\* A copy for each recipient of each notification that was sent, and for nobody else
CopiesInv ==
    /\ \A n, p : <<n, p>> \in DOMAIN copies <=> n \in 1 .. Len(notes) /\ p \in notes[n].to
    /\ \A n \in 1 .. Len(notes) : notes[n].to # {} /\ notes[n].from \notin notes[n].to

NoticesInv == NoticesTyped /\ ResolvedInv /\ CopiesInv

\* At the start there is nothing to read and nobody sending.
LEMMA NoticesInvInit == NoticesInit => NoticesInv
  <1>. SUFFICES ASSUME NoticesInit PROVE NoticesInv  OBVIOUS
  <1>1. DOMAIN copies = {} /\ DOMAIN reads = {} /\ Len(notes) = 0  BY DEF NoticesInit
  <1>2. sending \in [Person -> [busy : BOOLEAN, to : SUBSET Person]]  BY DEF NoticesInit, NotSending
  <1>3. copies \in [DOMAIN copies -> ReadState] /\ reads \in [DOMAIN reads -> ReadState]
    BY DEF NoticesInit
  <1>4. /\ notes \in Seq([from : Person, to : SUBSET Person])
        /\ messages \in Seq([from : Person, to : SUBSET (Place \cup {"ALL_QA", "DQA"})])
        /\ at \in [Person -> Place \cup {NoPlace}]
    BY NoticesAssumption DEF NoticesInit
  <1>5. ResolvedInv  BY DEF ResolvedInv, NoticesInit, NotSending
  <1>6. CopiesInv  BY <1>1 DEF CopiesInv
  <1>. QED BY <1>2, <1>3, <1>4, <1>5, <1>6 DEF NoticesInv, NoticesTyped

\* A request resolves its recipients, never to nobody and never to its sender.
LEMMA SendNoticesKeeps ==
    ASSUME NoticesInv, NEW s \in Person, NEW role, NEW target, NEW unit,
           SendAppNotification(s, role, target, unit)
    PROVE  NoticesInv'
  <1>. DEFINE rs == ResolveRecipients(s, role, target) \ {s}
  <1>1. rs \subseteq Person /\ s \notin rs  BY DEF ResolveRecipients
  <1>2. rs # {} /\ sending' = [sending EXCEPT ![s] = [busy |-> TRUE, to |-> rs]]
    BY DEF SendAppNotification, SomeoneToSendTo
  <1>3. UNCHANGED <<at, messages, copies, notes, reads>>  BY DEF SendAppNotification
  <1>. HIDE DEF rs
  <1>4. /\ sending' \in [Person -> [busy : BOOLEAN, to : SUBSET Person]]
        /\ sending'[s].to = rs /\ \A t \in Person : t # s => sending'[t] = sending[t]
    BY <1>1, <1>2 DEF NoticesInv, NoticesTyped
  <1>5. ResolvedInv'  BY <1>1, <1>2, <1>4 DEF NoticesInv, ResolvedInv
  <1>. QED BY <1>3, <1>4, <1>5 DEF NoticesInv, NoticesTyped, CopiesInv

\* The notification and its copies are written in one transaction.
LEMMA CommitNoticesKeeps ==
    ASSUME NoticesInv, NEW s \in Person, CommitNotification(s)
    PROVE  /\ NoticesInv'
           /\ \A x \in DOMAIN copies : x \in DOMAIN copies' /\ copies'[x] = copies[x]
  <1>. DEFINE n == Len(notes) + 1  to == sending[s].to  new == {<<n, p>> : p \in to}
              note == [from |-> s, to |-> to]
  <1>1. notes' = Append(notes, note) /\ UNCHANGED <<at, messages, reads>>  BY DEF CommitNotification
  <1>2. copies' = [x \in DOMAIN copies \cup new |-> IF x \in new THEN Fresh ELSE copies[x]]
    BY DEF CommitNotification
  <1>3. to \subseteq Person /\ to # {} /\ s \notin to
    BY DEF CommitNotification, NoticesInv, NoticesTyped, ResolvedInv
  <1>4. Len(notes) \in Nat /\ n \in Nat /\ notes \in Seq([from : Person, to : SUBSET Person])
    BY DEF NoticesInv, NoticesTyped
  <1>5. note \in [from : Person, to : SUBSET Person]  BY <1>3
  <1>. HIDE DEF note
  <1>6. /\ notes' \in Seq([from : Person, to : SUBSET Person]) /\ Len(notes') = n /\ notes'[n] = note
        /\ \A m \in 1 .. Len(notes) : notes'[m] = notes[m]
    BY <1>1, <1>4, <1>5
  <1>7. note.from = s /\ note.to = to  BY DEF note
  <1>8. Fresh \in ReadState  BY DEF Fresh, ReadState
  <1>9. /\ DOMAIN copies' = DOMAIN copies \cup new
        /\ copies' \in [DOMAIN copies' -> ReadState]
    BY <1>2, <1>8 DEF NoticesInv, NoticesTyped
  <1>10. \A m, p : <<m, p>> \in new <=> m = n /\ p \in to  OBVIOUS
  <1>11. \A m, p : <<m, p>> \in DOMAIN copies <=> m \in 1 .. Len(notes) /\ p \in notes[m].to
    BY DEF NoticesInv, CopiesInv
  <1>12. ASSUME NEW x \in DOMAIN copies PROVE x \in DOMAIN copies' /\ copies'[x] = copies[x]
    <2>1. x \notin new
      <3>1. ASSUME NEW p \in to, x = <<n, p>> PROVE FALSE
        <4>1. n \in 1 .. Len(notes)  BY <1>11, <3>1, <1>12
        <4>. QED BY <1>4, <4>1
      <3>. QED BY <3>1
    <2>. QED BY <1>2, <2>1
  <1>. HIDE DEF new
  <1>13. CopiesInv'
    <2>1. \A m : m \in 1 .. Len(notes') <=> m \in 1 .. Len(notes) \/ m = n  BY <1>4, <1>6
    <2>2. n \notin 1 .. Len(notes)  BY <1>4
    <2>. HIDE DEF n
    <2>3. \A m, p : <<m, p>> \in DOMAIN copies' <=> m \in 1 .. Len(notes') /\ p \in notes'[m].to
      BY <1>6, <1>7, <1>9, <1>10, <1>11, <2>1, <2>2
    <2>4. \A m \in 1 .. Len(notes') : notes'[m].to # {} /\ notes'[m].from \notin notes'[m].to
      BY <1>3, <1>6, <1>7, <2>1 DEF NoticesInv, CopiesInv
    <2>. QED BY <2>3, <2>4 DEF CopiesInv
  <1>14. sending' = [sending EXCEPT ![s] = NotSending]  BY DEF CommitNotification
  <1>15. /\ sending' \in [Person -> [busy : BOOLEAN, to : SUBSET Person]]
         /\ ResolvedInv'
    BY <1>14 DEF NoticesInv, NoticesTyped, ResolvedInv, NotSending
  <1>16. NoticesTyped'  BY <1>1, <1>6, <1>9, <1>15 DEF NoticesInv, NoticesTyped
  <1>. QED BY <1>12, <1>13, <1>15, <1>16 DEF NoticesInv

\* Reading and dismissing a notification changes states only: read stays read, gone stays gone.
LEMMA CopyTouched ==
    ASSUME NoticesInv, NEW p \in Person, NEW n \in 1 .. Len(notes),
           MarkAppNotificationRead(n, p) \/ DismissAppNotification(n, p)
    PROVE  /\ NoticesInv' /\ DOMAIN copies' = DOMAIN copies
           /\ \A x \in DOMAIN copies : copies[x].gone => copies'[x].gone
  <1>. DEFINE c == <<n, p>>
  <1>0. c \in DOMAIN copies  BY DEF MarkAppNotificationRead, DismissAppNotification, CopiesOf
  <1>1. UNCHANGED <<at, messages, sending, notes, reads>>  BY DEF MarkAppNotificationRead, DismissAppNotification
  <1>2. copies \in [DOMAIN copies -> ReadState] /\ copies[c] \in ReadState
    BY <1>0 DEF NoticesInv, NoticesTyped
  <1>3. /\ DOMAIN copies' = DOMAIN copies /\ copies' \in [DOMAIN copies -> ReadState]
        /\ \A x \in DOMAIN copies : copies[x].gone => copies'[x].gone
    <2>1. CASE MarkAppNotificationRead(n, p)
      <3>. DEFINE v == [copies[c] EXCEPT !.read = TRUE]
      <3>1. v \in ReadState /\ v.gone = copies[c].gone  BY <1>2 DEF ReadState
      <3>2. copies' = [copies EXCEPT ![c] = v]  BY <2>1 DEF MarkAppNotificationRead
      <3>. HIDE DEF v, c
      <3>. QED BY <1>0, <1>2, <3>1, <3>2
    <2>2. CASE DismissAppNotification(n, p)
      <3>1. copies' = [x \in DOMAIN copies |-> IF x = c THEN [copies[x] EXCEPT !.gone = TRUE] ELSE copies[x]]
        BY <2>2 DEF DismissAppNotification, OwnCopy
      <3>2. \A x \in DOMAIN copies : [copies[x] EXCEPT !.gone = TRUE] \in ReadState
        BY <1>2 DEF ReadState
      <3>3. \A x \in DOMAIN copies : [copies[x] EXCEPT !.gone = TRUE].gone
        BY <1>2 DEF ReadState
      <3>. HIDE DEF c
      <3>4. \A x \in DOMAIN copies : copies'[x] = IF x = c THEN [copies[x] EXCEPT !.gone = TRUE] ELSE copies[x]
        BY <3>1
      <3>5. \A x \in DOMAIN copies : copies'[x] \in ReadState  BY <1>2, <3>2, <3>4
      <3>6. \A x \in DOMAIN copies : copies[x].gone => copies'[x].gone  BY <3>3, <3>4
      <3>. QED BY <3>1, <3>5, <3>6
    <2>. QED BY <2>1, <2>2
  <1>. QED BY <1>1, <1>3 DEF NoticesInv, NoticesTyped, ResolvedInv, CopiesInv

\* The state a message is in for a person is a state.
LEMMA StateIsState ==
    ASSUME NoticesInv, NEW m, NEW p PROVE StateOf(m, p) \in ReadState
  BY DEF StateOf, Fresh, ReadState, NoticesInv, NoticesTyped

\* Reading and dismissing a message: what was gone for somebody is gone.
LEMMA MessageTouched ==
    ASSUME NoticesInv, NEW p \in Person, NEW m \in 1 .. Len(messages),
           MarkQAMessageRead(m, p) \/ DismissQAMessage(m, p)
    PROVE  /\ NoticesInv'
           /\ \A k, q : StateOf(k, q).gone => StateOf(k, q)'.gone
  <1>1. UNCHANGED <<at, messages, sending, notes, copies>>  BY DEF MarkQAMessageRead, DismissQAMessage
  <1>2. PICK v \in ReadState : PutRead(m, p, v) /\ (StateOf(m, p).gone => v.gone)
    <2>1. CASE MarkQAMessageRead(m, p)
      <3>1. /\ [StateOf(m, p) EXCEPT !.read = TRUE] \in ReadState
            /\ [StateOf(m, p) EXCEPT !.read = TRUE].gone = StateOf(m, p).gone
        BY StateIsState DEF ReadState
      <3>. QED BY <2>1, <3>1 DEF MarkQAMessageRead, ReadRow
    <2>2. CASE DismissQAMessage(m, p)
      <3>1. [read |-> TRUE, gone |-> TRUE] \in ReadState /\ [read |-> TRUE, gone |-> TRUE].gone
        BY DEF ReadState
      <3>. QED BY <2>2, <3>1 DEF DismissQAMessage
    <2>. QED BY <2>1, <2>2
  <1>. DEFINE c == <<m, p>>
  <1>3. reads' = [x \in DOMAIN reads \cup {c} |-> IF x = c THEN v ELSE reads[x]]  BY <1>2 DEF PutRead
  <1>4. reads \in [DOMAIN reads -> ReadState]  BY DEF NoticesInv, NoticesTyped
  <1>5. NoticesInv'
    <2>. HIDE DEF c
    <2>1. DOMAIN reads' = DOMAIN reads \cup {c} /\ reads' \in [DOMAIN reads' -> ReadState]  BY <1>3, <1>4
    <2>. QED BY <1>1, <2>1 DEF NoticesInv, NoticesTyped, ResolvedInv, CopiesInv
  <1>6. ASSUME NEW k, NEW q, StateOf(k, q).gone PROVE StateOf(k, q)'.gone
    <2>1. CASE <<k, q>> = c
      <3>1. k = m /\ q = p  BY <2>1
      <3>2. StateOf(k, q)' = v  BY <1>3, <2>1 DEF StateOf
      <3>. QED BY <1>2, <1>6, <3>1, <3>2
    <2>2. CASE <<k, q>> # c
      <3>1. <<k, q>> \in DOMAIN reads  BY <1>6 DEF StateOf, Fresh
      <3>. DEFINE d == <<k, q>>
      <3>. HIDE DEF c, d
      <3>2. reads'[d] = reads[d] /\ d \in DOMAIN reads'  BY <1>3, <2>2, <3>1 DEF d
      <3>. QED BY <1>6, <3>1, <3>2 DEF StateOf, d
    <2>. QED BY <2>1, <2>2
  <1>. QED BY <1>5, <1>6

\* What leaves copies and read states alone.
LEMMA RestKeeps ==
    ASSUME NoticesInv,
           \/ \E s \in Person : \E to \in {{"ALL_QA"}, {"DQA"}} \cup SUBSET QAAudiences : SendQAMessage(s, to)
           \/ \E p \in Mover : Move(p)
           \/ UNCHANGED noticeVars
    PROVE  NoticesInv' /\ UNCHANGED <<copies, reads>>
  <1>1. UNCHANGED <<sending, copies, notes, reads>>  BY DEF SendQAMessage, Move, noticeVars
  <1>. DEFINE Message == [from : Person, to : SUBSET (Place \cup {"ALL_QA", "DQA"})]
  <1>2. at \in [Person -> Place \cup {NoPlace}] /\ messages \in Seq(Message)  BY DEF NoticesInv, NoticesTyped
  <1>3. messages' \in Seq(Message)
    <2>1. ASSUME NEW s \in Person, NEW to \in {{"ALL_QA"}, {"DQA"}} \cup SUBSET QAAudiences, SendQAMessage(s, to)
          PROVE  messages' \in Seq(Message)
      <3>1. QAAudiences \subseteq Place  BY <1>2 DEF QAAudiences
      <3>2. [from |-> s, to |-> to] \in Message  BY <3>1
      <3>. DEFINE m == [from |-> s, to |-> to]
      <3>3. messages' = Append(messages, m)  BY <2>1 DEF SendQAMessage
      <3>. HIDE DEF Message, m
      <3>. QED BY <1>2, <3>2, <3>3 DEF m
    <2>2. CASE UNCHANGED messages  BY <1>2, <2>2
    <2>. QED BY <2>1, <2>2 DEF Move, noticeVars
  <1>4. at' \in [Person -> Place \cup {NoPlace}]
    <2>1. UNCHANGED at \/ \E p \in Mover : \E x \in Place \cup {NoPlace} : at' = [at EXCEPT ![p] = x]
      BY DEF SendQAMessage, Move, noticeVars
    <2>. QED BY <1>2, <2>1
  <1>. QED BY <1>1, <1>3, <1>4 DEF NoticesInv, NoticesTyped, ResolvedInv, CopiesInv

\* Every step keeps the invariant and brings nothing back.
LEMMA NoticesStep ==
    ASSUME NoticesInv, [NoticesNext]_noticeVars
    PROVE  /\ NoticesInv'
           /\ \A x \in DOMAIN copies : x \in DOMAIN copies' /\ (copies[x].gone => copies'[x].gone)
           /\ \A k, q : StateOf(k, q).gone => StateOf(k, q)'.gone
  <1>. DEFINE Goal == /\ NoticesInv'
                      /\ \A x \in DOMAIN copies : x \in DOMAIN copies' /\ (copies[x].gone => copies'[x].gone)
                      /\ \A k, q : StateOf(k, q).gone => StateOf(k, q)'.gone
  <1>0. UNCHANGED reads => \A k, q : StateOf(k, q)' = StateOf(k, q)  BY DEF StateOf
  <1>1. ASSUME NEW s \in Person, NEW role, NEW target, NEW unit, SendAppNotification(s, role, target, unit)
        PROVE  Goal
    <2>1. UNCHANGED <<copies, reads>>  BY <1>1 DEF SendAppNotification
    <2>. QED BY <1>0, <1>1, <2>1, SendNoticesKeeps
  <1>2. ASSUME NEW s \in Person, CommitNotification(s) PROVE Goal
    <2>1. UNCHANGED reads  BY <1>2 DEF CommitNotification
    <2>. QED BY <1>0, <1>2, <2>1, CommitNoticesKeeps
  <1>3. ASSUME NEW p \in Person, NEW n \in 1 .. Len(notes),
               MarkAppNotificationRead(n, p) \/ DismissAppNotification(n, p)
        PROVE  Goal
    <2>1. UNCHANGED reads  BY <1>3 DEF MarkAppNotificationRead, DismissAppNotification
    <2>. QED BY <1>0, <1>3, <2>1, CopyTouched
  <1>4. ASSUME NEW p \in Person, NEW m \in 1 .. Len(messages), MarkQAMessageRead(m, p) \/ DismissQAMessage(m, p)
        PROVE  Goal
    <2>1. UNCHANGED copies  BY <1>4 DEF MarkQAMessageRead, DismissQAMessage
    <2>. QED BY <1>4, <2>1, MessageTouched
  <1>5. ASSUME \/ \E s \in Person : \E to \in {{"ALL_QA"}, {"DQA"}} \cup SUBSET QAAudiences : SendQAMessage(s, to)
               \/ \E p \in Mover : Move(p)
               \/ UNCHANGED noticeVars
        PROVE  Goal
    <2>1. NoticesInv' /\ UNCHANGED <<copies, reads>>  BY <1>5, RestKeeps
    <2>. QED BY <1>0, <2>1
  <1>. HIDE DEF Goal
  <1>6. Goal
    <2>1. CASE UNCHANGED noticeVars  BY <1>5, <2>1
    <2>2. CASE NoticesNext
      <3>1. CASE \E s \in Person : \E role \in MayWriteTo(RoleOf[s]), target \in Person \cup {NoPlace}, unit \in BOOLEAN :
                                SendAppNotification(s, role, target, unit)
        BY <1>1, <3>1
      <3>2. CASE \E s \in Person : CommitNotification(s)  BY <1>2, <3>2
      <3>3. CASE \E s \in Person : \E to \in {{"ALL_QA"}, {"DQA"}} \cup SUBSET QAAudiences : SendQAMessage(s, to)
        BY <1>5, <3>3
      <3>4. CASE \E p \in Mover : Move(p)  BY <1>5, <3>4
      <3>5. CASE \E p \in Person : \E n \in 1 .. Len(notes) : MarkAppNotificationRead(n, p) \/ DismissAppNotification(n, p)
        BY <1>3, <3>5
      <3>6. CASE \E p \in Person : \E m \in 1 .. Len(messages) : MarkQAMessageRead(m, p) \/ DismissQAMessage(m, p)
        BY <1>4, <3>6
      <3>. QED BY <2>2, <3>1, <3>2, <3>3, <3>4, <3>5, <3>6 DEF NoticesNext
    <2>. QED BY <2>1, <2>2
  <1>. QED BY <1>6 DEF Goal

\* The invariant holds of every run.
LEMMA NoticesInvHolds == NoticesSpec => []NoticesInv
  BY NoticesInvInit, NoticesStep, PTL DEF NoticesSpec

\* A list that is no longer than its limit is listed whole.
LEMMA LatestIsAll ==
    ASSUME NEW ns \in SUBSET Nat, IsFiniteSet(ns), Cardinality(ns) <= ListLimit
    PROVE  Latest(ns) = ns
  <1>1. ASSUME NEW n \in ns PROVE Cardinality({m \in ns : m > n}) < ListLimit
    <2>. DEFINE newer == {m \in ns : m > n}  rest == ns \ {n}
    <2>1. newer \subseteq rest  OBVIOUS
    <2>2. IsFiniteSet(rest) /\ Cardinality(rest) = Cardinality(ns) - 1  BY <1>1, FS_RemoveElement
    <2>. HIDE DEF newer, rest
    <2>3. IsFiniteSet(newer) /\ Cardinality(newer) <= Cardinality(rest)  BY <2>1, <2>2, FS_Subset
    <2>4. Cardinality(newer) \in Nat  BY <2>3, FS_CardinalityType
    <2>5. Cardinality(ns) \in Nat  BY FS_CardinalityType
    <2>6. ListLimit \in Nat  BY NoticesAssumption
    <2>7. Cardinality(newer) < ListLimit  BY <2>2, <2>3, <2>4, <2>5, <2>6
    <2>. QED BY <2>7 DEF newer
  <1>. QED BY <1>1 DEF Latest

\* What was sent has a copy with somebody other than its sender, and the badge counts what the inbox lists as
\* unread, for any people, roles and places, through moves, dismissals and late reads (app_notifications.go,
\* qa_messages.go).
THEOREM InboxIsTrueAlways == NoticesSpec => []InboxIsTrue
  <1>1. NoticesInv => SentReachesSomeone
    <2>. SUFFICES ASSUME NoticesInv, NEW n \in 1 .. Len(notes)
                  PROVE  LET have == {p \in Person : n \in CopiesOf(p)} IN have # {} /\ notes[n].from \notin have
      BY DEF SentReachesSomeone
    <2>1. \A p : n \in CopiesOf(p) <=> p \in notes[n].to  BY DEF CopiesOf, NoticesInv, CopiesInv
    <2>2. notes[n].to # {} /\ notes[n].from \notin notes[n].to  BY DEF NoticesInv, CopiesInv
    <2>. DEFINE Note == [from : Person, to : SUBSET Person]
    <2>3. notes[n] \in Note
      <3>1. notes \in Seq(Note)  BY DEF NoticesInv, NoticesTyped
      <3>. HIDE DEF Note
      <3>. QED BY <3>1
    <2>. QED BY <2>1, <2>2, <2>3
  <1>2. NoticesInv => BadgeMatchesInbox
    <2>. SUFFICES ASSUME NoticesInv, NEW p \in Person
                  PROVE  /\ Cardinality(InboxOf(p)) <= ListLimit =>
                              UnreadAppNotificationCount(p) = Cardinality({n \in ListAppNotifications(p) : ~copies[<<n, p>>].read})
                         /\ Cardinality(MessagesOf(p)) <= ListLimit =>
                              UnreadQAMessageCount(p) = Cardinality({m \in ListQAMessages(p) : ~StateOf(m, p).read /\ messages[m].from # p})
      BY DEF BadgeMatchesInbox
    <2>1. ASSUME Cardinality(InboxOf(p)) <= ListLimit PROVE ListAppNotifications(p) = InboxOf(p)
      <3>1. Len(notes) \in Nat  BY DEF NoticesInv, NoticesTyped
      <3>2. InboxOf(p) \subseteq 1 .. Len(notes)  BY DEF InboxOf, CopiesOf
      <3>3. IsFiniteSet(1 .. Len(notes))  BY <3>1, FS_Interval
      <3>4. IsFiniteSet(InboxOf(p)) /\ InboxOf(p) \in SUBSET Nat  BY <3>1, <3>2, <3>3, FS_Subset
      <3>. QED BY <2>1, <3>4, LatestIsAll DEF ListAppNotifications
    <2>2. ASSUME Cardinality(MessagesOf(p)) <= ListLimit PROVE ListQAMessages(p) = MessagesOf(p)
      <3>1. Len(messages) \in Nat  BY DEF NoticesInv, NoticesTyped
      <3>2. MessagesOf(p) \subseteq 1 .. Len(messages)  BY DEF MessagesOf
      <3>3. IsFiniteSet(1 .. Len(messages))  BY <3>1, FS_Interval
      <3>4. IsFiniteSet(MessagesOf(p)) /\ MessagesOf(p) \in SUBSET Nat  BY <3>1, <3>2, <3>3, FS_Subset
      <3>. QED BY <2>2, <3>4, LatestIsAll DEF ListQAMessages
    <2>3. {m \in MessagesOf(p) : messages[m].from # p /\ ~StateOf(m, p).read}
            = {m \in MessagesOf(p) : ~StateOf(m, p).read /\ messages[m].from # p}  OBVIOUS
    <2>. QED BY <2>1, <2>2, <2>3 DEF UnreadAppNotificationCount, UnreadQAMessageCount
  <1>. QED BY <1>1, <1>2, NoticesInvHolds, PTL DEF InboxIsTrue

\* Whoever dismissed a notification or a message never finds it in the inbox again, for any people and places
\* (DismissAppNotification, DismissQAMessage, MarkQAMessageRead).
THEOREM DismissedStaysGoneAlways == NoticesSpec => DismissedStaysGone
  <1>1. NoticesInv /\ [NoticesNext]_noticeVars =>
          [\A p \in Person :
             /\ \A n \in CopiesOf(p) : copies[<<n, p>>].gone => n \notin InboxOf(p)'
             /\ \A m \in 1 .. Len(messages) : StateOf(m, p).gone => m \notin MessagesOf(p)']_noticeVars
    <2>. SUFFICES ASSUME NoticesInv, [NoticesNext]_noticeVars, NEW p \in Person
                  PROVE  /\ \A n \in CopiesOf(p) : copies[<<n, p>>].gone => n \notin InboxOf(p)'
                         /\ \A m \in 1 .. Len(messages) : StateOf(m, p).gone => m \notin MessagesOf(p)'
      OBVIOUS
    <2>1. /\ \A x \in DOMAIN copies : x \in DOMAIN copies' /\ (copies[x].gone => copies'[x].gone)
          /\ \A k, q : StateOf(k, q).gone => StateOf(k, q)'.gone
      BY NoticesStep
    <2>2. ASSUME NEW n \in CopiesOf(p), copies[<<n, p>>].gone PROVE n \notin InboxOf(p)'
      <3>1. <<n, p>> \in DOMAIN copies  BY <2>2 DEF CopiesOf
      <3>2. copies'[<<n, p>>].gone  BY <2>1, <2>2, <3>1
      <3>. QED BY <3>2 DEF InboxOf
    <2>3. ASSUME NEW m \in 1 .. Len(messages), StateOf(m, p).gone PROVE m \notin MessagesOf(p)'
      BY <2>1, <2>3 DEF MessagesOf
    <2>. QED BY <2>2, <2>3
  <1>. QED BY <1>1, NoticesInvHolds, PTL DEF NoticesSpec, DismissedStaysGone

-----------------------------------------------------------------------------
(* Calendar: the inductive invariant *)

OrNull(S) == S \cup {Null}
RosterRow == [year : OrNull(Nat), sem : OrNull({1, 2}), acad : OrNull(Nat), level : Level, intake : Intake,
              cohort : OrNull(Cohort), status : {"ACTIVE", "GRADUATED"}]
CohortRow == [year : Nat, sem : {1, 2}, level : Level, intake : Intake]
Entry == [year : OrNull(Nat), sem : OrNull({1, 2}), moves : Nat, placed : BOOLEAN]
Period == [year : OrNull(Nat), sem : {1, 2}]

CalTyped ==
    /\ roster \in [DOMAIN roster -> RosterRow] /\ entry \in [DOMAIN roster -> Entry]
    /\ cohorts \in [DOMAIN cohorts -> CohortRow] /\ DOMAIN cohorts \subseteq Cohort
    /\ levelYears \in OrNull(Nat) /\ period \in Period
    /\ advances \in [Advance -> {NoAdvance} \cup [pc : {"read"}, period : Period]]

\* A student's row against the catalog K: the cohort is there, or was deleted, and a student who is placed in it
\* is where it is, at its level and of its intake
WithCohort(s, e, K) ==
    /\ s.cohort \in OrNull(DOMAIN K)
    /\ e.placed /\ s.status = "ACTIVE" =>
          /\ s.cohort \in DOMAIN K
          /\ K[s.cohort].year = s.year /\ K[s.cohort].sem = s.sem
          /\ K[s.cohort].level = s.level /\ K[s.cohort].intake = s.intake
\* ... and a student who was entered with a year and a semester has them, as many terms on as there were advances
OnTrack(s, e) ==
    e.year # Null /\ e.sem # Null /\ s.status = "ACTIVE" =>
        s.year # Null /\ s.sem # Null /\ Term(s.year, s.sem) = Term(e.year, e.sem) + e.moves

CalInv ==
    /\ CalTyped /\ Distinct(cohorts)
    /\ \A s \in DOMAIN roster : WithCohort(roster[s], entry[s], cohorts) /\ OnTrack(roster[s], entry[s])

\* The years of a level are a number, a NULL column or not.
LEMMA YearsAreNat == ASSUME CalTyped, NEW level PROVE Years(level) \in Nat
  <1>1. NoCap \in Nat  BY CalendarAssumption
  <1>. QED BY <1>1 DEF CalTyped, OrNull, Years, TenantYears

\* What an advance makes of a row.
LEMMA AdvancedRow ==
    ASSUME CalTyped, NEW s \in RosterRow
    PROVE  /\ Advanced(s) \in RosterRow
           /\ Advanced(s).level = s.level /\ Advanced(s).intake = s.intake /\ Advanced(s).cohort = s.cohort
           /\ Advanced(s).sem = NextSem(s.sem)
           /\ Advanced(s).status = "ACTIVE" => s.status = "ACTIVE" /\ ~Finishes(s)
           /\ s.year # Null /\ ~Finishes(s) => Advanced(s).year = IF s.sem = 2 THEN s.year + 1 ELSE s.year
  <1>. DEFINE y == IF YearTurns(s.sem) THEN Least(Plus1(s.year), Years(s.level)) ELSE s.year
              a == IF s.sem = 2 /\ s.acad # Null THEN s.acad + 1 ELSE s.acad
              g == IF Finishes(s) THEN "GRADUATED" ELSE s.status
              n == NextSem(s.sem)
  <1>1. Years(s.level) \in Nat  BY YearsAreNat
  <1>2. Null \notin Nat  BY CalendarAssumption
  <1>3. s.year \in OrNull(Nat) /\ s.acad \in OrNull(Nat) /\ s.status \in {"ACTIVE", "GRADUATED"}  BY DEF RosterRow
  <1>4. y \in OrNull(Nat) /\ a \in OrNull(Nat) /\ n \in OrNull({1, 2}) /\ g \in {"ACTIVE", "GRADUATED"}
    BY <1>1, <1>2, <1>3 DEF OrNull, Least, Plus1, NextSem
  <1>5. s.year # Null /\ ~Finishes(s) => y = IF s.sem = 2 THEN s.year + 1 ELSE s.year
    BY <1>1, <1>2, <1>3 DEF Finishes, YearTurns, Least, Plus1, OrNull
  <1>6. g = "ACTIVE" => s.status = "ACTIVE" /\ ~Finishes(s)  OBVIOUS
  <1>7. Advanced(s) = [s EXCEPT !.sem = n, !.year = y, !.acad = a, !.status = g]  BY DEF Advanced
  <1>. HIDE DEF y, a, g, n
  <1>8. /\ Advanced(s) \in RosterRow /\ Advanced(s).sem = n /\ Advanced(s).year = y /\ Advanced(s).status = g
        /\ Advanced(s).level = s.level /\ Advanced(s).intake = s.intake /\ Advanced(s).cohort = s.cohort
    BY <1>4, <1>7 DEF RosterRow
  <1>. QED BY <1>5, <1>6, <1>8 DEF n

\* What an advance makes of a cohort.
LEMMA ShiftedRow ==
    ASSUME NEW c \in CohortRow
    PROVE  /\ Shifted(c) \in CohortRow /\ Shifted(c).level = c.level /\ Shifted(c).intake = c.intake
           /\ Shifted(c).sem = NextSem(c.sem) /\ Shifted(c).year = IF c.sem = 2 THEN c.year + 1 ELSE c.year
  <1>. DEFINE n == NextSem(c.sem)  y == IF c.sem = 2 THEN c.year + 1 ELSE c.year
  <1>1. n \in {1, 2} /\ y \in Nat  BY DEF CohortRow, NextSem
  <1>2. Shifted(c) = [c EXCEPT !.sem = n, !.year = y]  BY DEF Shifted
  <1>. HIDE DEF n, y
  <1>3. /\ Shifted(c) \in CohortRow /\ Shifted(c).level = c.level /\ Shifted(c).intake = c.intake
        /\ Shifted(c).sem = n /\ Shifted(c).year = y
    BY <1>1, <1>2 DEF CohortRow
  <1>. QED BY <1>3 DEF n, y

\* Two cohorts are not made the same by moving on together.
LEMMA ShiftIsInjective ==
    ASSUME NEW c \in CohortRow, NEW d \in CohortRow, Shifted(c) = Shifted(d)
    PROVE  c = d
  <1>1. /\ c.level = d.level /\ c.intake = d.intake /\ NextSem(c.sem) = NextSem(d.sem)
        /\ (IF c.sem = 2 THEN c.year + 1 ELSE c.year) = (IF d.sem = 2 THEN d.year + 1 ELSE d.year)
    BY ShiftedRow
  <1>2. c.sem \in {1, 2} /\ d.sem \in {1, 2} /\ c.year \in Nat /\ d.year \in Nat  BY DEF CohortRow
  <1>3. c.sem = d.sem /\ c.year = d.year  BY <1>1, <1>2 DEF NextSem
  <1>. QED BY <1>1, <1>3 DEF CohortRow

\* The constraint of the table holds after any shift.
LEMMA ShiftKeepsDistinct ==
    ASSUME CalTyped, Distinct(cohorts), NEW scope
    PROVE  Distinct(CohortsAfter(scope))
  <1>. DEFINE K == CohortsAfter(scope)
  <1>1. ASSUME NEW c \in DOMAIN K
        PROVE  /\ c \in DOMAIN cohorts /\ cohorts[c] \in CohortRow /\ K[c].intake = cohorts[c].intake
               /\ K[c] = IF cohorts[c].intake \in scope THEN Shifted(cohorts[c]) ELSE cohorts[c]
    <2>1. c \in DOMAIN cohorts /\ cohorts[c] \in CohortRow  BY DEF CohortsAfter, CalTyped
    <2>2. K[c] = IF cohorts[c].intake \in scope THEN Shifted(cohorts[c]) ELSE cohorts[c]
      BY <2>1 DEF CohortsAfter, CohortsOf, OfIntake
    <2>. QED BY <2>1, <2>2, ShiftedRow
  <1>. HIDE DEF K
  <1>2. ASSUME NEW c \in DOMAIN K, NEW d \in DOMAIN K, K[c] = K[d] PROVE c = d
    <2>1. cohorts[c].intake = cohorts[d].intake  BY <1>1, <1>2
    <2>2. cohorts[c] = cohorts[d]
      <3>1. CASE cohorts[c].intake \in scope
        <4>1. Shifted(cohorts[c]) = Shifted(cohorts[d])  BY <1>1, <1>2, <2>1, <3>1
        <4>2. cohorts[c] \in CohortRow /\ cohorts[d] \in CohortRow  BY <1>1
        <4>. QED BY <4>1, <4>2, ShiftIsInjective
      <3>2. CASE cohorts[c].intake \notin scope  BY <1>1, <1>2, <2>1, <3>2
      <3>. QED BY <3>1, <3>2
    <2>. QED BY <1>1, <2>2 DEF Distinct
  <1>. QED BY <1>2 DEF Distinct, K

\* At the start there is neither a student nor a cohort.
LEMMA CalInvInit == CalendarInit => CalInv
  <1>. SUFFICES ASSUME CalendarInit PROVE CalInv  OBVIOUS
  <1>1. DOMAIN roster = {} /\ DOMAIN cohorts = {} /\ DOMAIN entry = {}  BY DEF CalendarInit
  <1>2. roster \in [{} -> RosterRow] /\ entry \in [{} -> Entry] /\ cohorts \in [{} -> CohortRow]
    BY DEF CalendarInit
  <1>3. period \in Period /\ levelYears \in OrNull(Nat)  BY DEF CalendarInit, Period, OrNull
  <1>4. CalTyped  BY <1>1, <1>2, <1>3 DEF CalTyped, CalendarInit
  <1>. QED BY <1>1, <1>4 DEF CalInv, Distinct

\* An advance of any scope keeps students and cohorts together.
LEMMA AdvanceKeeps ==
    ASSUME CalInv, NEW scope, roster' = RosterAfter(scope), cohorts' = CohortsAfter(scope), entry' = Moved(scope),
           UNCHANGED levelYears, period' \in Period,
           advances' \in [Advance -> {NoAdvance} \cup [pc : {"read"}, period : Period]]
    PROVE  CalInv'
  <1>. DEFINE gone == Completed(scope)  K == CohortsAfter(scope)
  <1>0. CalTyped  BY DEF CalInv
  <1>1. /\ DOMAIN K = DOMAIN cohorts \ gone
        /\ \A c \in DOMAIN K : K[c] = IF cohorts[c].intake \in scope THEN Shifted(cohorts[c]) ELSE cohorts[c]
    BY DEF CohortsAfter, CohortsOf, OfIntake
  <1>2. K \in [DOMAIN K -> CohortRow] /\ DOMAIN K \subseteq Cohort
    <2>1. \A c \in DOMAIN K : K[c] \in CohortRow  BY <1>0, <1>1, ShiftedRow DEF CalTyped
    <2>2. K = [c \in DOMAIN K |-> K[c]]  BY DEF CohortsAfter
    <2>. HIDE DEF K
    <2>. QED BY <1>0, <1>1, <2>1, <2>2 DEF CalTyped
  <1>3. \A c \in DOMAIN cohorts : c \in gone <=> /\ cohorts[c].intake \in scope /\ cohorts[c].sem = 2
                                                /\ cohorts[c].year + 1 > Years(cohorts[c].level)
    BY DEF Completed, CohortsOf, OfIntake
  <1>4. Distinct(K)  BY <1>0, ShiftKeepsDistinct DEF CalInv
  <1>. HIDE DEF gone, K
  <1>5. ASSUME NEW s \in DOMAIN roster
        PROVE  /\ roster'[s] \in RosterRow /\ entry'[s] \in Entry
               /\ WithCohort(roster'[s], entry'[s], K) /\ OnTrack(roster'[s], entry'[s])
    <2>. DEFINE o == roster[s]  e == entry[s]  in == s \in Moving(scope)
                b == IF in THEN Advanced(o) ELSE o
                r == [b EXCEPT !.cohort = IF @ \in gone THEN Null ELSE @]
                f == IF in THEN [e EXCEPT !.moves = @ + 1] ELSE e
    <2>1. o \in RosterRow /\ e \in Entry /\ WithCohort(o, e, cohorts) /\ OnTrack(o, e)
      BY <1>0 DEF CalTyped, CalInv
    <2>2. roster'[s] = r /\ entry'[s] = f
      BY <1>0 DEF RosterAfter, WithoutCohorts, Moved, gone, CalTyped
    <2>3. in <=> o.status = "ACTIVE" /\ o.intake \in scope  BY DEF Moving
    <2>. HIDE DEF o, e, in
    <2>4. f \in Entry /\ f.placed = e.placed /\ f.year = e.year /\ f.sem = e.sem
          /\ f.moves = IF in THEN e.moves + 1 ELSE e.moves
      BY <2>1 DEF Entry
    <2>5. /\ b \in RosterRow /\ b.level = o.level /\ b.intake = o.intake /\ b.cohort = o.cohort
          /\ b.sem = IF in THEN NextSem(o.sem) ELSE o.sem
          /\ b.status = "ACTIVE" => o.status = "ACTIVE" /\ (in => ~Finishes(o))
          /\ o.year # Null /\ (in => ~Finishes(o)) => b.year = IF in /\ o.sem = 2 THEN o.year + 1 ELSE o.year
      BY <1>0, <2>1, AdvancedRow
    <2>. HIDE DEF b, f
    <2>6. /\ r \in RosterRow /\ r.level = b.level /\ r.intake = b.intake /\ r.sem = b.sem /\ r.year = b.year
          /\ r.status = b.status /\ r.cohort = IF b.cohort \in gone THEN Null ELSE b.cohort
      BY <2>5 DEF RosterRow, OrNull
    <2>. HIDE DEF r
    <2>7. r.cohort \in OrNull(DOMAIN K)
      BY <1>1, <2>1, <2>5, <2>6 DEF WithCohort, OrNull
    <2>8. Null \notin Nat /\ Null \notin Cohort  BY CalendarAssumption
    <2>9. ASSUME f.placed, r.status = "ACTIVE"
          PROVE  /\ r.cohort \in DOMAIN K /\ K[r.cohort].year = r.year /\ K[r.cohort].sem = r.sem
                 /\ K[r.cohort].level = r.level /\ K[r.cohort].intake = r.intake
      <3>. DEFINE c == o.cohort  k == cohorts[c]
      <3>1. o.status = "ACTIVE" /\ (in => ~Finishes(o))  BY <2>5, <2>6, <2>9
      <3>2. /\ c \in DOMAIN cohorts /\ k.year = o.year /\ k.sem = o.sem /\ k.level = o.level /\ k.intake = o.intake
        BY <2>1, <2>4, <2>9, <3>1 DEF WithCohort
      <3>3. k \in CohortRow /\ k.year \in Nat /\ k.sem \in {1, 2}  BY <1>0, <3>2 DEF CalTyped, CohortRow
      <3>4. in <=> k.intake \in scope  BY <2>3, <3>1, <3>2
      <3>5. c \notin gone  BY <1>3, <2>8, <3>1, <3>2, <3>3, <3>4 DEF Finishes
      <3>6. c \in DOMAIN K /\ r.cohort = c  BY <1>1, <2>5, <2>6, <3>2, <3>5
      <3>7. K[c] = IF in THEN Shifted(k) ELSE k  BY <1>1, <3>4, <3>6
      <3>8. b.year = IF in /\ o.sem = 2 THEN o.year + 1 ELSE o.year  BY <2>5, <2>8, <3>1, <3>2, <3>3
      <3>. HIDE DEF k, c
      <3>9. /\ K[c].level = k.level /\ K[c].intake = k.intake /\ K[c].sem = IF in THEN NextSem(k.sem) ELSE k.sem
            /\ K[c].year = IF in /\ k.sem = 2 THEN k.year + 1 ELSE k.year
        BY <3>3, <3>7, ShiftedRow
      <3>. QED BY <2>5, <2>6, <3>2, <3>6, <3>8, <3>9
    <2>10. OnTrack(r, f)
      <3>. SUFFICES ASSUME f.year # Null, f.sem # Null, r.status = "ACTIVE"
                    PROVE  r.year # Null /\ r.sem # Null /\ Term(r.year, r.sem) = Term(f.year, f.sem) + f.moves
        BY DEF OnTrack
      <3>1. o.status = "ACTIVE" /\ (in => ~Finishes(o))  BY <2>5, <2>6
      <3>2. o.year # Null /\ o.sem # Null /\ Term(o.year, o.sem) = Term(e.year, e.sem) + e.moves
        BY <2>1, <2>4, <3>1 DEF OnTrack
      <3>3. o.year \in Nat /\ o.sem \in {1, 2} /\ e.year \in Nat /\ e.sem \in {1, 2} /\ e.moves \in Nat
        BY <2>1, <2>4, <3>2 DEF RosterRow, Entry, OrNull
      <3>4. /\ r.sem = IF in THEN NextSem(o.sem) ELSE o.sem
            /\ r.year = IF in /\ o.sem = 2 THEN o.year + 1 ELSE o.year
        BY <2>5, <2>6, <3>1, <3>2
      <3>5. r.year \in Nat /\ r.sem \in {1, 2}  BY <3>3, <3>4 DEF NextSem
      <3>6. r.year # Null /\ r.sem # Null  BY <2>8, <3>5
      <3>7. Term(r.year, r.sem) = Term(f.year, f.sem) + f.moves
        BY <2>4, <3>2, <3>3, <3>4 DEF Term, NextSem
      <3>. QED BY <3>6, <3>7
    <2>11. WithCohort(r, f, K)  BY <2>7, <2>9 DEF WithCohort
    <2>. QED BY <2>2, <2>4, <2>6, <2>10, <2>11
  <1>6. DOMAIN roster' = DOMAIN roster /\ DOMAIN entry' = DOMAIN roster
    BY <1>0 DEF RosterAfter, WithoutCohorts, Moved, CalTyped
  <1>7. roster' \in [DOMAIN roster' -> RosterRow] /\ entry' \in [DOMAIN roster' -> Entry]
    <2>1. roster' = [s \in DOMAIN roster |-> roster'[s]] /\ entry' = [s \in DOMAIN roster |-> entry'[s]]
      BY <1>0 DEF RosterAfter, WithoutCohorts, Moved, CalTyped
    <2>. QED BY <1>5, <1>6, <2>1
  <1>8. cohorts' = K  BY DEF K
  <1>9. CalTyped'  BY <1>0, <1>2, <1>7, <1>8 DEF CalTyped
  <1>. QED BY <1>4, <1>5, <1>6, <1>8, <1>9 DEF CalInv

\* Whatever an administrator enters for a student starts the count anew.
LEMMA EnteredKeeps ==
    ASSUME CalInv, NEW s, NEW row \in RosterRow, Entered(s, row), row.cohort \in OrNull(DOMAIN cohorts),
           UNCHANGED <<cohorts, levelYears, period, advances>>
    PROVE  CalInv'
  <1>. DEFINE k == cohorts[row.cohort]
              p == row.cohort # Null /\ row.year = k.year /\ row.sem = k.sem /\ row.level = k.level /\ row.intake = k.intake
              e == [year |-> row.year, sem |-> row.sem, moves |-> 0, placed |-> p]
  <1>0. CalTyped  BY DEF CalInv
  <1>1. roster' = With(roster, s, row) /\ entry' = With(entry, s, e)  BY DEF Entered
  <1>2. p \in BOOLEAN  OBVIOUS
  <1>3. p => /\ row.cohort \in DOMAIN cohorts /\ cohorts[row.cohort].year = row.year /\ cohorts[row.cohort].sem = row.sem
             /\ cohorts[row.cohort].level = row.level /\ cohorts[row.cohort].intake = row.intake
    BY DEF OrNull
  <1>. HIDE DEF p
  <1>4. e \in Entry /\ e.placed = p /\ e.year = row.year /\ e.sem = row.sem /\ e.moves = 0
    BY <1>2 DEF Entry, RosterRow
  <1>. HIDE DEF e
  <1>5. WithCohort(row, e, cohorts)  BY <1>3, <1>4 DEF WithCohort
  <1>6. OnTrack(row, e)
    <2>1. row.year # Null /\ row.sem # Null => Term(row.year, row.sem) \in Nat
      BY DEF RosterRow, OrNull, Term
    <2>. QED BY <1>4, <2>1 DEF OnTrack
  <1>7. /\ DOMAIN roster' = DOMAIN roster \cup {s} /\ roster' \in [DOMAIN roster' -> RosterRow]
        /\ entry' \in [DOMAIN roster' -> Entry]
        /\ roster'[s] = row /\ entry'[s] = e
        /\ \A x \in DOMAIN roster : x # s => roster'[x] = roster[x] /\ entry'[x] = entry[x]
    BY <1>0, <1>1, <1>4 DEF With, CalTyped
  <1>8. CalTyped'  BY <1>0, <1>7 DEF CalTyped
  <1>9. \A x \in DOMAIN roster' : WithCohort(roster'[x], entry'[x], cohorts') /\ OnTrack(roster'[x], entry'[x])
    BY <1>5, <1>6, <1>7 DEF CalInv
  <1>. QED BY <1>8, <1>9 DEF CalInv

\* Entering, importing and updating a student leaves the row with its cohort.
LEMMA StudentKeeps ==
    ASSUME CalInv, NEW s \in Student, NEW year \in OrNull(Nat), NEW sem \in OrNull({1, 2}), NEW level \in Level,
           NEW i \in Intake, NEW c \in OrNull(Cohort), NEW status \in {"ACTIVE", "GRADUATED"},
           \/ CreateStudent(s, year, sem, level, i, c) \/ ImportRow(s, year, sem, level, i, c)
           \/ UpdateStudent(s, year, sem, i, status, c)
    PROVE  CalInv'
  <1>0. CalTyped  BY DEF CalInv
  <1>1. c \in OrNull(DOMAIN cohorts) /\ DOMAIN cohorts \subseteq Cohort
    BY <1>0 DEF CreateStudent, ImportRow, UpdateStudent, CohortIsThere, OrNull, CalTyped
  <1>2. OrOne(year) \in OrNull(Nat) /\ OrOne(sem) \in OrNull({1, 2}) /\ period.year \in OrNull(Nat)
    BY <1>0 DEF OrOne, OrNull, CalTyped, Period
  <1>3. ASSUME s \in DOMAIN roster
        PROVE  /\ roster[s] \in RosterRow /\ Or(c, roster[s].cohort) \in OrNull(DOMAIN cohorts)
               /\ Or(level, roster[s].level) \in Level /\ Or(i, roster[s].intake) \in Intake
    <2>1. roster[s] \in RosterRow  BY <1>0, <1>3 DEF CalTyped
    <2>2. roster[s].cohort \in OrNull(DOMAIN cohorts)  BY <1>3 DEF CalInv, WithCohort
    <2>3. roster[s].level \in Level /\ roster[s].intake \in Intake  BY <2>1 DEF RosterRow
    <2>. QED BY <1>1, <2>1, <2>2, <2>3 DEF Or
  <1>4. CASE CreateStudent(s, year, sem, level, i, c) \/ (ImportRow(s, year, sem, level, i, c) /\ s \notin DOMAIN roster)
    <2>. DEFINE y == IF CreateStudent(s, year, sem, level, i, c) THEN OrOne(year) ELSE year
                m == IF CreateStudent(s, year, sem, level, i, c) THEN OrOne(sem) ELSE sem
                row == [year |-> y, sem |-> m, acad |-> period.year, level |-> level, intake |-> i,
                        cohort |-> c, status |-> "ACTIVE"]
    <2>1. y \in OrNull(Nat) /\ m \in OrNull({1, 2})  BY <1>2
    <2>2. Entered(s, row) /\ UNCHANGED <<cohorts, levelYears, period, advances>>
      BY <1>4 DEF CreateStudent, ImportRow
    <2>. HIDE DEF y, m
    <2>3. row \in RosterRow /\ row.cohort = c  BY <1>1, <1>2, <2>1 DEF RosterRow, OrNull
    <2>. HIDE DEF row
    <2>. QED BY <1>1, <2>2, <2>3, EnteredKeeps
  <1>5. CASE UpdateStudent(s, year, sem, i, status, c)
    <2>. DEFINE h == Or(c, roster[s].cohort)  y == OrOne(year)  m == OrOne(sem)
                row == [roster[s] EXCEPT !.year = y, !.sem = m, !.intake = i, !.status = status, !.cohort = h]
    <2>1. s \in DOMAIN roster  BY <1>5 DEF UpdateStudent
    <2>2. Entered(s, row) /\ UNCHANGED <<cohorts, levelYears, period, advances>>  BY <1>5 DEF UpdateStudent
    <2>3. h \in OrNull(DOMAIN cohorts) /\ roster[s] \in RosterRow /\ y \in OrNull(Nat) /\ m \in OrNull({1, 2})
      BY <1>2, <1>3, <2>1
    <2>. HIDE DEF h, y, m
    <2>4. h \in OrNull(Cohort)  BY <1>1, <2>3 DEF OrNull
    <2>5. row \in RosterRow /\ row.cohort = h  BY <2>3, <2>4 DEF RosterRow
    <2>. HIDE DEF row
    <2>. QED BY <2>2, <2>3, <2>5, EnteredKeeps
  <1>6. CASE ImportRow(s, year, sem, level, i, c) /\ s \in DOMAIN roster
    <2>. DEFINE h == Or(c, roster[s].cohort)  l == Or(level, roster[s].level)  j == Or(i, roster[s].intake)
                row == [roster[s] EXCEPT !.year = year, !.sem = sem, !.level = l, !.intake = j, !.cohort = h]
    <2>1. Entered(s, row) /\ UNCHANGED <<cohorts, levelYears, period, advances>>  BY <1>6 DEF ImportRow
    <2>2. h \in OrNull(DOMAIN cohorts) /\ roster[s] \in RosterRow /\ l \in Level /\ j \in Intake
      BY <1>3, <1>6
    <2>. HIDE DEF h, l, j
    <2>3. h \in OrNull(Cohort)  BY <1>1, <2>2 DEF OrNull
    <2>4. row \in RosterRow /\ row.cohort = h  BY <2>2, <2>3 DEF RosterRow
    <2>. HIDE DEF row
    <2>. QED BY <2>1, <2>2, <2>4, EnteredKeeps
  <1>. QED BY <1>4, <1>5, <1>6

\* Students whose cohort is changed or deleted under them are no longer placed.
LEMMA CohortKeeps ==
    ASSUME CalInv, NEW c \in Cohort,
           \/ \E year \in 1 .. 2, sem \in {1, 2}, level \in Level, i \in Intake : CreateOffering(c, year, sem, level, i)
           \/ UpdateOffering(c, 1, 1)
           \/ DeleteCohort(c)
    PROVE  CalInv'
  <1>0. CalTyped  BY DEF CalInv
  <1>1. Null \notin Cohort  BY CalendarAssumption
  <1>2. UNCHANGED <<levelYears, period, advances>>  BY DEF CreateOffering, UpdateOffering, DeleteCohort
  <1>3. ASSUME NEW K, cohorts' = K, K \in [DOMAIN K -> CohortRow], DOMAIN K \subseteq Cohort, Distinct(K),
               \A d \in DOMAIN cohorts : d # c => d \in DOMAIN K /\ K[d] = cohorts[d],
               \/ UNCHANGED <<roster, entry>> /\ c \notin DOMAIN cohorts
               \/ UNCHANGED roster /\ entry' = Unplaced(c) /\ c \in DOMAIN K
               \/ roster' = WithoutCohorts(roster, {c}) /\ entry' = Unplaced(c)
        PROVE  CalInv'
    <2>1. /\ DOMAIN roster' = DOMAIN roster /\ roster' = [s \in DOMAIN roster |-> roster'[s]]
          /\ entry' = [s \in DOMAIN roster |-> entry'[s]]
      BY <1>0, <1>3 DEF CalTyped, WithoutCohorts, Unplaced
    <2>2. ASSUME NEW s \in DOMAIN roster
          PROVE  /\ roster'[s] \in RosterRow /\ entry'[s] \in Entry
                 /\ WithCohort(roster'[s], entry'[s], K) /\ OnTrack(roster'[s], entry'[s])
      <3>. DEFINE o == roster[s]  e == entry[s]
      <3>1. o \in RosterRow /\ e \in Entry /\ WithCohort(o, e, cohorts) /\ OnTrack(o, e)
        BY <1>0 DEF CalTyped, CalInv
      <3>2. /\ roster'[s] = o \/ roster'[s] = [o EXCEPT !.cohort = IF @ \in {c} THEN Null ELSE @]
            /\ entry'[s] = e \/ entry'[s] = (IF o.cohort = c THEN [e EXCEPT !.placed = FALSE] ELSE e)
            /\ c \notin DOMAIN cohorts
               \/ (entry'[s] = (IF o.cohort = c THEN [e EXCEPT !.placed = FALSE] ELSE e)
                   /\ (c \in DOMAIN K \/ roster'[s] = [o EXCEPT !.cohort = IF @ \in {c} THEN Null ELSE @]))
        BY <1>0, <1>3 DEF WithoutCohorts, Unplaced, CalTyped
      <3>. HIDE DEF o, e
      <3>. DEFINE r == roster'[s]  f == entry'[s]
      <3>3. /\ r \in RosterRow /\ r.year = o.year /\ r.sem = o.sem /\ r.level = o.level /\ r.intake = o.intake
            /\ r.status = o.status /\ (o.cohort # c => r.cohort = o.cohort) /\ (r.cohort = o.cohort \/ r.cohort = Null)
        BY <3>1, <3>2 DEF RosterRow, OrNull
      <3>4. f \in Entry /\ f.year = e.year /\ f.sem = e.sem /\ f.moves = e.moves /\ (f.placed => e.placed)
        BY <3>1, <3>2 DEF Entry
      <3>5. o.cohort = c /\ c \in DOMAIN cohorts => ~f.placed /\ (c \in DOMAIN K \/ r.cohort = Null)
        BY <3>1, <3>2 DEF Entry, RosterRow
      <3>. HIDE DEF r, f
      <3>6. OnTrack(r, f)  BY <3>1, <3>3, <3>4 DEF OnTrack
      <3>7. r.cohort \in OrNull(DOMAIN K)
        BY <1>1, <1>3, <3>1, <3>3, <3>5 DEF WithCohort, OrNull
      <3>8. WithCohort(r, f, K)
        BY <1>1, <1>3, <3>1, <3>3, <3>4, <3>5, <3>7 DEF WithCohort, OrNull
      <3>. QED BY <3>3, <3>4, <3>6, <3>8 DEF r, f
    <2>3. roster' \in [DOMAIN roster' -> RosterRow] /\ entry' \in [DOMAIN roster' -> Entry]  BY <2>1, <2>2
    <2>4. CalTyped'  BY <1>0, <1>2, <1>3, <2>3 DEF CalTyped
    <2>. QED BY <1>3, <2>1, <2>2, <2>4 DEF CalInv
  <1>4. ASSUME NEW row \in CohortRow PROVE
          /\ With(cohorts, c, row) \in [DOMAIN With(cohorts, c, row) -> CohortRow]
          /\ DOMAIN With(cohorts, c, row) = DOMAIN cohorts \cup {c}
          /\ \A d \in DOMAIN cohorts : d # c => With(cohorts, c, row)[d] = cohorts[d]
    BY <1>0 DEF With, CalTyped
  <1>5. DOMAIN cohorts \subseteq Cohort /\ DOMAIN cohorts \cup {c} \subseteq Cohort  BY <1>0 DEF CalTyped
  <1>6. ASSUME NEW year \in 1 .. 2, NEW sem \in {1, 2}, NEW level \in Level, NEW i \in Intake,
               CreateOffering(c, year, sem, level, i)
        PROVE  CalInv'
    <2>. DEFINE row == [year |-> year, sem |-> sem, level |-> level, intake |-> i]  K == With(cohorts, c, row)
    <2>1. row \in CohortRow  BY DEF CohortRow
    <2>2. cohorts' = K /\ Distinct(K) /\ UNCHANGED <<roster, entry>> /\ c \notin DOMAIN cohorts
      BY <1>6 DEF CreateOffering, SaveCohort
    <2>. HIDE DEF row
    <2>3. /\ K \in [DOMAIN K -> CohortRow] /\ DOMAIN K \subseteq Cohort
          /\ \A d \in DOMAIN cohorts : d # c => d \in DOMAIN K /\ K[d] = cohorts[d]
      BY <1>4, <1>5, <2>1
    <2>. HIDE DEF K
    <2>. QED BY <1>3, <2>2, <2>3
  <1>7. CASE UpdateOffering(c, 1, 1)
    <2>. DEFINE row == [cohorts[c] EXCEPT !.year = 1, !.sem = 1]  K == With(cohorts, c, row)
    <2>1. row \in CohortRow  BY <1>0, <1>7 DEF CohortRow, UpdateOffering, CalTyped
    <2>2. cohorts' = K /\ Distinct(K) /\ UNCHANGED roster /\ entry' = Unplaced(c)
      BY <1>7 DEF UpdateOffering, SaveCohort
    <2>. HIDE DEF row
    <2>3. /\ K \in [DOMAIN K -> CohortRow] /\ DOMAIN K \subseteq Cohort /\ c \in DOMAIN K
          /\ \A d \in DOMAIN cohorts : d # c => d \in DOMAIN K /\ K[d] = cohorts[d]
      BY <1>4, <1>5, <2>1
    <2>. HIDE DEF K
    <2>. QED BY <1>3, <2>2, <2>3
  <1>8. CASE DeleteCohort(c)
    <2>. DEFINE K == Except(cohorts, {c})
    <2>1. cohorts' = K /\ roster' = WithoutCohorts(roster, {c}) /\ entry' = Unplaced(c)  BY <1>8 DEF DeleteCohort
    <2>2. /\ K \in [DOMAIN K -> CohortRow] /\ DOMAIN K = DOMAIN cohorts \ {c}
          /\ \A d \in DOMAIN cohorts : d # c => d \in DOMAIN K /\ K[d] = cohorts[d]
      BY <1>0 DEF Except, CalTyped
    <2>. HIDE DEF K
    <2>3. Distinct(K) /\ DOMAIN K \subseteq Cohort  BY <1>5, <2>2 DEF CalInv, Distinct
    <2>. QED BY <1>3, <2>1, <2>2, <2>3
  <1>. QED BY <1>6, <1>7, <1>8

\* The next period of a period.
LEMMA NextPeriodIsPeriod == ASSUME NEW p \in Period PROVE NextPeriod(p) \in Period
  BY DEF Period, NextPeriod, IncAcademicYear, OrNull

\* Advancing the whole institution: read the period, then move everybody in one transaction.
LEMMA InstitutionKeeps ==
    ASSUME CalInv, NEW a \in Advance, AdvanceBegin(a) \/ AdvanceAcademicPeriod(a)
    PROVE  CalInv'
  <1>. DEFINE Request == {NoAdvance} \cup [pc : {"read"}, period : Period]
  <1>0. CalTyped /\ advances \in [Advance -> Request] /\ period \in Period  BY DEF CalInv, CalTyped
  <1>1. CASE AdvanceBegin(a)
    <2>. DEFINE r == [pc |-> "read", period |-> period]
    <2>1. r \in Request  BY <1>0
    <2>2. advances' = [advances EXCEPT ![a] = r]  BY <1>1 DEF AdvanceBegin
    <2>3. UNCHANGED <<roster, cohorts, levelYears, period, entry>>  BY <1>1 DEF AdvanceBegin
    <2>. HIDE DEF r, Request
    <2>4. advances' \in [Advance -> Request]  BY <1>0, <2>1, <2>2
    <2>5. CalTyped'  BY <1>0, <2>3, <2>4 DEF CalTyped, Request
    <2>. QED BY <2>3, <2>5 DEF CalInv
  <1>2. CASE AdvanceAcademicPeriod(a)
    <2>1. advances' = [advances EXCEPT ![a] = NoAdvance] /\ UNCHANGED levelYears  BY <1>2 DEF AdvanceAcademicPeriod
    <2>2. advances[a].period \in Period
      BY <1>0, <1>2 DEF AdvanceAcademicPeriod, NoAdvance
    <2>3. NoAdvance \in Request  OBVIOUS
    <2>. HIDE DEF Request
    <2>4. advances' \in [Advance -> Request]  BY <1>0, <2>1, <2>3
    <2>5. CASE UNCHANGED <<roster, cohorts, period, entry>>
      <3>1. CalTyped'  BY <1>0, <2>1, <2>4, <2>5 DEF CalTyped, Request
      <3>. QED BY <2>5, <3>1 DEF CalInv
    <2>6. CASE /\ roster' = RosterAfter(Intake \cup {Null}) /\ cohorts' = CohortsAfter(Intake \cup {Null})
               /\ period' = NextPeriod(advances[a].period) /\ entry' = Moved(Intake \cup {Null})
      <3>1. period' \in Period  BY <2>2, <2>6, NextPeriodIsPeriod
      <3>. QED BY <2>1, <2>4, <2>6, <3>1, AdvanceKeeps DEF Request
    <2>. QED BY <1>2, <2>5, <2>6 DEF AdvanceAcademicPeriod
  <1>. QED BY <1>1, <1>2

\* Advancing some intakes, and the settings that move nobody.
LEMMA SettingsKeep ==
    ASSUME CalInv,
           \/ \E intakes \in SUBSET Intake : AdvanceIntakeStudents(intakes)
           \/ \E sem \in {0, 2} : UpdateTenantAcademicPeriod(1, sem)
           \/ \E years \in {0, 1} : UpdateCourse(years)
           \/ UNCHANGED calVars
    PROVE  CalInv'
  <1>0. CalTyped  BY DEF CalInv
  <1>1. ASSUME NEW intakes \in SUBSET Intake, AdvanceIntakeStudents(intakes) PROVE CalInv'
    <2>1. /\ roster' = RosterAfter(intakes) /\ cohorts' = CohortsAfter(intakes) /\ entry' = Moved(intakes)
          /\ UNCHANGED <<levelYears, period, advances>>
      BY <1>1 DEF AdvanceIntakeStudents
    <2>2. period' \in Period /\ advances' \in [Advance -> {NoAdvance} \cup [pc : {"read"}, period : Period]]
      BY <1>0, <2>1 DEF CalTyped
    <2>. QED BY <2>1, <2>2, AdvanceKeeps
  <1>2. ASSUME NEW sem \in {0, 2}, UpdateTenantAcademicPeriod(1, sem) PROVE CalInv'
    <2>1. UNCHANGED <<cohorts, levelYears, advances, entry>>  BY <1>2 DEF UpdateTenantAcademicPeriod
    <2>2. period' \in Period  BY <1>0, <1>2 DEF UpdateTenantAcademicPeriod, CalTyped, Period, OrNull
    <2>3. roster' = [s \in DOMAIN roster |-> IF roster[s].status = "ACTIVE" THEN [roster[s] EXCEPT !.acad = 1] ELSE roster[s]]
      BY <1>2 DEF UpdateTenantAcademicPeriod
    <2>4. ASSUME NEW s \in DOMAIN roster
          PROVE  /\ roster'[s] \in RosterRow
                 /\ roster'[s].year = roster[s].year /\ roster'[s].sem = roster[s].sem /\ roster'[s].level = roster[s].level
                 /\ roster'[s].intake = roster[s].intake /\ roster'[s].cohort = roster[s].cohort
                 /\ roster'[s].status = roster[s].status
      <3>1. roster[s] \in RosterRow  BY <1>0 DEF CalTyped
      <3>2. 1 \in OrNull(Nat)  BY DEF OrNull
      <3>3. roster'[s] = roster[s] \/ roster'[s] = [roster[s] EXCEPT !.acad = 1]  BY <2>3
      <3>. QED BY <3>1, <3>2, <3>3 DEF RosterRow
    <2>5. DOMAIN roster' = DOMAIN roster /\ roster' \in [DOMAIN roster' -> RosterRow]  BY <2>3, <2>4
    <2>6. CalTyped'  BY <1>0, <2>1, <2>2, <2>5 DEF CalTyped
    <2>7. \A s \in DOMAIN roster' : WithCohort(roster'[s], entry'[s], cohorts') /\ OnTrack(roster'[s], entry'[s])
      <3>. SUFFICES ASSUME NEW s \in DOMAIN roster
                    PROVE  WithCohort(roster'[s], entry'[s], cohorts') /\ OnTrack(roster'[s], entry'[s])
        BY <2>5
      <3>1. WithCohort(roster[s], entry[s], cohorts) /\ OnTrack(roster[s], entry[s])  BY DEF CalInv
      <3>2. WithCohort(roster'[s], entry'[s], cohorts')  BY <2>1, <2>4, <3>1 DEF WithCohort
      <3>3. OnTrack(roster'[s], entry'[s])  BY <2>1, <2>4, <3>1 DEF OnTrack
      <3>. QED BY <3>2, <3>3
    <2>. QED BY <2>1, <2>6, <2>7 DEF CalInv
  <1>3. ASSUME NEW years \in {0, 1}, UpdateCourse(years) PROVE CalInv'
    <2>1. UNCHANGED <<roster, cohorts, period, advances, entry>>  BY <1>3 DEF UpdateCourse
    <2>2. levelYears' \in OrNull(Nat)  BY <1>3 DEF UpdateCourse, OrNull
    <2>3. CalTyped'  BY <1>0, <2>1, <2>2 DEF CalTyped
    <2>. QED BY <2>1, <2>3 DEF CalInv
  <1>4. CASE UNCHANGED calVars  BY <1>4 DEF CalInv, CalTyped, calVars
  <1>. QED BY <1>1, <1>2, <1>3, <1>4

\* The invariant holds of every run.
LEMMA CalInvHolds == CalendarSpec => []CalInv
  <1>1. CalInv /\ [CalendarNext]_calVars => CalInv'
    <2>. SUFFICES ASSUME CalInv, [CalendarNext]_calVars PROVE CalInv'  OBVIOUS
    <2>1. MaxYear \in Nat  BY CalendarAssumption
    <2>2. ASSUME NEW s \in Student, NEW year \in {Null, 1, MaxYear}, NEW sem \in {Null, 2}, NEW i \in Intake,
                 NEW c \in Cohort \cup {Null},
                 \/ \E level \in Level : CreateStudent(s, year, sem, level, i, c) \/ ImportRow(s, year, sem, level, i, c)
                 \/ \E status \in {"ACTIVE", "GRADUATED"} : UpdateStudent(s, year, sem, i, status, c)
          PROVE  CalInv'
      <3>1. year \in OrNull(Nat) /\ sem \in OrNull({1, 2}) /\ c \in OrNull(Cohort)  BY <2>1 DEF OrNull
      <3>2. Null \in Level  BY DEF Level
      <3>3. ASSUME NEW level \in Level, CreateStudent(s, year, sem, level, i, c) \/ ImportRow(s, year, sem, level, i, c)
            PROVE  CalInv'
        <4>1. "ACTIVE" \in {"ACTIVE", "GRADUATED"}  OBVIOUS
        <4>. QED BY <3>1, <3>3, <4>1, StudentKeeps
      <3>4. ASSUME NEW status \in {"ACTIVE", "GRADUATED"}, UpdateStudent(s, year, sem, i, status, c) PROVE CalInv'
        BY <3>1, <3>2, <3>4, StudentKeeps
      <3>. QED BY <2>2, <3>3, <3>4
    <2>. QED BY <2>2, InstitutionKeeps, SettingsKeep, CohortKeeps DEF CalendarNext
  <1>. QED BY <1>1, CalInvInit, PTL DEF CalendarSpec

\* For any students, cohorts, intakes, levels and bounds: a student placed in a cohort stays in its semester through
\* advances of the institution and of single intakes that overlap changes of an administrator; whoever was entered
\* with a year and a semester has studied one term for each advance; and no advance makes two cohorts the same
\* (advanceIntakeStudents, AdvanceAcademicPeriod, 036_offering_cohort_deferrable.sql).
THEOREM CalendarAgreesAlways == CalendarSpec => []CalendarAgrees
  <1>1. CalInv => CalendarAgrees
    <2>. SUFFICES ASSUME CalInv PROVE CalendarAgrees  OBVIOUS
    <2>1. InLockStep  BY DEF CalInv, WithCohort, InLockStep
    <2>2. OneTermPerAdvance  BY DEF CalInv, OnTrack, OneTermPerAdvance
    <2>3. ShiftNeverClashes  BY ShiftKeepsDistinct DEF CalInv, ShiftNeverClashes
    <2>. QED BY <2>1, <2>2, <2>3 DEF CalendarAgrees
  <1>. QED BY <1>1, CalInvHolds, PTL

-----------------------------------------------------------------------------
(* Employees: the inductive invariant *)

APunch == Staff \X Day \X Ticks \X EventType

\* What is stored is what was brought, each once; a sheet's late mark is that of its clocking
PunchesAreKept ==
    /\ punches \in Seq(APunch) /\ seen = {punches[k] : k \in 1 .. Len(punches)}
    /\ \A j, k \in 1 .. Len(punches) : punches[j] = punches[k] => j = k
    /\ imports = [i \in Import |-> imports[i]]
    /\ \A i \in Import : imports[i] # NoImport => imports[i].row \in APunch
DaysAreRight ==
    \A x \in DOMAIN days : days[x].clockIn \in Ticks \cup {None} /\ days[x].late = IsLate(days[x].clockIn)
StaffInv == PunchesAreKept /\ DaysAreRight

\* At the start nobody is registered and nothing is brought.
LEMMA StaffInit == EmployeesInit => StaffInv
  BY DEF EmployeesInit, StaffInv, PunchesAreKept, DaysAreRight

\* Every handler stores a punch once.
LEMMA PunchesStayKept == PunchesAreKept /\ [EmployeesNext]_empVars => PunchesAreKept'
  <1>. SUFFICES ASSUME PunchesAreKept, [EmployeesNext]_empVars PROVE PunchesAreKept'  OBVIOUS
  <1>1. CASE UNCHANGED <<punches, seen, imports>>  BY <1>1 DEF PunchesAreKept
  <1>2. ASSUME NEW i \in Import, NEW s \in Staff, NEW d \in Day, NEW t \in Ticks, NEW type \in EventType, NEW detail,
               TakeRow(i, s, d, t, type, detail)
        PROVE  PunchesAreKept'
    <2>. DEFINE r == [pc |-> "punch", row |-> <<s, d, t, type>>]
    <2>1. r.row \in APunch  BY DEF APunch
    <2>2. imports' = [imports EXCEPT ![i] = r] /\ UNCHANGED <<punches, seen>>  BY <1>2 DEF TakeRow
    <2>. HIDE DEF r
    <2>. QED BY <2>1, <2>2 DEF PunchesAreKept
  <1>3. ASSUME NEW i \in Import, WritePunch(i) PROVE PunchesAreKept'
    <2>. DEFINE p == imports[i].row
    <2>1. p \in APunch /\ seen' = seen \cup {p}  BY <1>3 DEF WritePunch, PunchesAreKept
    <2>2. imports' = [imports EXCEPT ![i] = NoImport]  BY <1>3 DEF WritePunch
    <2>3. CASE AlreadyThere(p)
      <3>1. punches' = punches  BY <1>3, <2>3 DEF WritePunch
      <3>2. seen' = seen  BY <2>1, <2>3 DEF AlreadyThere, PunchesAreKept
      <3>. QED BY <2>2, <3>1, <3>2 DEF PunchesAreKept
    <2>4. CASE ~AlreadyThere(p)
      <3>1. punches' = Append(punches, p)  BY <1>3, <2>4 DEF WritePunch
      <3>. HIDE DEF p
      <3>2. /\ punches' \in Seq(APunch) /\ Len(punches') = Len(punches) + 1 /\ Len(punches) \in Nat
            /\ punches'[Len(punches) + 1] = p /\ \A k \in 1 .. Len(punches) : punches'[k] = punches[k]
        BY <2>1, <3>1 DEF PunchesAreKept
      <3>3. \A k \in 1 .. Len(punches) : punches[k] # p  BY <2>4 DEF AlreadyThere
      <3>4. 1 .. Len(punches') = (1 .. Len(punches)) \cup {Len(punches) + 1}  BY <3>2
      <3>5. seen' = {punches'[k] : k \in 1 .. Len(punches')}  BY <2>1, <3>2, <3>4 DEF PunchesAreKept
      <3>6. \A j, k \in 1 .. Len(punches') : punches'[j] = punches'[k] => j = k
        BY <3>2, <3>3, <3>4 DEF PunchesAreKept
      <3>. QED BY <2>2, <3>2, <3>5, <3>6 DEF PunchesAreKept
    <2>. QED BY <2>3, <2>4
  <1>4. ASSUME NEW s \in Staff, NEW dept \in Dept, NEW detail \in {None, "known"},
               CreateEmployee(s, dept, detail) \/ ImportEmployees(s, dept, detail)
               \/ \E to \in Staff : UpdateEmployee(s, to, dept, detail)
        PROVE  PunchesAreKept'
    BY <1>1, <1>4 DEF CreateEmployee, ImportEmployees, UpdateEmployee
  <1>5. ASSUME NEW s \in Staff, DeleteEmployee(s) \/ \E d \in Day, t \in Ticks \cup {None} : ImportDay(s, d, t)
        PROVE  PunchesAreKept'
    BY <1>1, <1>5 DEF DeleteEmployee, ImportDay
  <1>6. CASE UNCHANGED empVars  BY <1>1, <1>6 DEF empVars
  <1>. QED BY <1>2, <1>3, <1>4, <1>5, <1>6 DEF EmployeesNext, ImportEmployeePunches, IngestAdminPunches

\* A sheet's row is written with its late mark.
LEMMA DaysStayRight == DaysAreRight /\ [EmployeesNext]_empVars => DaysAreRight'
  <1>. SUFFICES ASSUME DaysAreRight, [EmployeesNext]_empVars PROVE DaysAreRight'  OBVIOUS
  <1>1. CASE UNCHANGED days  BY <1>1 DEF DaysAreRight
  <1>2. ASSUME NEW s \in Staff, NEW d \in Day, NEW t \in Ticks \cup {None}, ImportDay(s, d, t) PROVE DaysAreRight'
    <2>. DEFINE r == [clockIn |-> t, late |-> IsLate(t), absent |-> t = None]
    <2>1. r.clockIn = t /\ r.late = IsLate(t)  OBVIOUS
    <2>2. days' = Enter(days, <<s, d>>, r)  BY <1>2 DEF ImportDay
    <2>. HIDE DEF r
    <2>. QED BY <2>1, <2>2 DEF DaysAreRight, Enter
  <1>3. CASE \A s \in Staff, d \in Day, t \in Ticks \cup {None} : ~ImportDay(s, d, t)
    <2>1. UNCHANGED days
      BY <1>3 DEF EmployeesNext, empVars, CreateEmployee, ImportEmployees, UpdateEmployee, DeleteEmployee,
                  ImportEmployeePunches, IngestAdminPunches, TakeRow, WritePunch
    <2>. QED BY <1>1, <2>1
  <1>. QED BY <1>2, <1>3

-----------------------------------------------------------------------------
(* Employees: what is reported *)

Brought(s, d) == {p \in seen : p[1] = s /\ p[2] = d}

\* As many rows are of a day as punches were brought of it.
LEMMA RowsAreBrought ==
    ASSUME PunchesAreKept, NEW s, NEW d
    PROVE  /\ IsFiniteSet(OnDay(s, d)) /\ IsFiniteSet(Brought(s, d))
           /\ Cardinality(OnDay(s, d)) = Cardinality(Brought(s, d))
           /\ Brought(s, d) = {punches[k] : k \in OnDay(s, d)}
  <1>. DEFINE B == Brought(s, d)  O == OnDay(s, d)
  <1>1. B = {punches[k] : k \in O}  BY DEF PunchesAreKept, OnDay, Brought
  <1>2. IsFiniteSet(O)
    <2>1. Len(punches) \in Nat  BY DEF PunchesAreKept
    <2>2. IsFiniteSet(1 .. Len(punches))  BY <2>1, FS_Interval
    <2>3. O \in SUBSET (1 .. Len(punches))  BY DEF OnDay
    <2>. QED BY <2>2, <2>3, FS_Subset
  <1>3. \A j, k \in O : punches[j] = punches[k] => j = k  BY DEF PunchesAreKept, OnDay
  <1>. DEFINE f == [k \in O |-> punches[k]]
  <1>. HIDE DEF B, O
  <1>4. f \in Bijection(O, B)  BY <1>1, <1>3 DEF Bijection, Injection, Surjection, IsInjective
  <1>5. ExistsBijection(O, B)  BY <1>4 DEF ExistsBijection
  <1>6. IsFiniteSet(B) /\ Cardinality(B) = Cardinality(O)  BY <1>2, <1>5, FS_Bijection
  <1>. QED BY <1>1, <1>2, <1>6 DEF B, O

\* One day has that day.
LEMMA OneDayRange == \A d \in Day : DateRange(d, d) = {d}
  <1>. SUFFICES ASSUME NEW d \in Day PROVE DateRange(d, d) = {d}  OBVIOUS
  <1>1. Day \subseteq Nat  BY EmployeesAssumption
  <1>2. d \in Nat /\ \A x \in Day : x \in Nat  BY <1>1
  <1>3. \A x \in Day : d <= x /\ x <= d <=> x = d  BY <1>2
  <1>. QED BY <1>3 DEF DateRange

\* Two different punches are two.
LEMMA TwoAreTwo ==
    ASSUME NEW S, IsFiniteSet(S), NEW a \in S, NEW b \in S, a # b
    PROVE  Cardinality(S) >= 2
  <1>1. IsFiniteSet(S \ {a}) /\ Cardinality(S \ {a}) = Cardinality(S) - 1  BY FS_RemoveElement
  <1>2. Cardinality(S \ {a}) # 0  BY <1>1, FS_EmptySet
  <1>3. Cardinality(S) \in Nat /\ Cardinality(S \ {a}) \in Nat  BY <1>1, FS_CardinalityType
  <1>. QED BY <1>1, <1>2, <1>3

\* A day is worked when two punches of it were brought.
LEMMA WorkedIsTwo ==
    ASSUME PunchesAreKept, NEW s, NEW d
    PROVE  WorkedOn(s, d) <=> Cardinality(OnDay(s, d)) >= 2
  <1>. SUFFICES ASSUME {"IN", "OUT"} \subseteq TypesOn(s, d) PROVE Cardinality(OnDay(s, d)) >= 2  BY DEF WorkedOn
  <1>1. PICK j \in OnDay(s, d) : punches[j][4] = "IN"  BY DEF TypesOn
  <1>2. PICK k \in OnDay(s, d) : punches[k][4] = "OUT"  BY DEF TypesOn
  <1>3. j # k  BY <1>1, <1>2
  <1>4. IsFiniteSet(OnDay(s, d))  BY RowsAreBrought
  <1>. QED BY <1>3, <1>4, TwoAreTwo

\* The report counts a punch once.
LEMMA ReportSurvives == PunchesAreKept => FiguresSurviveReimport
  <1>. SUFFICES ASSUME PunchesAreKept, NEW s \in Staff, NEW d \in Day
                PROVE  LET brought == {p \in seen : p[1] = s /\ p[2] = d} IN
                       /\ brought # {} => s \in ReportRows
                       /\ EmployeeAttendanceReport(s, d, d).present = (IF brought = {} THEN 0 ELSE 1)
                       /\ EmployeeAttendanceReport(s, d, d).worked = (IF Cardinality(brought) < 2 THEN 0 ELSE 1)
    BY DEF FiguresSurviveReimport
  <1>. DEFINE B == Brought(s, d)
  <1>1. /\ IsFiniteSet(OnDay(s, d)) /\ IsFiniteSet(B) /\ Cardinality(OnDay(s, d)) = Cardinality(B)
        /\ B = {punches[k] : k \in OnDay(s, d)}
    BY RowsAreBrought
  <1>2. B # {} => s \in ReportRows  BY DEF ReportRows, PunchesAreKept, Brought
  <1>3. PresentOn(s, d) <=> B # {}  BY <1>1 DEF PresentOn
  <1>4. WorkedOn(s, d) <=> Cardinality(B) >= 2  BY <1>1, WorkedIsTwo
  <1>5. Cardinality(B) \in Nat  BY <1>1, FS_CardinalityType
  <1>. HIDE DEF B
  <1>6. ASSUME NEW S, S \in {{}, {d}} PROVE Cardinality(S) = IF S = {} THEN 0 ELSE 1
    BY <1>6, FS_EmptySet, FS_Singleton
  <1>. DEFINE P == {x \in DateRange(d, d) : PresentOn(s, x)}  W == {x \in DateRange(d, d) : WorkedOn(s, x)}
  <1>7. P = (IF B = {} THEN {} ELSE {d}) /\ W = (IF Cardinality(B) < 2 THEN {} ELSE {d})
    BY <1>3, <1>4, <1>5, OneDayRange
  <1>8. EmployeeAttendanceReport(s, d, d).present = Cardinality(P) /\ EmployeeAttendanceReport(s, d, d).worked = Cardinality(W)
    BY DEF EmployeeAttendanceReport
  <1>. HIDE DEF P, W
  <1>9. Cardinality(P) = (IF B = {} THEN 0 ELSE 1) /\ Cardinality(W) = (IF Cardinality(B) < 2 THEN 0 ELSE 1)
    BY <1>6, <1>7
  <1>. QED BY <1>2, <1>8, <1>9 DEF B, Brought

\* Of any register, files, tablets and imports, however they overlap and are repeated: a punch counts once, a no-show
\* did not come, and the late list of a day is who clocked in late (employee_attendance.go, employee_sheet.go).
THEOREM ReportIsRightAlways == EmployeesSpec => []ReportIsRight
  <1>1. StaffInv /\ [EmployeesNext]_empVars => StaffInv'  BY PunchesStayKept, DaysStayRight DEF StaffInv
  <1>2. StaffInv => ReportIsRight
    <2>. SUFFICES ASSUME StaffInv PROVE ReportIsRight  OBVIOUS
    <2>1. FiguresSurviveReimport  BY ReportSurvives DEF StaffInv
    <2>2. NoShowsDidNotCome
      <3>. SUFFICES ASSUME NEW s \in ListEmployees, NEW d \in Day
                    PROVE  LET came == \E p \in seen : p[1] = s /\ p[2] = d /\ p[3] <= Deadline IN
                           /\ s \in NoShows(d) <=> ~came
                           /\ s \in Notified(d) => ~came /\ employees[s].detail # None
        BY DEF NoShowsDidNotCome
      <3>1. (\E p \in seen : p[1] = s /\ p[2] = d /\ p[3] <= Deadline) <=> CheckedInByDeadline(s, d)
        BY DEF StaffInv, PunchesAreKept, CheckedInByDeadline, OnDay
      <3>. QED BY <3>1 DEF NoShows, Notified
    <2>3. LateListIsRight
      <3>. SUFFICES ASSUME NEW d \in Day
                    PROVE  EmployeeDays(d, d, TRUE, FALSE) =
                           {x \in DOMAIN days : x[2] = d /\ days[x].clockIn \in {t \in Ticks : t > OnDuty}}
        BY DEF LateListIsRight
      <3>1. \A x \in DOMAIN days : days[x].late <=> days[x].clockIn \in {t \in Ticks : t > OnDuty}
        BY EmployeesAssumption DEF StaffInv, DaysAreRight, IsLate
      <3>2. \A x : x \in DateRange(d, d) <=> x = d  BY OneDayRange
      <3>. QED BY <3>1, <3>2 DEF EmployeeDays
    <2>. QED BY <2>1, <2>2, <2>3 DEF ReportIsRight
  <1>. QED BY StaffInit, <1>1, <1>2, PTL DEF EmployeesSpec

-----------------------------------------------------------------------------
(* UPanel: the inductive invariant *)

AState == {"listed", "open", "closed", "discarded"}
Seen(pcs) == [pc : pcs, sitting : [Sitting -> AState], signed : SUBSET Sitting]
SeenMarks(pcs) == [pc : pcs, sitting : [Sitting -> AState], signed : SUBSET Sitting, marks : SUBSET (Sitting \X PanelStudent)]
SeenAll == [pc : {"join"}, sitting : [Sitting -> AState], signed : SUBSET Sitting, marks : SUBSET (Sitting \X PanelStudent),
            enrolled : SUBSET PanelStudent, numbered : SUBSET PanelStudent]
AFetch == {NotFetching} \cup Seen({"records"}) \cup SeenMarks({"signins"}) \cup SeenAll

PanelTyped ==
    /\ sitting \in [Sitting -> AState] /\ signed \subseteq Sitting /\ marks \subseteq Sitting \X PanelStudent
    /\ enrolled \subseteq PanelStudent /\ numbered \subseteq PanelStudent

\* What a fetch has read is no later than the panel
IsPast(r, st, mk) ==
    /\ r.pc \in {"records", "signins", "join"} => \A s \in Sitting : r.sitting[s] = "closed" => st[s] = "closed"
    /\ r.pc \in {"signins", "join"} => r.marks \subseteq mk
FetchInv == fetch \in [Fetcher -> AFetch] /\ \A f \in Fetcher : IsPast(fetch[f], sitting, marks)

\* A row is of a check-in, of an absence from a sitting that closed, or of a lecturer
RowIsTrue(x, st, mk) ==
    \/ \E m \in mk : x.s = m[1] /\ x.who \in {<<"reg", m[2]>>, <<"uid", m[2]>>}
    \/ x.s \in Sitting /\ ~x.present /\ st[x.s] = "closed"
    \/ \E s \in Sitting : x.who = <<"staff", s>>
StoredInv == \A i \in DOMAIN stored : RowIsTrue(stored[i], sitting, marks)

\* After an import that saw the panel as it is, each check-in and each absence has its row
HasRow(rows, s, p, here) == \E i \in DOMAIN rows : rows[i].s = s /\ rows[i].who = p /\ rows[i].present = here
SettledInv ==
    settled => \A l \in enrolled, s \in Sitting :
        /\ sitting[s] # "discarded" /\ <<s, l>> \in marks => HasRow(stored, s, PersonID(l, numbered), TRUE)
        /\ sitting[s] = "closed" /\ <<s, l>> \notin marks => HasRow(stored, s, PersonID(l, numbered), FALSE)

ImportInv == PanelTyped /\ FetchInv /\ StoredInv /\ SettledInv

\* A fetch that has come so far has read that much.
LEMMA FormOfFetch ==
    ASSUME NEW r \in AFetch
    PROVE  /\ r.pc = "records" => r \in Seen({"records"})
           /\ r.pc = "signins" => r \in SeenMarks({"signins"})
           /\ r.pc = "join" => r \in SeenAll
  BY DEF AFetch, NotFetching, Seen, SeenMarks, SeenAll

\* At the start the panel lists sittings and nothing was read.
LEMMA ImportInit == UPanelInit => ImportInv
  <1>. SUFFICES ASSUME UPanelInit PROVE ImportInv  OBVIOUS
  <1>1. PanelTyped  BY DEF UPanelInit, PanelTyped, AState
  <1>2. FetchInv
    <2>1. NotFetching \in AFetch /\ NotFetching.pc = "none"  BY DEF AFetch, NotFetching
    <2>2. fetch = [f \in Fetcher |-> NotFetching]  BY DEF UPanelInit
    <2>. QED BY <2>1, <2>2 DEF FetchInv, IsPast
  <1>3. StoredInv /\ SettledInv  BY DEF UPanelInit, StoredInv, SettledInv
  <1>. QED BY <1>1, <1>2, <1>3 DEF ImportInv

\* The panel moves on: closed sittings stay closed and check-ins are added.
LEMMA PanelMovesOn ==
    ASSUME ImportInv, UNCHANGED <<fetch, stored>>, settled' = FALSE, PanelTyped', marks \subseteq marks',
           \A s \in Sitting : sitting[s] = "closed" => sitting'[s] = "closed"
    PROVE  ImportInv'
  <1>1. FetchInv'
    <2>1. \A f \in Fetcher : IsPast(fetch[f], sitting', marks')  BY DEF ImportInv, FetchInv, IsPast
    <2>. QED BY <2>1 DEF ImportInv, FetchInv
  <1>2. StoredInv'
    <2>1. SUFFICES ASSUME NEW i \in DOMAIN stored PROVE RowIsTrue(stored[i], sitting', marks')  BY DEF StoredInv
    <2>2. RowIsTrue(stored[i], sitting, marks)  BY DEF ImportInv, StoredInv
    <2>. QED BY <2>2 DEF RowIsTrue
  <1>. QED BY <1>1, <1>2 DEF ImportInv, SettledInv

\* Every step of the panel is one.
LEMMA PanelSteps ==
    ASSUME ImportInv,
           \/ \E l \in PanelStudent : PanelSignIn(l) \/ PanelNumber(l) \/ \E s \in Sitting : PanelCheckIn(l, s)
           \/ \E s \in Sitting : PanelSign(s) \/ PanelMove(s, "listed", "open")
                               \/ \E to \in {"closed", "discarded"} : PanelMove(s, "open", to)
    PROVE  ImportInv'
  <1>1. UNCHANGED <<fetch, stored>> /\ settled' = FALSE
    BY DEF PanelSignIn, PanelNumber, PanelCheckIn, PanelSign, PanelMove, panelMoves
  <1>2. PanelTyped' /\ marks \subseteq marks'
    <2>1. ASSUME NEW l \in PanelStudent, PanelSignIn(l) \/ PanelNumber(l)
          PROVE  PanelTyped' /\ marks \subseteq marks'
      BY <2>1 DEF PanelSignIn, PanelNumber, ImportInv, PanelTyped
    <2>4. ASSUME NEW l \in PanelStudent, NEW s \in Sitting, PanelCheckIn(l, s)
          PROVE  PanelTyped' /\ marks \subseteq marks'
      <3>1. marks' = marks \cup {<<s, l>>} /\ UNCHANGED <<sitting, signed, enrolled, numbered>>
        BY <2>4 DEF PanelCheckIn
      <3>2. <<s, l>> \in Sitting \X PanelStudent  OBVIOUS
      <3>. QED BY <3>1, <3>2 DEF ImportInv, PanelTyped
    <2>2. ASSUME NEW s \in Sitting, PanelSign(s) PROVE PanelTyped' /\ marks \subseteq marks'
      BY <2>2 DEF PanelSign, ImportInv, PanelTyped
    <2>3. ASSUME NEW s \in Sitting, NEW from, NEW to \in AState, PanelMove(s, from, to)
          PROVE  PanelTyped' /\ marks \subseteq marks'
      BY <2>3 DEF PanelMove, ImportInv, PanelTyped
    <2>. QED BY <2>1, <2>2, <2>3, <2>4 DEF AState
  <1>3. \A s \in Sitting : sitting[s] = "closed" => sitting'[s] = "closed"
    <2>1. ASSUME NEW s \in Sitting, NEW from \in {"listed", "open"}, NEW to, PanelMove(s, from, to)
          PROVE  \A x \in Sitting : sitting[x] = "closed" => sitting'[x] = "closed"
      BY <2>1 DEF PanelMove, ImportInv, PanelTyped
    <2>2. UNCHANGED sitting \/ \E s \in Sitting, from \in {"listed", "open"} : \E to : PanelMove(s, from, to)
      BY DEF PanelSignIn, PanelNumber, PanelCheckIn, PanelSign
    <2>. QED BY <2>1, <2>2
  <1>. QED BY <1>1, <1>2, <1>3, PanelMovesOn

\* A fetch reads on, or gives up, and nothing else changes.
LEMMA FetchGoesOn ==
    ASSUME ImportInv, NEW f \in Fetcher, NEW r \in AFetch, IsPast(r, sitting, marks),
           fetch' = [fetch EXCEPT ![f] = r], UNCHANGED <<panelVars, stored, settled>>
    PROVE  ImportInv'
  <1>1. FetchInv'  BY DEF ImportInv, FetchInv, panelVars
  <1>2. PanelTyped'  BY DEF ImportInv, PanelTyped, panelVars
  <1>3. StoredInv' /\ SettledInv'  BY DEF ImportInv, StoredInv, SettledInv, panelVars, HasRow
  <1>. QED BY <1>1, <1>2, <1>3 DEF ImportInv

\* Sessions are read before records, and records before sign-ins.
LEMMA FetchSteps ==
    ASSUME ImportInv, NEW f \in Fetcher, FetchSessions(f) \/ FetchRecords(f) \/ FetchSignIns(f) \/ FetchFails(f)
    PROVE  ImportInv'
  <1>0. UNCHANGED <<panelVars, stored, settled>>
    BY DEF FetchSessions, FetchRecords, FetchSignIns, FetchFails, fetchOnly
  <1>1. fetch[f] \in AFetch /\ IsPast(fetch[f], sitting, marks) /\ PanelTyped  BY DEF ImportInv, FetchInv
  <1>2. CASE FetchSessions(f)
    <2>. DEFINE r == [pc |-> "records", sitting |-> sitting, signed |-> signed]
    <2>1. r \in AFetch  BY <1>1 DEF AFetch, Seen, PanelTyped
    <2>2. IsPast(r, sitting, marks)  BY DEF IsPast
    <2>3. fetch' = [fetch EXCEPT ![f] = r]  BY <1>2 DEF FetchSessions, Got
    <2>. HIDE DEF r
    <2>. QED BY <1>0, <2>1, <2>2, <2>3, FetchGoesOn
  <1>3. CASE FetchRecords(f)
    <2>. DEFINE r == [pc |-> "signins", sitting |-> fetch[f].sitting, signed |-> fetch[f].signed, marks |-> marks]
    <2>1. fetch[f] \in Seen({"records"})  BY <1>1, <1>3, FormOfFetch DEF FetchRecords
    <2>2. r \in AFetch  BY <1>1, <2>1 DEF AFetch, Seen, SeenMarks, PanelTyped
    <2>3. IsPast(r, sitting, marks)  BY <1>1, <2>1 DEF IsPast, Seen
    <2>4. fetch' = [fetch EXCEPT ![f] = r]  BY <1>3 DEF FetchRecords, Got
    <2>. HIDE DEF r
    <2>. QED BY <1>0, <2>2, <2>3, <2>4, FetchGoesOn
  <1>4. CASE FetchSignIns(f)
    <2>. DEFINE r == [pc |-> "join", sitting |-> fetch[f].sitting, signed |-> fetch[f].signed, marks |-> fetch[f].marks,
                      enrolled |-> enrolled, numbered |-> numbered]
    <2>1. fetch[f] \in SeenMarks({"signins"})  BY <1>1, <1>4, FormOfFetch DEF FetchSignIns
    <2>2. r \in AFetch  BY <1>1, <2>1 DEF AFetch, SeenAll, SeenMarks, PanelTyped
    <2>3. IsPast(r, sitting, marks)  BY <1>1, <2>1 DEF IsPast, SeenMarks
    <2>4. fetch' = [fetch EXCEPT ![f] = r]  BY <1>4 DEF FetchSignIns, Got
    <2>. HIDE DEF r
    <2>. QED BY <1>0, <2>2, <2>3, <2>4, FetchGoesOn
  <1>5. CASE FetchFails(f)
    <2>1. NotFetching \in AFetch /\ IsPast(NotFetching, sitting, marks)  BY DEF AFetch, NotFetching, IsPast
    <2>2. fetch' = [fetch EXCEPT ![f] = NotFetching]  BY <1>5 DEF FetchFails, Got
    <2>. QED BY <1>0, <2>1, <2>2, FetchGoesOn
  <1>. QED BY <1>2, <1>3, <1>4, <1>5

-----------------------------------------------------------------------------
(* UPanel: the rows of an import *)

ImportRows(r) == JoinStudents(r) \cup AbsentSessions(r) \cup JoinLecturers(r)

\* An external id is of one row.
LEMMA IdsAreOnes == ASSUME NEW r, NEW x \in ImportRows(r), NEW y \in ImportRows(r), x.id = y.id PROVE x = y
  <1>1. ASSUME NEW z \in ImportRows(r)
        PROVE  \/ z \in JoinStudents(r) /\ z.id[1] = "mark"
               \/ z \in AbsentSessions(r) /\ z.id[1] = "absent"
               \/ z \in JoinLecturers(r) /\ z.id[1] \in {"list", "lecture"}
    BY DEF ImportRows, JoinStudents, AbsentSessions, JoinLecturers
  <1>2. CASE x \in JoinStudents(r) /\ y \in JoinStudents(r)
    <2>1. PICK m \in r.marks : x = [id |-> <<"mark", m[1], m[2]>>, s |-> m[1], who |-> PersonID(m[2], r.numbered), present |-> TRUE]
      BY <1>2 DEF JoinStudents
    <2>2. PICK n \in r.marks : y = [id |-> <<"mark", n[1], n[2]>>, s |-> n[1], who |-> PersonID(n[2], r.numbered), present |-> TRUE]
      BY <1>2 DEF JoinStudents
    <2>3. m[1] = n[1] /\ m[2] = n[2]  BY <2>1, <2>2
    <2>. QED BY <2>1, <2>2, <2>3
  <1>3. CASE x \in AbsentSessions(r) /\ y \in AbsentSessions(r)
    <2>1. PICK m : x = [id |-> <<"absent", m[1], m[2]>>, s |-> m[1], who |-> PersonID(m[2], r.numbered), present |-> FALSE]
      BY <1>3 DEF AbsentSessions
    <2>2. PICK n : y = [id |-> <<"absent", n[1], n[2]>>, s |-> n[1], who |-> PersonID(n[2], r.numbered), present |-> FALSE]
      BY <1>3 DEF AbsentSessions
    <2>3. m[1] = n[1] /\ m[2] = n[2]  BY <2>1, <2>2
    <2>. QED BY <2>1, <2>2, <2>3
  <1>4. CASE x \in JoinLecturers(r) /\ y \in JoinLecturers(r)
    <2>1. PICK a \in Sitting : x = [id |-> <<IF r.sitting[a] = "listed" THEN "list" ELSE "lecture", a>>, s |-> a,
                                    who |-> <<"staff", a>>, present |-> TRUE]
      BY <1>4 DEF JoinLecturers
    <2>2. PICK b \in Sitting : y = [id |-> <<IF r.sitting[b] = "listed" THEN "list" ELSE "lecture", b>>, s |-> b,
                                    who |-> <<"staff", b>>, present |-> TRUE]
      BY <1>4 DEF JoinLecturers
    <2>3. x.id[2] = a /\ y.id[2] = b  BY <2>1, <2>2
    <2>4. a = b  BY <2>3
    <2>. QED BY <2>1, <2>2, <2>4
  <1>. QED BY <1>1, <1>2, <1>3, <1>4

\* What is stored after an import is its rows, and what was stored before.
LEMMA UpsertedRows ==
    ASSUME NEW rows, \A x, y \in rows : x.id = y.id => x = y
    PROVE  /\ \A x \in rows : x.id \in DOMAIN Upserted(rows) /\ Upserted(rows)[x.id] = x
           /\ \A i \in DOMAIN Upserted(rows) :
                 Upserted(rows)[i] \in rows \/ (i \in DOMAIN stored /\ Upserted(rows)[i] = stored[i])
  <1>1. ASSUME NEW x \in rows PROVE x.id \in DOMAIN Upserted(rows) /\ Upserted(rows)[x.id] = x
    <2>1. x.id \in DOMAIN Upserted(rows)  BY DEF Upserted
    <2>2. Upserted(rows)[x.id] = CHOOSE y \in rows : y.id = x.id  BY DEF Upserted
    <2>3. (CHOOSE y \in rows : y.id = x.id) = x  OBVIOUS
    <2>. QED BY <2>1, <2>2, <2>3
  <1>2. ASSUME NEW i \in DOMAIN Upserted(rows)
        PROVE  Upserted(rows)[i] \in rows \/ (i \in DOMAIN stored /\ Upserted(rows)[i] = stored[i])
    <2>1. CASE \E x \in rows : x.id = i
      <3>1. PICK x \in rows : x.id = i  BY <2>1
      <3>. QED BY <1>1, <3>1
    <2>2. CASE ~\E x \in rows : x.id = i
      <3>1. i \in DOMAIN stored /\ Upserted(rows)[i] = stored[i]  BY <2>2 DEF Upserted
      <3>. QED BY <3>1
    <2>. QED BY <2>1, <2>2
  <1>. QED BY <1>1, <1>2

\* The rows of a fetch that has read all are true of the panel, then and later.
LEMMA RowsAreTrue ==
    ASSUME NEW r \in SeenAll, IsPast(r, sitting, marks), NEW x \in ImportRows(r)
    PROVE  RowIsTrue(x, sitting, marks)
  <1>1. r.marks \subseteq marks /\ \A s \in Sitting : r.sitting[s] = "closed" => sitting[s] = "closed"
    BY DEF IsPast, SeenAll
  <1>2. CASE x \in JoinStudents(r)
    <2>1. PICK m \in r.marks : x = [id |-> <<"mark", m[1], m[2]>>, s |-> m[1], who |-> PersonID(m[2], r.numbered), present |-> TRUE]
      BY <1>2 DEF JoinStudents
    <2>. QED BY <1>1, <2>1 DEF RowIsTrue, PersonID
  <1>3. CASE x \in AbsentSessions(r)
    <2>1. PICK p \in Sitting \X r.enrolled :
             /\ x = [id |-> <<"absent", p[1], p[2]>>, s |-> p[1], who |-> PersonID(p[2], r.numbered), present |-> FALSE]
             /\ r.sitting[p[1]] = "closed"
      BY <1>3 DEF AbsentSessions, SessionCompleted
    <2>. QED BY <1>1, <2>1 DEF RowIsTrue
  <1>4. CASE x \in JoinLecturers(r)  BY <1>4 DEF JoinLecturers, RowIsTrue
  <1>. QED BY <1>2, <1>3, <1>4 DEF ImportRows

\* An import stores what is true, and if it saw the panel as it is, all of it.
LEMMA ImportStep ==
    ASSUME ImportInv, NEW f \in Fetcher, ImportPage(f)
    PROVE  ImportInv'
  <1>. DEFINE r == fetch[f]  rows == ImportRows(r)
  <1>1. r \in SeenAll /\ IsPast(r, sitting, marks)
    BY FormOfFetch DEF ImportPage, ImportInv, FetchInv
  <1>2. /\ stored' = Upserted(rows) /\ UNCHANGED panelVars
        /\ settled' => /\ r.sitting = sitting /\ r.marks = marks /\ r.enrolled = enrolled
                       /\ r.numbered = numbered
        /\ fetch' = [fetch EXCEPT ![f] = NotFetching]
    BY DEF ImportPage, ImportRows, Got
  <1>. HIDE DEF r
  <1>3. /\ \A x \in rows : x.id \in DOMAIN stored' /\ stored'[x.id] = x
        /\ \A i \in DOMAIN stored' : stored'[i] \in rows \/ (i \in DOMAIN stored /\ stored'[i] = stored[i])
    <2>1. \A x, y \in rows : x.id = y.id => x = y  BY IdsAreOnes
    <2>. HIDE DEF rows
    <2>. QED BY <1>2, <2>1, UpsertedRows
  <1>4. PanelTyped /\ PanelTyped'  BY <1>2 DEF ImportInv, PanelTyped, panelVars
  <1>5. FetchInv'
    <2>1. NotFetching \in AFetch /\ IsPast(NotFetching, sitting, marks)  BY DEF AFetch, NotFetching, IsPast
    <2>. QED BY <1>2, <2>1 DEF ImportInv, FetchInv, panelVars
  <1>6. StoredInv'
    <2>1. ASSUME NEW i \in DOMAIN stored' PROVE RowIsTrue(stored'[i], sitting, marks)
      <3>1. CASE stored'[i] \in rows  BY <1>1, <3>1, RowsAreTrue
      <3>2. CASE i \in DOMAIN stored /\ stored'[i] = stored[i]  BY <3>2 DEF ImportInv, StoredInv
      <3>. QED BY <1>3, <3>1, <3>2
    <2>. QED BY <1>2, <2>1 DEF StoredInv, panelVars
  <1>7. ASSUME settled', NEW l \in enrolled, NEW s \in Sitting,
               sitting[s] # "discarded", <<s, l>> \in marks
        PROVE  HasRow(stored', s, PersonID(l, numbered), TRUE)
    <2>. DEFINE m == <<s, l>>
                x == [id |-> <<"mark", m[1], m[2]>>, s |-> m[1], who |-> PersonID(m[2], r.numbered), present |-> TRUE]
    <2>1. m \in {n \in r.marks : r.sitting[n[1]] # "discarded"}  BY <1>2, <1>7
    <2>2. x \in rows  BY <2>1 DEF ImportRows, JoinStudents
    <2>3. x.s = s /\ x.who = PersonID(l, numbered) /\ x.present = TRUE  BY <1>2, <1>7
    <2>. HIDE DEF x, rows
    <2>. QED BY <1>3, <2>2, <2>3 DEF HasRow
  <1>8. ASSUME settled', NEW l \in enrolled, NEW s \in Sitting,
               sitting[s] = "closed", <<s, l>> \notin marks
        PROVE  HasRow(stored', s, PersonID(l, numbered), FALSE)
    <2>. DEFINE p == <<s, l>>
                x == [id |-> <<"absent", p[1], p[2]>>, s |-> p[1], who |-> PersonID(p[2], r.numbered), present |-> FALSE]
    <2>1. p \in {q \in Sitting \X r.enrolled : SessionCompleted(r, q[1]) /\ DidNotCheckIn(r, q[1], q[2])}
      BY <1>2, <1>8 DEF SessionCompleted, DidNotCheckIn
    <2>2. x \in rows  BY <2>1 DEF ImportRows, AbsentSessions
    <2>3. x.s = s /\ x.who = PersonID(l, numbered) /\ x.present = FALSE  BY <1>2, <1>8
    <2>. HIDE DEF x, rows
    <2>. QED BY <1>3, <2>2, <2>3 DEF HasRow
  <1>9. SettledInv'  BY <1>2, <1>7, <1>8 DEF SettledInv, panelVars
  <1>. QED BY <1>4, <1>5, <1>6, <1>9 DEF ImportInv

\* Rows that are true, with a row of each check-in and absence, give the panel's figures.
LEMMA FiguresFromRows == ImportInv => SettledFiguresAreRight
  <1>. SUFFICES ASSUME ImportInv, settled, NEW l \in enrolled
       PROVE  LET p == PersonID(l, numbered)
                  live == {s \in Sitting : sitting[s] \in {"open", "closed"}}
                  mine == {s \in live : <<s, l>> \in marks} IN
              /\ Attended(p) \cap live = mine
              /\ Held(p) \cap live = mine \cup {s \in live : sitting[s] = "closed"}
    BY DEF SettledFiguresAreRight
  <1>. DEFINE p == PersonID(l, numbered)
              live == {s \in Sitting : sitting[s] \in {"open", "closed"}}
              mine == {s \in live : <<s, l>> \in marks}
  <1>1. p = <<"reg", l>> \/ p = <<"uid", l>>  BY DEF PersonID
  <1>2. ASSUME NEW i \in DOMAIN stored, stored[i].who = p
        PROVE  \/ <<stored[i].s, l>> \in marks
               \/ sitting[stored[i].s] = "closed" /\ ~stored[i].present
    <2>1. RowIsTrue(stored[i], sitting, marks)  BY DEF ImportInv, StoredInv
    <2>2. ASSUME NEW m \in marks, stored[i].s = m[1], stored[i].who \in {<<"reg", m[2]>>, <<"uid", m[2]>>}
          PROVE  <<stored[i].s, l>> \in marks
      <3>1. m[2] = l  BY <1>1, <1>2, <2>2
      <3>2. m = <<m[1], m[2]>>  BY DEF ImportInv, PanelTyped
      <3>. QED BY <2>2, <3>1, <3>2
    <2>3. ASSUME NEW s \in Sitting, stored[i].who = <<"staff", s>> PROVE FALSE  BY <1>1, <1>2, <2>3
    <2>. QED BY <2>1, <2>2, <2>3 DEF RowIsTrue
  <1>3. ASSUME NEW s \in mine PROVE \E i \in DOMAIN stored : stored[i].s = s /\ stored[i].who = p /\ stored[i].present
    <2>1. HasRow(stored, s, p, TRUE)  BY <1>3 DEF ImportInv, SettledInv
    <2>. QED BY <2>1 DEF HasRow
  <1>4. ASSUME NEW s \in live, sitting[s] = "closed" PROVE \E i \in DOMAIN stored : stored[i].s = s /\ stored[i].who = p
    <2>1. HasRow(stored, s, p, TRUE) \/ HasRow(stored, s, p, FALSE)  BY <1>4 DEF ImportInv, SettledInv
    <2>. QED BY <2>1 DEF HasRow
  <1>5. \A s : s \in Attended(p) <=> \E i \in DOMAIN stored : stored[i].s = s /\ stored[i].who = p /\ stored[i].present
    BY DEF Attended, IsPresent
  <1>6. \A s : s \in Held(p) <=> \E i \in DOMAIN stored : stored[i].s = s /\ stored[i].who = p
    BY DEF Held
  <1>. HIDE DEF p
  <1>7. Attended(p) \cap live = mine  BY <1>2, <1>3, <1>5
  <1>8. Held(p) \cap live = mine \cup {s \in live : sitting[s] = "closed"}  BY <1>2, <1>3, <1>4, <1>6
  <1>. QED BY <1>7, <1>8 DEF p

-----------------------------------------------------------------------------
(* UPanel: the pages of a collection *)

DistinctDocs(d) == \A i, j \in 1 .. Len(d) : d[i] = d[j] => i = j
\* What was read is the newest documents, and the cursor is at the oldest of them
PrefixRead(d, g, c, n) == n <= Len(d) /\ g = 1 .. n /\ \A i \in 1 .. Len(d) : d[i] < c <=> i > n
PagingInv ==
    /\ docs \in Seq(orders) /\ \A i, j \in 1 .. Len(docs) : i < j => docs[i] >= docs[j]
    /\ page \in 0 .. MaxPages
    /\ DistinctDocs(docs) => \/ page = MaxPages /\ got = 1 .. Len(docs)
                         \/ PrefixRead(docs, got, cursor, page * PageSize)

\* Nothing is read at the start, and the cursor is past the newest document.
LEMMA PagingInit == UPanelInit => PagingInv
  <1>. SUFFICES ASSUME UPanelInit PROVE PagingInv  OBVIOUS
  <1>0. MaxOrder \in Nat /\ MaxPages \in Nat /\ PageSize \in Nat  BY UPanelAssumption
  <1>1. docs \in Seq(orders) /\ \A i, j \in 1 .. Len(docs) : i < j => docs[i] >= docs[j]
    <2>1. CASE half = "import"
      <3>1. docs = <<>>  BY <2>1 DEF UPanelInit
      <3>2. Len(docs) = 0  BY <3>1
      <3>. QED BY <3>1, <3>2
    <2>2. CASE half # "import"
      <3>1. docs \in UNION {[1 .. n -> orders] : n \in 0 .. MaxDocs} /\ \A i, j \in 1 .. Len(docs) : i < j => docs[i] >= docs[j]
        BY <2>2 DEF UPanelInit
      <3>2. PICK n \in 0 .. MaxDocs : docs \in [1 .. n -> orders]  BY <3>1
      <3>3. n \in Nat  BY <3>2, UPanelAssumption
      <3>. QED BY <3>1, <3>2, <3>3, SeqDef
    <2>. QED BY <2>1, <2>2
  <1>2. page = 0 /\ cursor = MaxOrder + 1 /\ got = {}  BY DEF UPanelInit
  <1>3. PrefixRead(docs, got, cursor, page * PageSize)
    <2>1. page * PageSize = 0  BY <1>0, <1>2
    <2>2. Len(docs) \in Nat /\ \A i \in 1 .. Len(docs) : docs[i] \in 1 .. MaxOrder
      BY <1>1, LenProperties, ElementOfSeq DEF orders
    <2>. QED BY <1>0, <1>2, <2>1, <2>2 DEF PrefixRead
  <1>. QED BY <1>0, <1>1, <1>2, <1>3 DEF PagingInv

\* Of a prefix read, the next answer is the documents that follow it, up to a page.
LEMMA AnswerIsNext ==
    ASSUME NEW n \in Nat, docs \in Seq(orders), PrefixRead(docs, got, cursor, n),
           NEW m \in Nat, m = IF n + PageSize <= Len(docs) THEN n + PageSize ELSE Len(docs)
    PROVE  Answer = (n + 1) .. m /\ Cardinality(Answer) = m - n
  <1>0. PageSize \in Nat /\ Len(docs) \in Nat /\ n <= Len(docs)
    BY UPanelAssumption, LenProperties DEF PrefixRead
  <1>1. ASSUME NEW i \in 1 .. Len(docs), i > n
        PROVE  Cardinality({j \in 1 .. i : docs[j] < cursor}) = i - n
    <2>1. {j \in 1 .. i : docs[j] < cursor} = (n + 1) .. i  BY <1>0, <1>1 DEF PrefixRead
    <2>2. Cardinality((n + 1) .. i) = i - n
      <3>. DEFINE a == n + 1
      <3>1. a \in Int /\ i \in Int /\ a <= i /\ i - a + 1 = i - n  BY <1>0, <1>1
      <3>. HIDE DEF a
      <3>2. Cardinality(a .. i) = i - a + 1  BY <3>1, FS_Interval
      <3>. QED BY <3>1, <3>2 DEF a
    <2>. QED BY <2>1, <2>2
  <1>2. \A i \in 1 .. Len(docs) : i \in Answer <=> i > n /\ i - n <= PageSize
    BY <1>1 DEF Answer, PrefixRead
  <1>3. Answer \subseteq 1 .. Len(docs)  BY DEF Answer
  <1>4. Answer = (n + 1) .. m
    <2>. HIDE DEF Answer
    <2>1. \A i : i \in (n + 1) .. m <=> i \in 1 .. Len(docs) /\ i > n /\ i - n <= PageSize  BY <1>0
    <2>. QED BY <1>2, <1>3, <2>1
  <1>5. Cardinality((n + 1) .. m) = m - n
    <2>. DEFINE a == n + 1
    <2>1. a \in Int /\ m \in Int /\ m >= n /\ (a > m => m - n = 0) /\ m - a + 1 = m - n  BY <1>0
    <2>. HIDE DEF a
    <2>2. Cardinality(a .. m) = IF a > m THEN 0 ELSE m - a + 1  BY <2>1, FS_Interval
    <2>. QED BY <2>1, <2>2 DEF a
  <1>. QED BY <1>4, <1>5

\* The greatest of an interval is its end.
LEMMA MaxOfInterval == ASSUME NEW a \in Int, NEW b \in Int, a <= b PROVE Max(a .. b) = b
  BY DEF Max

\* A page reads the next of the collection, and a short or an empty one is the end.
LEMMA PageStep == ASSUME PagingInv, NextPage PROVE PagingInv'
  <1>0. PageSize \in Nat \ {0} /\ MaxPages \in Nat \ {0} /\ Len(docs) \in Nat
    BY UPanelAssumption, LenProperties DEF PagingInv
  <1>1. page \in 0 .. MaxPages /\ page < MaxPages /\ UNCHANGED docs /\ got' = got \cup Answer
    BY DEF PagingInv, NextPage
  <1>2. CASE DistinctDocs(docs)
    <2>. DEFINE n == page * PageSize
                m == IF n + PageSize <= Len(docs) THEN n + PageSize ELSE Len(docs)
    <2>1. n \in Nat /\ (page + 1) * PageSize = n + PageSize  BY <1>0, <1>1
    <2>2. PrefixRead(docs, got, cursor, n)  BY <1>0, <1>1, <1>2 DEF PagingInv
    <2>3. m \in Nat /\ n <= m /\ m <= Len(docs)  BY <1>0, <2>1, <2>2 DEF PrefixRead
    <2>. HIDE DEF n
    <2>4. Answer = (n + 1) .. m /\ Cardinality(Answer) = m - n  BY <2>1, <2>2, <2>3, AnswerIsNext DEF PagingInv
    <2>5. got' = 1 .. m  BY <1>1, <2>1, <2>2, <2>3, <2>4 DEF PrefixRead
    <2>6. CASE LastPage(Cardinality(Answer)) \/ Answer \subseteq got
      <3>1. page' = MaxPages /\ UNCHANGED cursor  BY <2>6 DEF NextPage
      <3>2. m = Len(docs)
        <4>1. CASE LastPage(Cardinality(Answer))  BY <1>0, <2>1, <2>3, <2>4, <4>1 DEF LastPage
        <4>2. CASE Answer \subseteq got
          <5>1. got = 1 .. n  BY <2>2 DEF PrefixRead
          <5>2. ~(n < m)
            <6>1. n < m => m \in Answer /\ m \notin got  BY <2>1, <2>3, <2>4, <5>1
            <6>. QED BY <4>2, <6>1
          <5>. QED BY <1>0, <2>1, <2>3, <5>2
        <4>. QED BY <2>6, <4>1, <4>2
      <3>. QED BY <1>0, <1>1, <2>5, <3>1, <3>2 DEF PagingInv
    <2>7. CASE ~(LastPage(Cardinality(Answer)) \/ Answer \subseteq got)
      <3>1. page' = page + 1 /\ cursor' = docs[Max(Answer)]  BY <2>7 DEF NextPage
      <3>2. m = n + PageSize /\ n < m  BY <1>0, <2>1, <2>3, <2>4, <2>7 DEF LastPage
      <3>. HIDE DEF m
      <3>3. Max(Answer) = m
        <4>. DEFINE a == n + 1
        <4>1. a \in Int /\ m \in Int /\ a <= m /\ Answer = a .. m  BY <2>1, <2>3, <2>4, <3>2
        <4>. HIDE DEF a
        <4>. QED BY <4>1, MaxOfInterval
      <3>4. \A i \in 1 .. Len(docs) : docs[i] \in Int
        BY ElementOfSeq, UPanelAssumption DEF PagingInv, orders
      <3>5. m \in 1 .. Len(docs)  BY <2>1, <2>3, <3>2
      <3>6. \A i \in 1 .. Len(docs) : docs[i] < docs[m] <=> i > m
        <4>1. SUFFICES ASSUME NEW i \in 1 .. Len(docs) PROVE docs[i] < docs[m] <=> i > m  OBVIOUS
        <4>2. CASE i > m
          <5>1. docs[m] >= docs[i] /\ docs[m] # docs[i]  BY <1>2, <3>5, <4>2 DEF PagingInv, DistinctDocs
          <5>. QED BY <3>4, <3>5, <4>2, <5>1
        <4>3. CASE i < m
          <5>1. docs[i] >= docs[m]  BY <3>5, <4>3 DEF PagingInv
          <5>. QED BY <3>4, <3>5, <4>3, <5>1
        <4>4. CASE i = m  BY <3>4, <3>5, <4>4
        <4>. QED BY <3>5, <4>2, <4>3, <4>4
      <3>7. PrefixRead(docs, got', cursor', m)  BY <2>3, <2>5, <3>1, <3>3, <3>6 DEF PrefixRead
      <3>8. m = page' * PageSize  BY <2>1, <3>1, <3>2
      <3>9. page' \in 0 .. MaxPages  BY <1>0, <1>1, <3>1
      <3>. QED BY <1>1, <3>7, <3>8, <3>9 DEF PagingInv
    <2>. QED BY <2>6, <2>7
  <1>3. CASE ~DistinctDocs(docs)
    <2>1. page' \in 0 .. MaxPages  BY <1>0, <1>1 DEF NextPage
    <2>. QED BY <1>1, <1>3, <2>1 DEF PagingInv
  <1>. QED BY <1>2, <1>3

-----------------------------------------------------------------------------
(* UPanel: the figures are the panel's *)

\* The two halves are of different variables, and each step is one of its half.
LEMMA PanelInvStep ==
    ASSUME ImportInv, PagingInv, [UPanelNext]_upanelVars
    PROVE  ImportInv' /\ PagingInv'
  <1>1. CASE UNCHANGED upanelVars
    <2>1. UNCHANGED <<panelVars, fetch, stored, settled, pageVars>>  BY <1>1 DEF upanelVars
    <2>. QED BY <2>1 DEF ImportInv, PanelTyped, FetchInv, StoredInv, SettledInv, HasRow, PagingInv, panelVars, pageVars
  <1>2. CASE NextPage
    <2>1. UNCHANGED <<panelVars, fetch, stored, settled>>  BY <1>2 DEF NextPage
    <2>2. ImportInv'  BY <2>1 DEF ImportInv, PanelTyped, FetchInv, StoredInv, SettledInv, HasRow, panelVars
    <2>. QED BY <1>2, <2>2, PageStep
  <1>3. ASSUME UNCHANGED pageVars PROVE PagingInv'  BY <1>3 DEF PagingInv, pageVars
  <1>4. CASE \/ \E l \in PanelStudent : PanelSignIn(l) \/ PanelNumber(l) \/ \E s \in Sitting : PanelCheckIn(l, s)
             \/ \E s \in Sitting : PanelSign(s) \/ PanelMove(s, "listed", "open")
                                 \/ \E to \in {"closed", "discarded"} : PanelMove(s, "open", to)
    <2>1. UNCHANGED pageVars
      BY <1>4 DEF PanelSignIn, PanelNumber, PanelCheckIn, PanelSign, PanelMove, panelMoves
    <2>. QED BY <1>3, <1>4, <2>1, PanelSteps
  <1>5. ASSUME NEW f \in Fetcher, FetchSessions(f) \/ FetchRecords(f) \/ FetchSignIns(f) \/ FetchFails(f)
        PROVE  ImportInv' /\ PagingInv'
    <2>1. UNCHANGED pageVars
      BY <1>5 DEF FetchSessions, FetchRecords, FetchSignIns, FetchFails, fetchOnly
    <2>. QED BY <1>3, <1>5, <2>1, FetchSteps
  <1>6. ASSUME NEW f \in Fetcher, ImportPage(f) PROVE ImportInv' /\ PagingInv'
    <2>1. UNCHANGED pageVars  BY <1>6 DEF ImportPage
    <2>. QED BY <1>3, <1>6, <2>1, ImportStep
  <1>. QED BY <1>1, <1>2, <1>4, <1>5, <1>6 DEF UPanelNext

\* A short answer, an empty one or the last page allowed ends the loop with all that was there.
LEMMA WholeIsRead == PagingInv => PagesReachAll
  <1>. SUFFICES ASSUME PagingInv, page = MaxPages, Len(docs) < PageSize * MaxPages, DistinctDocs(docs)
       PROVE  got = 1 .. Len(docs)
    BY DEF PagesReachAll, DistinctDocs
  <1>0. PageSize \in Nat /\ MaxPages \in Nat /\ Len(docs) \in Nat  BY UPanelAssumption, LenProperties DEF PagingInv
  <1>. DEFINE n == page * PageSize
  <1>1. n \in Nat /\ n = PageSize * MaxPages  BY <1>0
  <1>2. got = 1 .. Len(docs) \/ n <= Len(docs)
    <2>. HIDE DEF n
    <2>1. got = 1 .. Len(docs) \/ PrefixRead(docs, got, cursor, n)  BY DEF PagingInv, n
    <2>. QED BY <2>1 DEF PrefixRead
  <1>. HIDE DEF n
  <1>. QED BY <1>0, <1>1, <1>2

\* Of any panel, any readers and any page size: an import that saw the panel as it is leaves every student with the
\* panel's figures, under the id they have now, and a collection is read whole (client.go, fetchDocs, ImportPage).
THEOREM ImportIsRightAlways == UPanelSpec => []ImportIsRight
  <1>1. UPanelInit => ImportInv /\ PagingInv  BY ImportInit, PagingInit
  <1>2. ImportInv /\ PagingInv /\ [UPanelNext]_upanelVars => ImportInv' /\ PagingInv'  BY PanelInvStep
  <1>3. ImportInv /\ PagingInv => ImportIsRight  BY FiguresFromRows, WholeIsRead DEF ImportIsRight
  <1>. QED BY <1>1, <1>2, <1>3, PTL DEF UPanelSpec
=============================================================================
