--------------------------- MODULE CheckinProofs ---------------------------
(***************************************************************************)
(* Machine-checked proofs about Checkin, for any number of students,       *)
(* devices, sessions and request threads.                                  *)
(*                                                                         *)
(* The numbering of the ledger is not inductive by itself: a thread        *)
(* computes its sequence number in one step (Check) and uses it in a later *)
(* one (Append).  What bridges the two is the monitor: between them no     *)
(* other thread is inside bindAndRecord, so what the thread read is still  *)
(* true when it writes.  LockInv and PendingInv say exactly that.          *)
(***************************************************************************)
EXTENDS Checkin, FiniteSetTheorems, TLAPS

\* A thread that has taken a request has one.
JobInv == \A r \in Requests : pc[r] # "idle" => job[r] \in Job

\* The threads inside bindAndRecord are the one that holds the monitor.
LockInv == \A r \in Requests : pc[r] \in Inside <=> monitor = r

\* A thread about to append still has the next number, for a student who is
\* not in the ledger and (with the lock on) a device nobody else used.
PendingInv ==
    \A r \in Requests : pc[r] = "append" =>
        /\ seq[r] = AttendanceCount(job[r].session) + 1
        /\ ~HasAttendance(job[r].session, job[r].student)
        /\ EnforceDeviceLock =>
             ~DeviceUsedByOther(job[r].session, job[r].device, job[r].student)

FiniteInv == \A s \in Sessions : IsFiniteSet(ledger[s])

IInv == /\ TypeOK
        /\ JobInv
        /\ LockInv
        /\ FiniteInv
        /\ PendingInv
        /\ SequenceDense
        /\ OneRowPerStudent
        /\ OneStudentPerDevice

-----------------------------------------------------------------------------
\* The unlocked checks answer with a known result.
LEMMA VerdictType ==
    ASSUME NEW j \in Job, NEW picked
    PROVE  Verdict(j, picked) \in Result
BY DEF Verdict, RosterAndDeviceLock, CredentialRejection, Result, Rejection

\* The number of rows of a ledger is a natural number.
LEMMA CountType ==
    ASSUME FiniteInv, NEW s \in Sessions
    PROVE  AttendanceCount(s) \in Nat
BY FS_CardinalityType DEF FiniteInv, AttendanceCount

\* Numbering 1..n stays dense when a row numbered n + 1 is added.
LEMMA DenseAdd ==
    ASSUME NEW S, IsFiniteSet(S), NEW x, x \notin S,
           {row.seq : row \in S} = 1 .. Cardinality(S),
           x.seq = Cardinality(S) + 1
    PROVE  {row.seq : row \in S \cup {x}} = 1 .. Cardinality(S \cup {x})
<1>1. Cardinality(S \cup {x}) = Cardinality(S) + 1
  BY FS_AddElement
<1>2. Cardinality(S) \in Nat
  BY FS_CardinalityType
<1>3. {row.seq : row \in S \cup {x}} = {row.seq : row \in S} \cup {x.seq}
  OBVIOUS
<1>4. 1 .. (Cardinality(S) + 1) = (1 .. Cardinality(S)) \cup {Cardinality(S) + 1}
  BY <1>2
<1> QED
  BY <1>1, <1>3, <1>4

\* Init establishes the inductive invariant.
LEMMA InitIInv == Init => IInv
<1> SUFFICES ASSUME Init PROVE IInv
  OBVIOUS
<1>1. TypeOK /\ JobInv
  BY DEF Init, TypeOK, JobInv, PC, Inside, Result
<1>2. LockInv /\ PendingInv
  BY CheckinAssumption DEF Init, LockInv, PendingInv, Inside
<1>3. FiniteInv /\ OneRowPerStudent /\ OneStudentPerDevice
  BY FS_EmptySet DEF Init, FiniteInv, OneRowPerStudent, OneStudentPerDevice
<1>4. SequenceDense
  BY FS_EmptySet DEF Init, SequenceDense
<1> QED
  BY <1>1, <1>2, <1>3, <1>4 DEF IInv

\* A step that leaves the ledgers alone leaves what is said of them alone.
LEMMA LedgerKept ==
    ASSUME IInv, ledger' = ledger
    PROVE  FiniteInv' /\ SequenceDense' /\ OneRowPerStudent' /\ OneStudentPerDevice'
BY DEF IInv, FiniteInv, SequenceDense, OneRowPerStudent, OneStudentPerDevice

\* Every step of a request thread preserves the inductive invariant.
LEMMA NextIInv == IInv /\ [Next]_vars => IInv'
<1> SUFFICES ASSUME IInv, [Next]_vars PROVE IInv'
  OBVIOUS
<1> USE DEF IInv
<1>1. ASSUME NEW r \in Requests, NEW j \in Job, Arrive(r, j)
      PROVE  IInv'
  <2>1. TypeOK' /\ JobInv'
    BY <1>1 DEF Arrive, TypeOK, JobInv, PC, Result
  <2>2. LockInv'
    BY <1>1 DEF Arrive, TypeOK, LockInv, Inside
  <2>3. PendingInv'
    BY <1>1 DEF Arrive, TypeOK, PendingInv, AttendanceCount, HasAttendance, DeviceUsedByOther
  <2> QED
    BY <1>1, <2>1, <2>2, <2>3, LedgerKept DEF Arrive
<1>2. ASSUME NEW r \in Requests, Validate(r)
      PROVE  IInv'
  <2>1. job[r] \in Job
    BY <1>2 DEF Validate, JobInv
  <2>2. PICK picked : /\ result' = [result EXCEPT ![r] = Verdict(job[r], picked)]
                      /\ pc' = [pc EXCEPT ![r] = IF Verdict(job[r], picked) = "none"
                                                 THEN "enter" ELSE "done"]
    BY <1>2 DEF Validate
  <2>3. Verdict(job[r], picked) \in Result
    BY <2>1, VerdictType
  <2>4. pc' \in [Requests -> PC] /\ pc'[r] \in {"enter", "done"}
    BY <2>2 DEF PC, TypeOK
  <2>5. TypeOK' /\ JobInv'
    BY <1>2, <2>1, <2>2, <2>3, <2>4 DEF Validate, TypeOK, JobInv
  <2>6. LockInv'
    BY <1>2, <2>2, <2>4 DEF Validate, TypeOK, LockInv, Inside
  <2>7. PendingInv'
    BY <1>2, <2>2, <2>4 DEF Validate, TypeOK, PendingInv, AttendanceCount, HasAttendance, DeviceUsedByOther
  <2> QED
    BY <1>2, <2>5, <2>6, <2>7, LedgerKept DEF Validate
<1>3. ASSUME NEW r \in Requests, Enter(r)
      PROVE  IInv'
  <2>1. TypeOK' /\ JobInv'
    BY <1>3 DEF Enter, TypeOK, JobInv, PC, Inside
  <2>2. LockInv'
    BY <1>3, CheckinAssumption DEF Enter, TypeOK, LockInv, Inside
  <2>3. PendingInv'
    BY <1>3 DEF Enter, TypeOK, PendingInv, AttendanceCount, HasAttendance, DeviceUsedByOther
  <2> QED
    BY <1>3, <2>1, <2>2, <2>3, LedgerKept DEF Enter
<1>4. ASSUME NEW r \in Requests, Bind(r)
      PROVE  IInv'
  <2>1. job[r] \in Job
    BY <1>4 DEF Bind, JobInv
  <2>2. TypeOK' /\ JobInv'
    BY <1>4, <2>1 DEF Bind, Return, TypeOK, JobInv, PC, Inside, Result, Rejection, Job
  <2>3. LockInv'
    BY <1>4, CheckinAssumption DEF Bind, Return, TypeOK, LockInv, Inside
  <2>4. PendingInv'
    BY <1>4 DEF Bind, Return, TypeOK, PendingInv, AttendanceCount, HasAttendance, DeviceUsedByOther
  <2> QED
    BY <1>4, <2>2, <2>3, <2>4, LedgerKept DEF Bind
<1>5. ASSUME NEW r \in Requests, Check(r)
      PROVE  IInv'
  <2>1. job[r] \in Job /\ AttendanceCount(job[r].session) \in Nat
    BY <1>5, CountType DEF Check, JobInv, Job
  <2>2. TypeOK' /\ JobInv'
    BY <1>5, <2>1 DEF Check, Return, TypeOK, JobInv, PC, Inside, Result, Rejection
  <2>3. LockInv'
    BY <1>5, CheckinAssumption DEF Check, Return, TypeOK, LockInv, Inside
  <2>4. PendingInv'
    BY <1>5, <2>1 DEF Check, Return, TypeOK, PendingInv, AttendanceCount, HasAttendance, DeviceUsedByOther
  <2> QED
    BY <1>5, <2>2, <2>3, <2>4, LedgerKept DEF Check
<1>6. ASSUME NEW r \in Requests, Append(r)
      PROVE  IInv'
  <2> DEFINE s == job[r].session
             row == [student |-> job[r].student, device |-> job[r].device, seq |-> seq[r]]
  <2>1. /\ job[r] \in Job
        /\ s \in Sessions
        /\ AttendanceCount(s) \in Nat
        /\ seq[r] = AttendanceCount(s) + 1
        /\ ~HasAttendance(s, job[r].student)
        /\ EnforceDeviceLock => ~DeviceUsedByOther(s, job[r].device, job[r].student)
    BY <1>6, CountType DEF Append, JobInv, Job, PendingInv
  <2>2. row \in Row
    BY <2>1 DEF Job, Row
  <2>3. /\ ledger' = [ledger EXCEPT ![s] = @ \cup {row}]
        /\ row \notin ledger[s]
    BY <1>6, <2>1 DEF Append, HasAttendance
  <2>4. /\ ledger'[s] = ledger[s] \cup {row}
        /\ \A t \in Sessions \ {s} : ledger'[t] = ledger[t]
    BY <2>1, <2>3 DEF TypeOK
  <2> HIDE DEF s, row
  <2>5. TypeOK' /\ JobInv'
    BY <1>6, <2>1, <2>2, <2>3 DEF Append, Return, TypeOK, JobInv, PC, Result
  <2>6. LockInv'
    BY <1>6, CheckinAssumption DEF Append, Return, TypeOK, LockInv, Inside
  <2>7. \A q \in Requests : pc'[q] # "append"
    BY <1>6 DEF Append, Return, TypeOK, LockInv, Inside
  <2>8. PendingInv'
    BY <2>7 DEF PendingInv
  <2>9. FiniteInv'
    BY <2>4, FS_AddElement DEF FiniteInv
  <2>10. SequenceDense'
    <3>1. row.seq = Cardinality(ledger[s]) + 1
      BY <2>1 DEF row, AttendanceCount
    <3>2. /\ IsFiniteSet(ledger[s])
          /\ {x.seq : x \in ledger[s]} = 1 .. Cardinality(ledger[s])
      BY <2>1 DEF FiniteInv, SequenceDense
    <3>3. {x.seq : x \in ledger[s] \cup {row}} = 1 .. Cardinality(ledger[s] \cup {row})
      BY <2>3, <3>1, <3>2, DenseAdd, Zenon
    <3>4. {x.seq : x \in ledger'[s]} = 1 .. Cardinality(ledger'[s])
      BY <2>4, <3>3
    <3> QED
      BY <2>4, <3>4 DEF SequenceDense
  <2>11. OneRowPerStudent'
    BY <2>1, <2>4 DEF OneRowPerStudent, HasAttendance, row, s
  <2>12. OneStudentPerDevice'
    <3> SUFFICES ASSUME EnforceDeviceLock,
                        NEW t \in Sessions, NEW x \in ledger'[t], NEW y \in ledger'[t],
                        x.device = y.device
                 PROVE  x = y
      BY DEF OneStudentPerDevice
    <3>1. CASE t # s
      BY <2>4, <3>1 DEF OneStudentPerDevice
    <3>2. CASE t = s
      <4>1. \A z \in ledger[s] : z.device # row.device
        BY <2>1 DEF DeviceUsedByOther, HasAttendance, row, s
      <4> QED
        BY <2>1, <2>4, <3>2, <4>1 DEF OneStudentPerDevice
    <3> QED
      BY <3>1, <3>2
  <2> QED
    BY <2>5, <2>6, <2>8, <2>9, <2>10, <2>11, <2>12
<1>7. CASE UNCHANGED vars
  BY <1>7 DEF vars, TypeOK, JobInv, LockInv, PendingInv, FiniteInv, SequenceDense,
              OneRowPerStudent, OneStudentPerDevice, AttendanceCount, HasAttendance,
              DeviceUsedByOther
<1> QED
  BY <1>1, <1>2, <1>3, <1>4, <1>5, <1>6, <1>7 DEF Next, Step

\* The inductive invariant holds in every reachable state.
THEOREM Invariance == Spec => []IInv
BY InitIInv, NextIInv, PTL DEF Spec

\* Type correctness of the check-in chain.
THEOREM TypeCorrect == Spec => []TypeOK
BY Invariance, PTL DEF IInv

\* Whatever the interleaving of the request threads, the rows of a ledger
\* are numbered 1..n.
THEOREM SequenceDenseAlways == Spec => []SequenceDense
BY Invariance, PTL DEF IInv

\* No student is ever recorded twice in one session.
THEOREM OneRowPerStudentAlways == Spec => []OneRowPerStudent
BY Invariance, PTL DEF IInv

\* With the device lock on, no phone ever records two students in a session.
THEOREM OneStudentPerDeviceAlways == Spec => []OneStudentPerDevice
BY Invariance, PTL DEF IInv

\* Nobody is counted twice, by two taps of their own or on another's phone.
THEOREM NobodyCountsTwiceAlways == Spec => []NobodyCountsTwice
<1>1. OneRowPerStudent /\ OneStudentPerDevice => NobodyCountsTwice
  BY DEF NobodyCountsTwice
<1> QED
  BY <1>1, OneRowPerStudentAlways, OneStudentPerDeviceAlways, PTL

-----------------------------------------------------------------------------
(* The chain implements the abstract append-only ledger.                   *)

\* Every step of the chain is a Record step of the ledger or leaves it alone.
LEMMA StepRefines == IInv /\ [Next]_vars => [Abstract!LedgerNext]_ledger
<1> SUFFICES ASSUME IInv, [Next]_vars
             PROVE  Abstract!LedgerNext \/ UNCHANGED ledger
  OBVIOUS
<1>1. ASSUME NEW r \in Requests, Append(r)
      PROVE  Abstract!LedgerNext
  <2> DEFINE s == job[r].session
             row == [student |-> job[r].student, device |-> job[r].device, seq |-> seq[r]]
  <2>1. /\ job[r] \in Job
        /\ s \in Sessions
        /\ AttendanceCount(s) \in Nat
        /\ seq[r] = AttendanceCount(s) + 1
        /\ ~HasAttendance(s, job[r].student)
    BY <1>1, CountType DEF Append, IInv, JobInv, Job, PendingInv
  <2>2. row \in Row
    BY <2>1 DEF Job, Row
  <2>3. /\ ledger' = [ledger EXCEPT ![s] = @ \cup {row}]
        /\ row \in ledger'[s]
    BY <1>1, <2>1 DEF Append, IInv, TypeOK
  <2>4. {x.seq : x \in ledger[s]} = 1 .. (row.seq - 1)
    BY <2>1 DEF IInv, SequenceDense, AttendanceCount
  <2>5. Abstract!Record(s)
    BY <2>1, <2>2, <2>3, <2>4 DEF Abstract!Record, Abstract!Present, Abstract!Row, Row, HasAttendance
  <2> QED
    BY <2>1, <2>5 DEF Abstract!LedgerNext
<1> QED
  BY <1>1 DEF Next, Step, Arrive, Validate, Enter, Bind, Check, vars

\* The concurrent check-in chain refines the append-only ledger.
THEOREM ChainImplementsLedger == Spec => LedgerPromise
<1>1. Init => Abstract!LedgerInit
  BY DEF Init, Abstract!LedgerInit
<1> QED
  BY <1>1, Invariance, StepRefines, PTL DEF Spec, LedgerPromise, Abstract!LedgerSpec

\* A binding, once made, is never replaced.
THEOREM BindingsAreKeptAlways == Spec => BindingsAreKept
<1>1. IInv /\ [Next]_vars =>
        [\A st \in Students : bindings[st] # NoDevice => bindings'[st] = bindings[st]]_vars
  <2> SUFFICES ASSUME IInv, [Next]_vars, NEW st \in Students, bindings[st] # NoDevice
               PROVE  bindings'[st] = bindings[st]
    BY Zenon
  <2>1. ASSUME NEW r \in Requests, Bind(r)
        PROVE  bindings'[st] = bindings[st]
    BY <2>1 DEF Bind, IInv, TypeOK
  <2> QED
    BY <2>1 DEF Next, Step, Arrive, Validate, Enter, Check, Append, vars
<1> QED
  BY <1>1, Invariance, PTL DEF Spec, BindingsAreKept

-----------------------------------------------------------------------------
(* Success is earned.  PRESENT is answered three steps after the checks    *)
(* that entitle to it, by a thread that holds nothing in between: what     *)
(* they established has to travel with the thread.                         *)

\* A thread past the unlocked checks was let through by them; its request
\* has not changed since, and it has answered nothing yet.
Admitted(r) ==
    /\ job[r].by \in {"REG", "QR"}
    /\ job[r].student \in Roster[job[r].session]

PassedInv ==
    \A r \in Requests :
        /\ pc[r] = "idle" => result[r] = "none"
        /\ pc[r] \in {"enter"} \cup Inside => result[r] = "none" /\ Admitted(r)

EarnedInv == IInv /\ PassedInv /\ SuccessIsEarned

\* A request that the unlocked checks pass is entitled to PRESENT: every
\* other credential and every student off the roster is named by a check.
LEMMA VerdictAdmits ==
    ASSUME NEW j \in Job, NEW picked, Verdict(j, picked) = "none"
    PROVE  j.by \in {"REG", "QR"} /\ j.student \in Roster[j.session]
<1>1. j.by \in Credential
  BY CredentialsAssumption DEF Job
<1>2. j.by \notin DOMAIN CredentialRejection
  BY DEF Verdict, CredentialRejection
<1>3. j.by \notin {"QR_FORGED", "QR_OLD", "QR_FOREIGN", "BLANK_REG"}
  BY <1>2 DEF CredentialRejection
<1>4. RosterAndDeviceLock(j, picked) = "none" /\ j.by # "QR_REVOKED"
  BY <1>2 DEF Verdict
<1> QED
  BY <1>1, <1>3, <1>4 DEF Credential, RosterAndDeviceLock

\* The unlocked checks never answer with a success.
LEMMA VerdictIsNoSuccess ==
    ASSUME NEW j \in Job, NEW picked
    PROVE  Verdict(j, picked) \notin {"PRESENT", "DUPLICATE_SCAN"}
BY DEF Verdict, RosterAndDeviceLock, CredentialRejection

\* A thread that keeps its request and its answer keeps what makes the
\* answer true, because no step takes a row out of a ledger.
LEMMA SuccessKept ==
    ASSUME IInv, SuccessIsEarned, NEW q \in Requests,
           job'[q] = job[q], result'[q] = result[q],
           \A s \in Sessions : ledger[s] \subseteq ledger'[s],
           pc[q] # "idle" \/ result[q] = "none"
    PROVE  /\ result'[q] = "PRESENT" => Admitted(q)'
           /\ result'[q] \in {"PRESENT", "DUPLICATE_SCAN"} =>
                \E row \in ledger'[job'[q].session] : row.student = job'[q].student
<1>1. CASE result[q] = "none"
  BY <1>1
<1>2. CASE pc[q] # "idle"
  <2>1. job[q] \in Job /\ job[q].session \in Sessions
    BY <1>2 DEF IInv, JobInv, Job
  <2> QED
    BY <2>1 DEF SuccessIsEarned, PresentIsEntitled, SuccessIsRecorded, Admitted
<1> QED
  BY <1>1, <1>2

\* Every step of a request thread preserves that success is earned.
LEMMA NextEarned == EarnedInv /\ [Next]_vars => EarnedInv'
<1> SUFFICES ASSUME EarnedInv, [Next]_vars PROVE EarnedInv'
  OBVIOUS
<1>1. IInv /\ IInv' /\ PassedInv /\ SuccessIsEarned
  BY NextIInv DEF EarnedInv
<1>2. \A s \in Sessions : ledger[s] \subseteq ledger'[s]
  <2>1. ASSUME NEW r \in Requests, Append(r)
        PROVE  \A s \in Sessions : ledger[s] \subseteq ledger'[s]
    BY <1>1, <2>1 DEF Append, IInv, TypeOK
  <2> QED
    BY <2>1 DEF Next, Step, Arrive, Validate, Enter, Bind, Check, vars
<1>3. \A q \in Requests : pc[q] # "idle" \/ result[q] = "none"
  BY <1>1 DEF PassedInv
<1>4. CASE UNCHANGED vars
  BY <1>1, <1>4 DEF EarnedInv, vars, PassedInv, Admitted, SuccessIsEarned, PresentIsEntitled, SuccessIsRecorded
<1>5. ASSUME NEW r \in Requests, Step(r) \/ \E j \in Job : Arrive(r, j)
      PROVE  PassedInv' /\ SuccessIsEarned'
  <2>1. \A q \in Requests \ {r} : /\ job'[q] = job[q] /\ result'[q] = result[q]
                                   /\ pc'[q] = pc[q]
    BY <1>1, <1>5 DEF Step, Arrive, Validate, Enter, Bind, Check, Append, Return, IInv, TypeOK
  <2>2. SUFFICES /\ pc'[r] = "idle" => result'[r] = "none"
                 /\ pc'[r] \in {"enter"} \cup Inside => result'[r] = "none" /\ Admitted(r)'
                 /\ result'[r] = "PRESENT" => Admitted(r)'
                 /\ result'[r] \in {"PRESENT", "DUPLICATE_SCAN"} =>
                      \E row \in ledger'[job'[r].session] : row.student = job'[r].student
    <3>1. ASSUME NEW q \in Requests \ {r}
          PROVE  /\ result'[q] = "PRESENT" => Admitted(q)'
                 /\ result'[q] \in {"PRESENT", "DUPLICATE_SCAN"} =>
                      \E row \in ledger'[job'[q].session] : row.student = job'[q].student
      BY <1>1, <1>2, <1>3, <2>1, SuccessKept
    <3>2. PassedInv'
      BY <1>1, <2>1, <2>2 DEF PassedInv, Admitted
    <3>3. PresentIsEntitled'
      BY <2>2, <3>1 DEF PresentIsEntitled, Admitted
    <3>4. SuccessIsRecorded'
      BY <2>2, <3>1 DEF SuccessIsRecorded
    <3> QED
      BY <3>2, <3>3, <3>4 DEF SuccessIsEarned
  <2>3. CASE \E j \in Job : Arrive(r, j)
    BY <1>1, <2>3 DEF Arrive, IInv, TypeOK, Inside
  <2>4. CASE Validate(r)
    <3>1. job[r] \in Job
      BY <1>1, <2>4 DEF Validate, IInv, JobInv
    <3>2. PICK picked : /\ result' = [result EXCEPT ![r] = Verdict(job[r], picked)]
                        /\ pc' = [pc EXCEPT ![r] = IF Verdict(job[r], picked) = "none"
                                                   THEN "enter" ELSE "done"]
      BY <2>4 DEF Validate
    <3>3. /\ result'[r] = Verdict(job[r], picked)
          /\ job'[r] = job[r]
          /\ pc'[r] = IF Verdict(job[r], picked) = "none" THEN "enter" ELSE "done"
      BY <1>1, <2>4, <3>2 DEF Validate, IInv, TypeOK
    <3>4. Verdict(job[r], picked) \notin {"PRESENT", "DUPLICATE_SCAN"}
      BY <3>1, VerdictIsNoSuccess
    <3>5. Verdict(job[r], picked) = "none" => Admitted(r)'
      BY <3>1, <3>3, VerdictAdmits DEF Admitted
    <3> QED
      BY <3>3, <3>4, <3>5 DEF Inside
  <2>5. CASE Enter(r)
    BY <1>1, <2>5 DEF Enter, IInv, TypeOK, PassedInv, Admitted, Inside
  <2>6. CASE Bind(r)
    BY <1>1, <2>6 DEF Bind, Return, IInv, TypeOK, PassedInv, Admitted, Inside
  <2>7. CASE Check(r)
    BY <1>1, <2>7 DEF Check, Return, HasAttendance, IInv, TypeOK, PassedInv, Admitted, Inside
  <2>8. CASE Append(r)
    <3>1. job[r] \in Job /\ job[r].session \in Sessions
      BY <1>1, <2>8 DEF Append, IInv, JobInv, Job
    <3>2. Admitted(r)
      BY <1>1, <2>8 DEF Append, PassedInv, Inside
    <3>3. [student |-> job[r].student, device |-> job[r].device, seq |-> seq[r]]
             \in ledger'[job[r].session]
      BY <1>1, <2>8, <3>1 DEF Append, IInv, TypeOK
    <3>4. job'[r] = job[r] /\ pc'[r] = "done"
      BY <1>1, <2>8 DEF Append, Return, IInv, TypeOK
    <3> QED
      BY <3>2, <3>3, <3>4 DEF Admitted, Inside
  <2> QED
    BY <1>5, <2>3, <2>4, <2>5, <2>6, <2>7, <2>8 DEF Step
<1> QED
  BY <1>1, <1>4, <1>5 DEF EarnedInv, Next

\* PRESENT is answered only to an entitled student, and a success only to a
\* student in the ledger, whatever the threads do between check and answer.
THEOREM SuccessIsEarnedAlways == Spec => []SuccessIsEarned
<1>1. Init => EarnedInv
  <2> SUFFICES ASSUME Init PROVE PassedInv /\ SuccessIsEarned
    BY InitIInv DEF EarnedInv
  <2> QED
    BY DEF Init, PassedInv, Inside, SuccessIsEarned, PresentIsEntitled, SuccessIsRecorded
<1> QED
  BY <1>1, NextEarned, PTL DEF Spec, EarnedInv
=============================================================================
