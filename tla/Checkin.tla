------------------------------ MODULE Checkin ------------------------------
(***************************************************************************)
(* The in-room check-in chain of the coordinator phone                     *)
(* (engine/CheckinValidator.kt over the Store of engine/Store.kt and       *)
(* app/store/RoomStore.kt).  Every phone in the lecture room is served by  *)
(* its own Ktor request thread.  A thread runs                             *)
(*                                                                         *)
(*   - the checks on the credential (validate) or on the typed             *)
(*     registration number (validateReg), with no lock held;               *)
(*   - rosterAndDeviceLock, which reads the binding table, still unlocked; *)
(*   - bindAndRecord, which is @Synchronized: a read-modify-write over     *)
(*     several store calls inside the monitor of the one validator.        *)
(*                                                                         *)
(* One action is one store call (or one run of store calls between which   *)
(* nothing is shared), so that the threads interleave as the code lets     *)
(* them, and the monitor is a variable, so that what the lock buys is      *)
(* checked rather than assumed.                                            *)
(***************************************************************************)
EXTENDS Integers, FiniteSets

CONSTANTS
    Students,           \* student_id_hash values, on a roster or not
    Devices,            \* device fingerprint hashes
    Sessions,           \* session ids
    Requests,           \* Ktor request threads
    Roster,             \* Roster[s]: ActiveSession.rosterHashes
    Credentials,        \* the kinds of credential that are presented
    EnforceDeviceLock   \* the validator's constructor flag

CONSTANTS NoDevice, NoStudent, NoJob, Free     \* null, of each kind

ASSUME CheckinAssumption ==
    /\ Roster \in [Sessions -> SUBSET Students]
    /\ EnforceDeviceLock \in BOOLEAN
    /\ NoDevice \notin Devices
    /\ NoStudent \notin Students
    /\ Free \notin Requests

VARIABLES
    bindings,   \* device_bindings: student -> device (NoDevice: no row)
    ledger,     \* attendance_logs: session -> set of rows
    monitor,    \* the thread inside the validator's monitor, or Free
    pc,         \* pc[r]: where thread r is in the chain
    job,        \* job[r]: the request it serves
    seq,        \* seq[r]: its local attendanceCount(...) + 1
    result      \* result[r]: the ValidationResult it returned

vars == <<bindings, ledger, monitor, pc, job, seq, result>>

-----------------------------------------------------------------------------
(* The types.                                                              *)

\* How the student is identified.  "REG" is a typed registration number
\* (validateReg); the QR kinds are student cards (validate), named by the
\* first of the QR-only checks that they fail.
Credential == {"REG", "BLANK_REG", "QR", "QR_FORGED", "QR_OLD",
               "QR_FOREIGN", "QR_REVOKED"}

Rejection == {"INVALID_SIGNATURE", "QR_EXPIRED", "TENANT_MISMATCH",
              "NOT_ON_ROSTER", "DEVICE_BELONGS_TO_ANOTHER_STUDENT",
              "SERIAL_REVOKED", "DEVICE_MISMATCH", "DUPLICATE_SCAN",
              "DEVICE_ALREADY_USED"}

ASSUME CredentialsAssumption == Credentials \subseteq Credential

Result == Rejection \cup {"PRESENT", "none"}

\* The steps of bindAndRecord, all of them inside the monitor.
Inside == {"bind", "check", "append"}

PC == {"idle", "validate", "enter", "done"} \cup Inside

Job == [session : Sessions, student : Students, device : Devices,
        by : Credentials]

Row == [student : Students, device : Devices, seq : Nat \ {0}]

TypeOK ==
    /\ bindings \in [Students -> Devices \cup {NoDevice}]
    /\ ledger \in [Sessions -> SUBSET Row]
    /\ monitor \in Requests \cup {Free}
    /\ pc \in [Requests -> PC]
    /\ job \in [Requests -> Job \cup {NoJob}]
    /\ seq \in [Requests -> Nat]
    /\ result \in [Requests -> Result]

-----------------------------------------------------------------------------
(* The Store: what its queries answer in the current state.                *)

\* bindingByFingerprint has LIMIT 1 and no ORDER BY: with several rows for
\* one fingerprint it may return any of them.
BindingByFingerprint(d) ==
    LET holders == {st \in Students : bindings[st] = d}
    IN  IF holders = {} THEN {NoStudent} ELSE holders

\* A faulty variant: the query forgets the session.
HasAttendanceAnywhere(s, st) == \E x \in Sessions : \E row \in ledger[x] : row.student = st

HasAttendance(s, st) == \E row \in ledger[s] : row.student = st

\* A faulty variant: the comparison of the students is the wrong way round.
DeviceUsedBySame(s, d, st) ==
    \E row \in ledger[s] : row.device = d /\ row.student = st

DeviceUsedByOther(s, d, st) ==
    \E row \in ledger[s] : row.device = d /\ row.student # st

\* A faulty variant: the index of the last row in place of the count.
LastIndex(s) == Cardinality(ledger[s]) - 1

AttendanceCount(s) == Cardinality(ledger[s])

-----------------------------------------------------------------------------
(* The chain.                                                              *)

Init ==
    /\ bindings = [st \in Students |-> NoDevice]
    /\ ledger = [s \in Sessions |-> {}]
    /\ monitor = Free
    /\ pc = [r \in Requests |-> "idle"]
    /\ job = [r \in Requests |-> NoJob]
    /\ seq = [r \in Requests |-> 0]
    /\ result = [r \in Requests |-> "none"]

\* A phone's POST is picked up by a free thread, for the session that the
\* server held as live when the handler read it.
Arrive(r, j) ==
    /\ pc[r] \in {"idle", "done"}
    /\ pc' = [pc EXCEPT ![r] = "validate"]
    /\ job' = [job EXCEPT ![r] = j]
    /\ seq' = [seq EXCEPT ![r] = 0]
    /\ result' = [result EXCEPT ![r] = "none"]
    /\ UNCHANGED <<bindings, ledger, monitor>>

\* The checks made on the credential alone, before the store is read.
CredentialRejection ==
    [QR_FORGED  |-> "INVALID_SIGNATURE",
     QR_OLD     |-> "QR_EXPIRED",
     QR_FOREIGN |-> "TENANT_MISMATCH",
     BLANK_REG  |-> "NOT_ON_ROSTER"]

\* rosterAndDeviceLock, given the row that bindingByFingerprint returned;
\* "none" stands for null.
RosterAndDeviceLock(j, picked) ==
    IF EnforceDeviceLock /\ picked \notin {NoStudent, j.student}
    THEN "DEVICE_BELONGS_TO_ANOTHER_STUDENT"
    ELSE IF j.student \notin Roster[j.session] THEN "NOT_ON_ROSTER" ELSE "none"

\* A faulty variant of Verdict: the revocation list is not consulted.
VerdictUnrevoked(j, picked) ==
    IF j.by \in DOMAIN CredentialRejection THEN CredentialRejection[j.by]
    ELSE RosterAndDeviceLock(j, picked)

\* Everything validate and validateReg decide before bindAndRecord.
Verdict(j, picked) ==
    IF j.by \in DOMAIN CredentialRejection THEN CredentialRejection[j.by]
    ELSE IF RosterAndDeviceLock(j, picked) # "none" THEN RosterAndDeviceLock(j, picked)
    ELSE IF j.by = "QR_REVOKED" THEN "SERIAL_REVOKED" ELSE "none"

\* The unlocked part of the chain.  Its one read of shared state is the
\* binding table, so it is one step.
Validate(r) ==
    /\ pc[r] = "validate"
    /\ \E picked \in BindingByFingerprint(job[r].device) :
          /\ result' = [result EXCEPT ![r] = Verdict(job[r], picked)]
          /\ pc' = [pc EXCEPT ![r] = IF Verdict(job[r], picked) = "none"
                                     THEN "enter" ELSE "done"]
    /\ UNCHANGED <<bindings, ledger, monitor, job, seq>>

\* A faulty variant of Enter: bindAndRecord is not @Synchronized.
EnterUnlocked(r) ==
    /\ pc[r] = "enter"
    /\ pc' = [pc EXCEPT ![r] = "bind"]
    /\ UNCHANGED <<bindings, ledger, monitor, job, seq, result>>

\* @Synchronized.
Enter(r) ==
    /\ pc[r] = "enter"
    /\ monitor = Free
    /\ monitor' = r
    /\ pc' = [pc EXCEPT ![r] = "bind"]
    /\ UNCHANGED <<bindings, ledger, job, seq, result>>

\* A faulty variant of Return: an explicit lock, not released by the early
\* returns.
ReturnHeld(r, res) ==
    /\ monitor' = IF res = "PRESENT" THEN Free ELSE monitor
    /\ pc' = [pc EXCEPT ![r] = "done"]
    /\ result' = [result EXCEPT ![r] = res]

\* Returning from bindAndRecord leaves the monitor.
Return(r, res) ==
    /\ monitor' = Free
    /\ pc' = [pc EXCEPT ![r] = "done"]
    /\ result' = [result EXCEPT ![r] = res]

\* A faulty variant of Bind: putBinding on every check-in.
Rebind(r) ==
    /\ pc[r] = "bind"
    /\ bindings' = [bindings EXCEPT ![job[r].student] = job[r].device]
    /\ pc' = [pc EXCEPT ![r] = "check"]
    /\ UNCHANGED <<monitor, result, ledger, job, seq>>

\* Step 5: the student's own binding, made on the first check-in.  It is
\* made before the duplicate and used-device checks, and is not undone when
\* they reject.
Bind(r) ==
    LET stored == bindings[job[r].student]
    IN  /\ pc[r] = "bind"
        /\ \/ /\ EnforceDeviceLock
              /\ stored \notin {NoDevice, job[r].device}
              /\ Return(r, "DEVICE_MISMATCH")
              /\ UNCHANGED bindings
           \/ /\ EnforceDeviceLock => stored \in {NoDevice, job[r].device}
              /\ bindings' = IF stored = NoDevice
                             THEN [bindings EXCEPT ![job[r].student] = job[r].device]
                             ELSE bindings
              /\ pc' = [pc EXCEPT ![r] = "check"]
              /\ UNCHANGED <<monitor, result>>
        /\ UNCHANGED <<ledger, job, seq>>

\* A faulty variant of Check: only the device is looked up.
CheckDeviceOnly(r) ==
    LET j == job[r]
        used == EnforceDeviceLock /\ DeviceUsedByOther(j.session, j.device, j.student)
    IN  /\ pc[r] = "check"
        /\ \/ /\ used
              /\ Return(r, "DEVICE_ALREADY_USED")
              /\ UNCHANGED seq
           \/ /\ ~used
              /\ seq' = [seq EXCEPT ![r] = AttendanceCount(j.session) + 1]
              /\ pc' = [pc EXCEPT ![r] = "append"]
              /\ UNCHANGED <<monitor, result>>
        /\ UNCHANGED <<bindings, ledger, job>>

\* Steps 6 and 7, and the sequence number the new row will carry.
Check(r) ==
    LET j == job[r]
        used == EnforceDeviceLock /\ DeviceUsedByOther(j.session, j.device, j.student)
    IN  /\ pc[r] = "check"
        /\ \/ /\ HasAttendance(j.session, j.student)
              /\ Return(r, "DUPLICATE_SCAN")
              /\ UNCHANGED seq
           \/ /\ ~HasAttendance(j.session, j.student)
              /\ used
              /\ Return(r, "DEVICE_ALREADY_USED")
              /\ UNCHANGED seq
           \/ /\ ~HasAttendance(j.session, j.student)
              /\ ~used
              /\ seq' = [seq EXCEPT ![r] = AttendanceCount(j.session) + 1]
              /\ pc' = [pc EXCEPT ![r] = "append"]
              /\ UNCHANGED <<monitor, result>>
        /\ UNCHANGED <<bindings, ledger, job>>

\* store.addAttendance, and the return of PRESENT.  The table's unique index
\* on (session, student) would abort a second row; Check has ruled it out.
Append(r) ==
    /\ pc[r] = "append"
    /\ ledger' = [ledger EXCEPT ![job[r].session] =
                    @ \cup {[student |-> job[r].student,
                             device |-> job[r].device, seq |-> seq[r]]}]
    /\ Return(r, "PRESENT")
    /\ UNCHANGED <<bindings, job, seq>>

Step(r) == Validate(r) \/ Enter(r) \/ Bind(r) \/ Check(r) \/ Append(r)

Next ==
    \E r \in Requests :
        \/ \E j \in Job : Arrive(r, j)
        \/ Step(r)

Spec == Init /\ [][Next]_vars

\* A request thread that can run is eventually run.  Nothing is assumed
\* about which of the waiting threads a JVM monitor admits next.
FairSpec == Spec /\ \A r \in Requests : WF_vars(Step(r))

-----------------------------------------------------------------------------
(* Properties.                                                             *)

\* The rows of a session are numbered 1..n without a gap or a repetition,
\* however the request threads interleave (the 37 distinct numbers for 40
\* scans that the comment on bindAndRecord reports may not come back).
SequenceDense ==
    \A s \in Sessions :
        {row.seq : row \in ledger[s]} = 1 .. Cardinality(ledger[s])

\* A student is recorded at most once in a session, even when two of their
\* taps are in the chain at the same time (DUPLICATE_SCAN).
OneRowPerStudent ==
    \A s \in Sessions : \A x, y \in ledger[s] : x.student = y.student => x = y

\* With the device lock on, one phone stands for at most one student in a
\* session, even when the unlocked read of the binding table was overtaken
\* by another thread's putBinding (DEVICE_ALREADY_USED).
OneStudentPerDevice ==
    EnforceDeviceLock =>
        \A s \in Sessions : \A x, y \in ledger[s] : x.device = y.device => x = y

\* What the checks before an insert are for: nobody is counted twice, neither
\* by two taps of their own nor on the phone of another.
NobodyCountsTwice == OneRowPerStudent /\ OneStudentPerDevice

\* PRESENT is only ever answered to a student of that session's own roster,
\* identified by a registration number or by a card that passed every QR
\* check, whatever the order in which the checks run.
PresentIsEntitled ==
    \A r \in Requests :
        result[r] = "PRESENT" => /\ job[r].by \in {"REG", "QR"}
                                 /\ job[r].student \in Roster[job[r].session]

\* An answer that the room treats as success (PRESENT, and DUPLICATE_SCAN,
\* on which the hub frees the phone's slot for good) is only given to a
\* student who is in the ledger of the session they asked for.
SuccessIsRecorded ==
    \A r \in Requests :
        result[r] \in {"PRESENT", "DUPLICATE_SCAN"} =>
            \E row \in ledger[job[r].session] : row.student = job[r].student

\* PRESENT is earned and true: by a credential that entitles to it, and with a
\* row of that student in that session's ledger.
SuccessIsEarned == PresentIsEntitled /\ SuccessIsRecorded

\* The ledger as module AttendanceLedger promises it: the chain implements
\* the append-only ledger, each PRESENT being one Record step.
Abstract == INSTANCE AttendanceLedger
LedgerPromise == Abstract!LedgerSpec

\* Once a student's first phone is bound, no check-in rebinds the student to
\* another one: putBinding REPLACEs by student, and is reached only when
\* there is nothing to replace.
BindingsAreKept ==
    [][\A st \in Students : bindings[st] # NoDevice => bindings'[st] = bindings[st]]_vars

\* Every return of bindAndRecord, the early ones included, gives the monitor
\* back: the room never waits for ever on a rejected phone.
MonitorIsReleased == (monitor # Free) ~> (monitor = Free)

=============================================================================
