------------------------------ MODULE CloudRoom ------------------------------
(***************************************************************************)
(* The gateway's online room: a coordinator opens and closes a session, a  *)
(* lecturer confirms the start and the end of the lecture at the gate (or  *)
(* runs an online class), students check in.  Handlers run concurrently    *)
(* over PostgreSQL and Redis; every statement of a handler that another    *)
(* request can interleave with is a step of its own.  A request that is    *)
(* refused changes nothing and simply ends; Cancel is the client going     *)
(* away, which fails the next statement and rolls an open transaction      *)
(* back.                                                                   *)
(***************************************************************************)
EXTENDS Naturals, Sequences, FiniteSets, FiniteSetsExt

CONSTANTS Coordinator, Lecturer, Student, Handset,
          Cohort,         \* the ACTIVE students of the offering
          Biometric,      \* lecturers with a WebAuthn credential on file
          Request,        \* the gateway's concurrent request slots
          RatioNum, RatioDen,     \* tenants.lecturer_attendance_ratio
          MaxRooms,       \* bound: sessions opened
          MaxProofs,      \* bound: fingerprints confirmed
          MaxLostWrites   \* bound: attendance INSERTs the database fails

NoOne == "no one"

ASSUME CloudRoomAssumption ==
    /\ Cohort \subseteq Student /\ Biometric \subseteq Lecturer
    /\ RatioNum \in Nat /\ RatioDen \in Nat \ {0}
    /\ NoOne \notin Request /\ IsFiniteSet(Cohort)
    /\ MaxRooms \in Nat /\ MaxProofs \in Nat /\ MaxLostWrites \in Nat

VARIABLES rooms,       \* the sessions table joined with lecturer_attendance_logs
          attendance,  \* the attendance_logs table
          req,         \* what each request slot is doing
          roomLock,    \* the advisory lock, per coordinator
          ticket,      \* Redis wa:verified:<session>
          answered,        \* who was answered PRESENT
          lostWrites   \* INSERTs the database has failed so far

cloudVars == <<rooms, attendance, req, roomLock, ticket, answered, lostWrites>>

Idle == [op |-> "idle"]

RoomIds == DOMAIN rooms
NewRoom(owner, lecturer, mode) ==
    [owner |-> owner, lecturer |-> lecturer, mode |-> mode, status |-> "ACTIVE",
     scanned |-> mode = "ONLINE", ended |-> FALSE,
     hours |-> "none", proofs |-> 0, gateWrites |-> 0]

Present(i) == {a \in attendance : a.room = i}

\* ceil(ratio * enrolled), at least one
Required ==
    LET q == (RatioNum * Cardinality(Cohort) + RatioDen - 1) \div RatioDen
    IN  IF q > 1 THEN q ELSE 1

\* The conditions the handlers test, each after the fault a mutant puts in its place:
\* no lock, no gate, no unique index, an UPDATE without its IS NULL, no quorum.
LockIgnored(c) == TRUE
LockFree(c) == roomLock[c] = NoOne
GateIgnored(i) == TRUE
LecturerStarted(i) == rooms[i].scanned
NoIndex(i, s) == FALSE
Recorded(i, s) == \E a \in Present(i) : a.student = s
TrustSnapshot(field, i) == TRUE
IsNull(field, i) == ~rooms[i][field]
AnyNumber(i) == TRUE
Quorate(i) == Cardinality(Present(i)) >= Required

HasOpenRoom(c) == \E i \in RoomIds : rooms[i].owner = c /\ rooms[i].status = "ACTIVE"

\* The newest ACTIVE online class of a lecturer (0: none)
CurrentOnlineClass(l) ==
    LET mine == {i \in RoomIds : /\ rooms[i].lecturer = l /\ rooms[i].mode = "ONLINE"
                                 /\ rooms[i].status = "ACTIVE"}
    IN  IF mine = {} THEN 0 ELSE CHOOSE i \in mine : \A j \in mine : j <= i

Goto(r, state) == req' = [req EXCEPT ![r] = state]
Finish(r)      == Goto(r, Idle)

-----------------------------------------------------------------------------
CloudInit ==
    /\ rooms = <<>> /\ attendance = {} /\ answered = {}
    /\ req = [r \in Request |-> Idle]
    /\ roomLock = [c \in Coordinator |-> NoOne]
    /\ ticket = [i \in 1..MaxRooms |-> NoOne]
    /\ lostWrites = 0

\* OpenSession: the checks before the transaction
OpenSession(r, c, l) ==
    /\ req[r] = Idle
    /\ Goto(r, [op |-> "open", coord |-> c, lect |-> l])
    /\ UNCHANGED <<rooms, attendance, roomLock, ticket, answered, lostWrites>>

\* pg_advisory_xact_lock, then "already open?" under it
OpenSessionLocked(r) ==
    /\ req[r].op = "open"
    /\ LockFree(req[r].coord)
    /\ IF HasOpenRoom(req[r].coord)
       THEN Finish(r) /\ UNCHANGED roomLock
       ELSE /\ Goto(r, [req[r] EXCEPT !.op = "openInsert"])
            /\ roomLock' = [roomLock EXCEPT ![req[r].coord] = r]
    /\ UNCHANGED <<rooms, attendance, ticket, answered, lostWrites>>

\* INSERT of the session and of the lecturer's log, COMMIT (the lock goes with it)
OpenSessionCommit(r) ==
    /\ req[r].op = "openInsert"
    /\ Len(rooms) < MaxRooms
    /\ rooms' = Append(rooms, NewRoom(req[r].coord, req[r].lect, "IN_PERSON"))
    /\ roomLock' = [roomLock EXCEPT ![req[r].coord] = NoOne]
    /\ Finish(r)
    /\ UNCHANGED <<attendance, ticket, answered, lostWrites>>

\* CloseSession: one guarded UPDATE of the session ...
CloseSession(r, i) ==
    /\ req[r] = Idle
    /\ rooms[i].mode = "IN_PERSON" /\ rooms[i].status = "ACTIVE"
    /\ rooms' = [rooms EXCEPT ![i].status = "CLOSED"]
    /\ Goto(r, [op |-> "closeLog", room |-> i])
    /\ UNCHANGED <<attendance, roomLock, ticket, answered, lostWrites>>

\* ... then the lecturer's hours, counted from the gate opening
CloseSessionLog(r) ==
    /\ req[r].op = "closeLog"
    /\ rooms' = IF rooms[req[r].room].lecturer = NoOne THEN rooms
                ELSE [rooms EXCEPT ![req[r].room].hours = "gate"]
    /\ Finish(r)
    /\ UNCHANGED <<attendance, roomLock, ticket, answered, lostWrites>>

-----------------------------------------------------------------------------
\* StudentCheckin: roster, session, window, code and network or cohort.  The clock,
\* the code and the network can refuse any request, which then changes nothing.
StudentCheckin(r, s, p, i) ==
    /\ req[r] = Idle
    /\ rooms[i].status = "ACTIVE"
    /\ rooms[i].mode = "ONLINE" => s \in Cohort
    /\ Goto(r, [op |-> "checkin", student |-> s, phone |-> p, room |-> i])
    /\ UNCHANGED <<rooms, attendance, roomLock, ticket, answered, lostWrites>>

PhoneTaken(q) == \E a \in Present(q.room) : a.phone = q.phone /\ a.student # q.student

\* The reads before the INSERT: the gate, the device, the duplicate, MAX(seq)+1
StudentCheckinGate(r) ==
    LET q == req[r] IN
    /\ q.op = "checkin"
    /\ CASE ~LecturerStarted(q.room) \/ PhoneTaken(q) -> Finish(r) /\ UNCHANGED answered
         [] LecturerStarted(q.room) /\ ~PhoneTaken(q) /\ Recorded(q.room, q.student) ->
               Finish(r) /\ answered' = answered \cup {<<q.room, q.student>>}
         [] OTHER -> Goto(r, [q EXCEPT !.op = "insert"]) /\ UNCHANGED answered
    /\ UNCHANGED <<rooms, attendance, roomLock, ticket, lostWrites>>

SwallowedInsert(q) == {}
InsertedRow(q) == IF Recorded(q.room, q.student) THEN {}
                  ELSE {[room |-> q.room, student |-> q.student, phone |-> q.phone]}

\* The INSERT, under the unique index on (session, student); either way PRESENT
StudentCheckinInsert(r) ==
    LET q == req[r] IN
    /\ q.op = "insert"
    /\ attendance' = attendance \cup InsertedRow(q)
    /\ answered' = answered \cup {<<q.room, q.student>>}
    /\ Finish(r)
    /\ UNCHANGED <<rooms, roomLock, ticket, lostWrites>>

\* The INSERT fails for any other reason: the answer is PRESENT all the same
StudentCheckinInsertFails(r) ==
    LET q == req[r] IN
    /\ q.op = "insert"
    /\ lostWrites < MaxLostWrites
    /\ lostWrites' = lostWrites + 1
    /\ answered' = answered \cup {<<q.room, q.student>>}
    /\ Finish(r)
    /\ UNCHANGED <<rooms, attendance, roomLock, ticket>>

-----------------------------------------------------------------------------
ProofsSoFar == MapThenSumSet(LAMBDA i : rooms[i].proofs, RoomIds)

\* LecturerAssertBegin and Finish: a matched fingerprint leaves a 2-minute ticket
LecturerAssert(i) ==
    /\ rooms[i].lecturer \in Biometric
    /\ ProofsSoFar < MaxProofs
    /\ rooms' = [rooms EXCEPT ![i].proofs = @ + 1]
    /\ ticket' = [ticket EXCEPT ![i] = rooms[i].lecturer]
    /\ UNCHANGED <<attendance, req, roomLock, answered, lostWrites>>

TicketExpires(i) ==
    /\ ticket[i] # NoOne
    /\ ticket' = [ticket EXCEPT ![i] = NoOne]
    /\ UNCHANGED <<rooms, attendance, req, roomLock, answered, lostWrites>>

GateView(i) == [scanned |-> rooms[i].scanned, ended |-> rooms[i].ended,
                active |-> rooms[i].status = "ACTIVE"]

\* LecturerGateScan: one SELECT fixes everything the handler will decide on
LecturerGateScan(r, i) ==
    /\ req[r] = Idle
    /\ rooms[i].lecturer # NoOne /\ rooms[i].mode = "IN_PERSON"
    /\ Goto(r, [op |-> IF rooms[i].lecturer \in Biometric THEN "scanGet" ELSE "scanWrite",
                room |-> i, seen |-> GateView(i), quorate |-> Quorate(i)])
    /\ UNCHANGED <<rooms, attendance, roomLock, ticket, answered, lostWrites>>

\* GET wa:verified
LecturerGateTicket(r) ==
    /\ req[r].op = "scanGet"
    /\ IF ticket[req[r].room] # rooms[req[r].room].lecturer THEN Finish(r)
       ELSE Goto(r, [req[r] EXCEPT !.op = "scanDel"])
    /\ UNCHANGED <<rooms, attendance, roomLock, ticket, answered, lostWrites>>

\* DEL wa:verified
LecturerGateSpend(r) ==
    /\ req[r].op = "scanDel"
    /\ ticket' = [ticket EXCEPT ![req[r].room] = NoOne]
    /\ Goto(r, [req[r] EXCEPT !.op = "scanWrite"])
    /\ UNCHANGED <<rooms, attendance, roomLock, answered, lostWrites>>

StartGate(i) == [rooms EXCEPT ![i].scanned = TRUE, ![i].gateWrites = @ + 1]
EndGate(i)   == [rooms EXCEPT ![i].ended = TRUE, ![i].hours = "scan",
                              ![i].gateWrites = @ + 1]

\* START when the snapshot was unscanned, END when it was unfinished and had its
\* quorum; both UPDATEs repeat the IS NULL test
LecturerGateWrite(r) ==
    LET i == req[r].room
        seen == req[r].seen
    IN
    /\ req[r].op = "scanWrite"
    /\ rooms' = CASE ~seen.scanned /\ seen.active /\ IsNull("scanned", i)
                        -> StartGate(i)
                  [] seen.scanned /\ ~seen.ended /\ req[r].quorate
                     /\ IsNull("ended", i) -> EndGate(i)
                  [] OTHER -> rooms
    /\ Finish(r)
    /\ UNCHANGED <<attendance, roomLock, ticket, answered, lostWrites>>

-----------------------------------------------------------------------------
\* StartOnlineClass: a class already running is handed back
StartOnlineClass(r, l) ==
    /\ req[r] = Idle
    /\ CurrentOnlineClass(l) = 0
    /\ Goto(r, [op |-> "online", lect |-> l])
    /\ UNCHANGED <<rooms, attendance, roomLock, ticket, answered, lostWrites>>

\* Lock, INSERT of the session and of the log, COMMIT.  Nothing is re-read under
\* the lock, so the transaction is one step.
StartOnlineClassInsert(r) ==
    /\ req[r].op = "online"
    /\ Len(rooms) < MaxRooms
    /\ rooms' = Append(rooms, NewRoom(NoOne, req[r].lect, "ONLINE"))
    /\ Finish(r)
    /\ UNCHANGED <<attendance, roomLock, ticket, answered, lostWrites>>

\* EndOnlineClass: the newest class, refused below its quorum
EndOnlineClass(r, l) ==
    LET i == CurrentOnlineClass(l) IN
    /\ req[r] = Idle
    /\ i # 0
    /\ Quorate(i)
    /\ Goto(r, [op |-> "endLog", room |-> i])
    /\ UNCHANGED <<rooms, attendance, roomLock, ticket, answered, lostWrites>>

EndOnlineClassLog(r) ==
    LET i == req[r].room IN
    /\ req[r].op = "endLog"
    /\ rooms' = IF IsNull("ended", i) THEN EndGate(i) ELSE rooms
    /\ Goto(r, [req[r] EXCEPT !.op = "endRoom"])
    /\ UNCHANGED <<attendance, roomLock, ticket, answered, lostWrites>>

EndOnlineClassRoom(r) ==
    /\ req[r].op = "endRoom"
    /\ rooms' = [rooms EXCEPT ![req[r].room].status = "CLOSED"]
    /\ Finish(r)
    /\ UNCHANGED <<attendance, roomLock, ticket, answered, lostWrites>>

-----------------------------------------------------------------------------
\* The client is gone: the next statement fails, a transaction rolls back
CancelRequest(r) ==
    /\ req[r] # Idle
    /\ Finish(r)
    /\ roomLock' = [c \in Coordinator |-> IF roomLock[c] = r THEN NoOne ELSE roomLock[c]]
    /\ UNCHANGED <<rooms, attendance, ticket, answered, lostWrites>>

RoomRequestStep(r) ==
    \/ OpenSessionLocked(r) \/ OpenSessionCommit(r) \/ CloseSessionLog(r)
    \/ StudentCheckinGate(r) \/ StudentCheckinInsert(r)
    \/ LecturerGateTicket(r) \/ LecturerGateSpend(r) \/ LecturerGateWrite(r)
    \/ StartOnlineClassInsert(r) \/ EndOnlineClassLog(r) \/ EndOnlineClassRoom(r)

CloudNext ==
    \/ \E r \in Request :
        \/ \E c \in Coordinator, l \in Lecturer \cup {NoOne} : OpenSession(r, c, l)
        \/ \E i \in RoomIds : CloseSession(r, i) \/ LecturerGateScan(r, i)
        \/ \E s \in Student, p \in Handset, i \in RoomIds : StudentCheckin(r, s, p, i)
        \/ \E l \in Lecturer : StartOnlineClass(r, l) \/ EndOnlineClass(r, l)
        \/ RoomRequestStep(r) \/ StudentCheckinInsertFails(r) \/ CancelRequest(r)
    \/ \E i \in RoomIds : LecturerAssert(i) \/ TicketExpires(i)

CloudSpec == CloudInit /\ [][CloudNext]_cloudVars

-----------------------------------------------------------------------------
\* However opens, closes and retries interleave, a coordinator never has two open
\* in-person sessions (sessions.go, OpenSession: the check runs under the lock).
OneOpenRoom ==
    \A i, j \in RoomIds :
        /\ rooms[i].mode = "IN_PERSON" /\ rooms[j].mode = "IN_PERSON"
        /\ rooms[i].status = "ACTIVE" /\ rooms[j].status = "ACTIVE"
        /\ rooms[i].owner = rooms[j].owner
        => i = j

\* A student is counted once per session although the duplicate check and the
\* INSERT are separate statements, and never in a lecture nobody started.
CountedOnceAfterStart ==
    /\ \A a, b \in attendance : a.room = b.room /\ a.student = b.student => a = b
    /\ \A a \in attendance : rooms[a.room].scanned

\* Whoever was told PRESENT is in attendance_logs: the answers nothing was stored for
\* never outnumber the INSERTs the database itself failed.
PresentIsStored ==
    Cardinality({t \in answered : ~\E a \in attendance : a.room = t[1] /\ a.student = t[2]})
        <= lostWrites

\* The register of an online session is true both ways: a row is of one student in a
\* started lecture, and PRESENT has its row.
AttendanceIsTrue == CountedOnceAfterStart /\ PresentIsStored

\* A lecture that was ended had been started and had its quorum, whatever stale
\* snapshot the gate decided on.
EndedHadQuorum ==
    \A i \in RoomIds : rooms[i].ended => /\ rooms[i].scanned
                                         /\ Cardinality(Present(i)) >= Required

\* One fingerprint confirms one gate action: GET and DEL are two calls and two
\* scans may read the same ticket, but only one of them changes the log.
OneProofOneGateWrite ==
    \A i \in RoomIds : rooms[i].lecturer \in Biometric /\ rooms[i].mode = "IN_PERSON"
                        => rooms[i].gateWrites <= rooms[i].proofs

\* What no overlap of opens, closes, scans and ends may break about the sessions.
RoomsAreSound == OneOpenRoom /\ EndedHadQuorum /\ OneProofOneGateWrite

\* One online class per lecturer, as StartOnlineClass's comment on its lock says.
OneOnlineClass ==
    \A i, j \in RoomIds :
        /\ rooms[i].mode = "ONLINE" /\ rooms[j].mode = "ONLINE"
        /\ rooms[i].status = "ACTIVE" /\ rooms[j].status = "ACTIVE"
        /\ rooms[i].lecturer = rooms[j].lecturer
        => i = j
=============================================================================
