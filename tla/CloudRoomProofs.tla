-------------------------- MODULE CloudRoomProofs --------------------------
(***************************************************************************)
(* Machine-checked proofs about CloudRoom, for any number of coordinators, *)
(* lecturers, students, handsets and concurrent requests.                  *)
(*                                                                         *)
(* A handler decides on what an earlier statement read.  What makes its    *)
(* later writes right is that the tables only ever move one way (rows are  *)
(* added, a gate is opened and ended once, a fingerprint is counted), so   *)
(* that what was read is still a lower bound of what is there: Grows says  *)
(* it of every step, and each invariant about a pending request rests on   *)
(* it.                                                                     *)
(***************************************************************************)
EXTENDS CloudRoom, FiniteSetTheorems, NaturalsInduction, WellFoundedInduction, TLAPS

Room == [owner : Coordinator \cup {NoOne}, lecturer : Lecturer \cup {NoOne},
         mode : {"IN_PERSON", "ONLINE"}, status : {"ACTIVE", "CLOSED"},
         scanned : BOOLEAN, ended : BOOLEAN, hours : {"none", "gate", "scan"},
         proofs : Nat, gateWrites : Nat]

View == [scanned : BOOLEAN, ended : BOOLEAN, active : BOOLEAN]

\* What a request slot holds, by the handler that runs in it.
OpenReq   == [op : {"open", "openInsert"}, coord : Coordinator, lect : Lecturer \cup {NoOne}]
RoomReq   == [op : {"closeLog", "endLog", "endRoom"}, room : Nat]
CheckReq  == [op : {"checkin", "insert"}, student : Student, phone : Handset, room : Nat]
ScanReq   == [op : {"scanGet", "scanDel", "scanWrite"}, room : Nat, seen : View,
              quorate : BOOLEAN]
OnlineReq == [op : {"online"}, lect : Lecturer]
AnyReq    == {Idle} \cup OpenReq \cup RoomReq \cup CheckReq \cup ScanReq \cup OnlineReq

Log == [room : Nat, student : Student, phone : Handset]

TablesOK ==
    /\ rooms \in Seq(Room) /\ Len(rooms) <= MaxRooms
    /\ attendance \subseteq Log /\ IsFiniteSet(attendance)
    /\ answered \subseteq Nat \X Student /\ IsFiniteSet(answered)
    /\ lostWrites \in Nat

SlotsOK ==
    /\ req \in [Request -> AnyReq]
    /\ roomLock \in [Coordinator -> Request \cup {NoOne}]
    /\ ticket \in [1..MaxRooms -> Lecturer \cup {NoOne}]

\* A request that is about a session, or a row, is about one that exists.
TargetInv ==
    /\ \A r \in Request :
          req[r] \in RoomReq \cup CheckReq \cup ScanReq => req[r].room \in RoomIds
    /\ \A a \in attendance : a.room \in RoomIds

\* An open that passed the check holds the coordinator's lock, and there is
\* still no open in-person session of theirs.
LockInv ==
    \A r \in Request : req[r].op = "openInsert" =>
        /\ roomLock[req[r].coord] = r
        /\ \A i \in RoomIds : ~ /\ rooms[i].mode = "IN_PERSON" /\ rooms[i].status = "ACTIVE"
                                /\ rooms[i].owner = req[r].coord

\* A check-in past the gate is for a lecture that was started.
StartedInv ==
    /\ \A r \in Request : req[r].op = "insert" => rooms[req[r].room].scanned
    /\ \A i \in RoomIds : rooms[i].mode = "ONLINE" => rooms[i].scanned

\* What a scan or an end read before it writes is still a lower bound.
SnapshotInv ==
    \A r \in Request :
        /\ req[r] \in ScanReq => /\ rooms[req[r].room].mode = "IN_PERSON"
                                 /\ rooms[req[r].room].lecturer # NoOne
                                 /\ req[r].seen.scanned => rooms[req[r].room].scanned
                                 /\ req[r].quorate => Quorate(req[r].room)
        /\ req[r].op = "endLog" => /\ rooms[req[r].room].mode = "ONLINE"
                                   /\ Quorate(req[r].room)

\* The rooms whose gate asks for a fingerprint.
Guarded(i) == /\ rooms[i].mode = "IN_PERSON" /\ rooms[i].lecturer \in Biometric
              /\ rooms[i].lecturer # NoOne

\* A gate is written once per side.
WritesInv ==
    \A i \in RoomIds : rooms[i].mode = "IN_PERSON" =>
        /\ rooms[i].gateWrites = (IF rooms[i].scanned THEN 1 ELSE 0)
                                 + (IF rooms[i].ended THEN 1 ELSE 0)
        /\ rooms[i].lecturer = NoOne => ~rooms[i].scanned /\ ~rooms[i].ended

\* The life of a ticket.  With one fingerprint so far, the ticket is gone
\* before START is written, so a scan that saw the lecture started, and got
\* a ticket, got a second one.
TicketInv ==
    /\ \A j \in 1..MaxRooms : ticket[j] # NoOne => j \in RoomIds /\ rooms[j].proofs >= 1
    /\ \A i \in RoomIds : Guarded(i) =>
          /\ rooms[i].scanned => rooms[i].proofs >= 1
          /\ rooms[i].ended => rooms[i].proofs >= 2
          /\ rooms[i].scanned /\ rooms[i].proofs = 1 => ticket[i] = NoOne
    /\ \A r \in Request : req[r].op \in {"scanDel", "scanWrite"} /\ Guarded(req[r].room) =>
          /\ rooms[req[r].room].proofs >= 1
          /\ req[r].seen.scanned => rooms[req[r].room].proofs >= 2
          /\ req[r].op = "scanWrite" /\ rooms[req[r].room].proofs = 1
                => ticket[req[r].room] = NoOne

CloudTyped == TablesOK /\ SlotsOK /\ TargetInv

\* What a step of anybody may do to the tables.
Grows ==
    /\ attendance \subseteq attendance'
    /\ \A i \in RoomIds :
          /\ i \in RoomIds'
          /\ rooms'[i].owner = rooms[i].owner
          /\ rooms'[i].lecturer = rooms[i].lecturer
          /\ rooms'[i].mode = rooms[i].mode
          /\ rooms'[i].status = "ACTIVE" => rooms[i].status = "ACTIVE"
          /\ rooms[i].scanned => rooms'[i].scanned
          /\ rooms[i].ended => rooms'[i].ended
          /\ rooms'[i].proofs >= rooms[i].proofs

-----------------------------------------------------------------------------
\* The operation names tell the handlers apart.
LEMMA ReqShape ==
    ASSUME SlotsOK, NEW r \in Request
    PROVE  /\ req[r] \in AnyReq
           /\ req[r].op \in {"open", "openInsert"} <=> req[r] \in OpenReq
           /\ req[r].op \in {"closeLog", "endLog", "endRoom"} <=> req[r] \in RoomReq
           /\ req[r].op \in {"checkin", "insert"} <=> req[r] \in CheckReq
           /\ req[r].op \in {"scanGet", "scanDel", "scanWrite"} <=> req[r] \in ScanReq
           /\ req[r].op = "online" <=> req[r] \in OnlineReq
           /\ req[r].op = "idle" <=> req[r] = Idle
<1>1. req[r] \in AnyReq
  BY DEF SlotsOK
<1>2. CASE req[r] = Idle
  BY <1>1, <1>2 DEF Idle, OpenReq, RoomReq, CheckReq, ScanReq, OnlineReq
<1>3. CASE req[r] \in OpenReq
  BY <1>1, <1>3 DEF Idle, OpenReq, RoomReq, CheckReq, ScanReq, OnlineReq
<1>4. CASE req[r] \in RoomReq
  BY <1>1, <1>4 DEF Idle, OpenReq, RoomReq, CheckReq, ScanReq, OnlineReq
<1>5. CASE req[r] \in CheckReq
  BY <1>1, <1>5 DEF Idle, OpenReq, RoomReq, CheckReq, ScanReq, OnlineReq
<1>6. CASE req[r] \in ScanReq
  BY <1>1, <1>6 DEF Idle, OpenReq, RoomReq, CheckReq, ScanReq, OnlineReq
<1>7. CASE req[r] \in OnlineReq
  BY <1>1, <1>7 DEF Idle, OpenReq, RoomReq, CheckReq, ScanReq, OnlineReq
<1> QED
  BY <1>1, <1>2, <1>3, <1>4, <1>5, <1>6, <1>7 DEF AnyReq

\* An UPDATE of one session.
LEMMA UpdateRoom ==
    ASSUME TablesOK, NEW i \in RoomIds, NEW x \in Room, rooms' = [rooms EXCEPT ![i] = x]
    PROVE  /\ rooms' \in Seq(Room) /\ Len(rooms') = Len(rooms) /\ RoomIds' = RoomIds
           /\ rooms'[i] = x
           /\ \A j \in RoomIds \ {i} : rooms'[j] = rooms[j]
BY DEF TablesOK, RoomIds

\* An INSERT of one session.
LEMMA InsertRoom ==
    ASSUME TablesOK, NEW x \in Room, rooms' = Append(rooms, x)
    PROVE  /\ rooms' \in Seq(Room) /\ Len(rooms') = Len(rooms) + 1
           /\ RoomIds' = RoomIds \cup {Len(rooms) + 1}
           /\ Len(rooms) + 1 \notin RoomIds
           /\ rooms'[Len(rooms) + 1] = x
           /\ \A j \in RoomIds : rooms'[j] = rooms[j]
BY DEF TablesOK, RoomIds

\* The session ids are 1 .. n, and each has its row.
LEMMA RoomTypes ==
    ASSUME TablesOK
    PROVE  /\ RoomIds = 1 .. Len(rooms) /\ Len(rooms) \in Nat
           /\ \A i \in RoomIds : rooms[i] \in Room /\ i \in Nat /\ i \in 1..MaxRooms
BY CloudRoomAssumption DEF TablesOK, RoomIds

\* The quorum is a number.
LEMMA RequiredType == Required \in Nat
<1>1. Cardinality(Cohort) \in Nat
  BY FS_CardinalityType, CloudRoomAssumption
<1> DEFINE n == RatioNum * Cardinality(Cohort) + RatioDen - 1
<1>2. n \in Nat
  BY <1>1, CloudRoomAssumption
<1> HIDE DEF n
<1>3. n \div RatioDen \in Nat
  BY <1>2, CloudRoomAssumption
<1> QED
  BY <1>3 DEF Required, n

\* A quorum that is reached stays reached.
LEMMA QuorateStays ==
    ASSUME TablesOK, TablesOK', attendance \subseteq attendance', NEW i
    PROVE  Quorate(i) => Quorate(i)'
<1>1. /\ IsFiniteSet(attendance') /\ Present(i)' \subseteq attendance'
      /\ Present(i) \subseteq Present(i)'
  BY DEF TablesOK, Present
<1>2. IsFiniteSet(Present(i)') /\ IsFiniteSet(Present(i))
      /\ Cardinality(Present(i)) <= Cardinality(Present(i)')
  BY <1>1, FS_Subset
<1>3. Cardinality(Present(i)) \in Nat /\ Cardinality(Present(i)') \in Nat
  BY <1>2, FS_CardinalityType
<1>4. Required \in Nat /\ Required' = Required
  BY RequiredType DEF Required
<1> QED
  BY <1>2, <1>3, <1>4 DEF Quorate

\* A set of numbers with an upper bound has a largest one.
LEMMA Largest ==
    ASSUME NEW n \in Nat, NEW S \in SUBSET (0..n), S # {}
    PROVE  \E m \in S : \A k \in S : k <= m
<1> DEFINE R == OpToRel(<, Nat)
           T == {n - k : k \in S}
<1>1. IsWellFoundedOn(R, Nat)
  BY NatLessThanWellFounded, Zenon
<1>2. T \in SUBSET Nat /\ T # {}
  <2>1. \A k \in S : n - k \in Nat
    OBVIOUS
  <2> QED
    BY <2>1
<1>3. \A x, y \in Nat : <<x, y>> \in R <=> x < y
  BY DEF OpToRel
<1> HIDE DEF R, T
<1>4. PICK x \in T : \A y \in T : ~ (<<y, x>> \in R)
  BY <1>1, <1>2, WFMin
<1>5. x \in Nat /\ \A y \in T : x <= y
  <2>1. \A y \in T : ~(y < x) /\ y \in Nat
    BY <1>2, <1>3, <1>4
  <2> QED
    BY <1>2, <2>1
<1>6. PICK m \in S : x = n - m
  BY DEF T
<1>7. \A k \in S : n - k \in T
  BY DEF T
<1> QED
  BY <1>5, <1>6, <1>7

\* A request slot moves on.
LEMMA GotoTyped ==
    ASSUME CloudTyped, NEW r \in Request, NEW x \in AnyReq, Goto(r, x),
           RoomIds \subseteq RoomIds',
           x \in RoomReq \cup CheckReq \cup ScanReq => x.room \in RoomIds',
           \A a \in attendance' : a.room \in RoomIds'
    PROVE  /\ req' \in [Request -> AnyReq] /\ TargetInv'
           /\ req'[r] = x /\ \A q \in Request \ {r} : req'[q] = req[q]
<1>1. /\ req' \in [Request -> AnyReq]
      /\ req'[r] = x /\ \A q \in Request \ {r} : req'[q] = req[q]
  BY DEF Goto, CloudTyped, SlotsOK
<1>2. \A q \in Request : req'[q] \in RoomReq \cup CheckReq \cup ScanReq => req'[q].room \in RoomIds'
  BY <1>1 DEF CloudTyped, TargetInv
<1> QED
  BY <1>1, <1>2 DEF TargetInv

\* A request that leaves the tables alone only moves its own slot on.
LEMMA ReadOnly ==
    ASSUME CloudTyped, NEW r \in Request, NEW x \in AnyReq, Goto(r, x),
           UNCHANGED <<rooms, attendance, lostWrites>>,
           x \in RoomReq \cup CheckReq \cup ScanReq => x.room \in RoomIds,
           answered' \subseteq Nat \X Student, IsFiniteSet(answered'),
           roomLock' \in [Coordinator -> Request \cup {NoOne}],
           ticket' \in [1..MaxRooms -> Lecturer \cup {NoOne}]
    PROVE  /\ CloudTyped' /\ Grows
           /\ req'[r] = x /\ \A q \in Request \ {r} : req'[q] = req[q]
<1>1. TablesOK' /\ RoomIds' = RoomIds /\ Grows
  <2>1. \A i \in RoomIds : rooms[i].proofs >= rooms[i].proofs
    BY RoomTypes DEF CloudTyped, Room
  <2> QED
    BY <2>1 DEF CloudTyped, TablesOK, RoomIds, Grows
<1>2. \A a \in attendance' : a.room \in RoomIds'
  BY <1>1 DEF CloudTyped, TargetInv
<1>3. /\ req' \in [Request -> AnyReq] /\ TargetInv'
      /\ req'[r] = x /\ \A q \in Request \ {r} : req'[q] = req[q]
  BY <1>1, <1>2, GotoTyped
<1> QED
  BY <1>1, <1>3 DEF CloudTyped, SlotsOK

\* An UPDATE of one session moves one way, and only its own slot goes on.
LEMMA UpdateTyped ==
    ASSUME CloudTyped, NEW i \in RoomIds, NEW x \in Room, rooms' = [rooms EXCEPT ![i] = x],
           UNCHANGED <<attendance, answered, lostWrites>>,
           x.owner = rooms[i].owner, x.lecturer = rooms[i].lecturer, x.mode = rooms[i].mode,
           x.status = "ACTIVE" => rooms[i].status = "ACTIVE",
           rooms[i].scanned => x.scanned, rooms[i].ended => x.ended,
           x.proofs >= rooms[i].proofs
    PROVE  /\ TablesOK' /\ Grows /\ RoomIds' = RoomIds /\ rooms'[i] = x
           /\ \A j \in RoomIds \ {i} : rooms'[j] = rooms[j]
           /\ \A a \in attendance' : a.room \in RoomIds'
<1>1. /\ rooms' \in Seq(Room) /\ Len(rooms') = Len(rooms) /\ RoomIds' = RoomIds
      /\ rooms'[i] = x
      /\ \A j \in RoomIds \ {i} : rooms'[j] = rooms[j]
  BY UpdateRoom DEF CloudTyped
<1>2. \A j \in RoomIds : rooms[j].proofs \in Nat
  BY RoomTypes DEF CloudTyped, Room
<1>3. Grows
  BY <1>1, <1>2 DEF Grows
<1> QED
  BY <1>1, <1>3 DEF CloudTyped, TablesOK, TargetInv

\* An INSERT of one session.
LEMMA InsertTyped ==
    ASSUME CloudTyped, NEW x \in Room, rooms' = Append(rooms, x), Len(rooms) < MaxRooms,
           UNCHANGED <<attendance, answered, lostWrites>>
    PROVE  /\ TablesOK' /\ Grows /\ RoomIds' = RoomIds \cup {Len(rooms) + 1}
           /\ Len(rooms) + 1 \notin RoomIds
           /\ rooms'[Len(rooms) + 1] = x
           /\ \A j \in RoomIds : rooms'[j] = rooms[j]
           /\ \A a \in attendance' : a.room \in RoomIds'
<1>1. /\ rooms' \in Seq(Room) /\ Len(rooms') = Len(rooms) + 1
      /\ RoomIds' = RoomIds \cup {Len(rooms) + 1}
      /\ Len(rooms) + 1 \notin RoomIds
      /\ rooms'[Len(rooms) + 1] = x
      /\ \A j \in RoomIds : rooms'[j] = rooms[j]
  BY InsertRoom DEF CloudTyped
<1>2. \A j \in RoomIds : rooms[j].proofs \in Nat
  BY RoomTypes DEF CloudTyped, Room
<1>3. Grows
  <2>1. ASSUME NEW j \in RoomIds
        PROVE  rooms'[j].proofs >= rooms[j].proofs
    <3>1. rooms[j].proofs >= rooms[j].proofs
      BY <1>2
    <3>2. rooms'[j] = rooms[j]
      BY <1>1
    <3> QED
      BY <3>1, <3>2, Zenon
  <2>2. \A j \in RoomIds : j \in RoomIds' /\ rooms'[j] = rooms[j]
    BY <1>1, Zenon
  <2> QED
    BY <2>1, <2>2, Zenon DEF Grows
<1>4. Len(rooms') <= MaxRooms
  BY <1>1, RoomTypes, CloudRoomAssumption DEF CloudTyped
<1> QED
  BY <1>1, <1>3, <1>4 DEF CloudTyped, TablesOK, TargetInv

\* The newest online class of a lecturer is a session, and an online one.
LEMMA CurrentClass ==
    ASSUME TablesOK, NEW l, CurrentOnlineClass(l) # 0
    PROVE  /\ CurrentOnlineClass(l) \in RoomIds
           /\ rooms[CurrentOnlineClass(l)].mode = "ONLINE"
<1> DEFINE mine == {i \in RoomIds : /\ rooms[i].lecturer = l /\ rooms[i].mode = "ONLINE"
                                    /\ rooms[i].status = "ACTIVE"}
<1>1. mine # {} /\ CurrentOnlineClass(l) = CHOOSE i \in mine : \A j \in mine : j <= i
  BY DEF CurrentOnlineClass
<1>2. \E i \in mine : \A j \in mine : j <= i
  <2>1. mine \subseteq 1 .. Len(rooms) /\ Len(rooms) \in Nat
    BY RoomTypes
  <2>2. mine \in SUBSET (0 .. Len(rooms))
    BY <2>1
  <2> HIDE DEF mine
  <2> QED
    BY <1>1, <2>1, <2>2, Largest
<1>3. CurrentOnlineClass(l) \in mine
  BY <1>1, <1>2
<1> QED
  BY <1>3

\* Every step keeps the types, and moves the tables one way.
LEMMA NextTyped == CloudTyped /\ [CloudNext]_cloudVars => CloudTyped' /\ Grows
<1> SUFFICES ASSUME CloudTyped, [CloudNext]_cloudVars PROVE CloudTyped' /\ Grows
  OBVIOUS
<1> DEFINE Goal == CloudTyped' /\ Grows
<1> SUFFICES Goal
  OBVIOUS
<1>a. TablesOK /\ SlotsOK /\ TargetInv
  BY DEF CloudTyped
<1>b. \A i \in RoomIds : rooms[i] \in Room /\ i \in Nat /\ i \in 1..MaxRooms
  BY <1>a, RoomTypes
<1>c. /\ answered \subseteq Nat \X Student /\ IsFiniteSet(answered)
      /\ roomLock \in [Coordinator -> Request \cup {NoOne}]
      /\ ticket \in [1..MaxRooms -> Lecturer \cup {NoOne}]
      /\ lostWrites \in Nat
  BY <1>a DEF TablesOK, SlotsOK
<1>d. Idle \in AnyReq /\ Idle \notin RoomReq \cup CheckReq \cup ScanReq
  BY DEF AnyReq, Idle, RoomReq, CheckReq, ScanReq
<1>1. ASSUME NEW r \in Request, NEW c \in Coordinator, NEW l \in Lecturer \cup {NoOne},
             OpenSession(r, c, l)
      PROVE  Goal
  <2> DEFINE x == [op |-> "open", coord |-> c, lect |-> l]
  <2>1. x \in AnyReq /\ x \notin RoomReq \cup CheckReq \cup ScanReq
    BY DEF AnyReq, OpenReq, RoomReq, CheckReq, ScanReq
  <2> HIDE DEF x
  <2> QED
    BY <1>1, <1>c, <2>1, ReadOnly DEF OpenSession, x
<1>2. ASSUME NEW r \in Request, OpenSessionLocked(r)
      PROVE  Goal
  <2>1. CASE Finish(r) /\ UNCHANGED roomLock
    BY <1>2, <1>c, <1>d, <2>1, ReadOnly DEF OpenSessionLocked, Finish
  <2>2. CASE /\ Goto(r, [req[r] EXCEPT !.op = "openInsert"])
             /\ roomLock' = [roomLock EXCEPT ![req[r].coord] = r]
    <3> DEFINE x == [req[r] EXCEPT !.op = "openInsert"]
    <3>1. req[r] \in OpenReq
      BY <1>2, <1>a, ReqShape DEF OpenSessionLocked
    <3>2. x \in OpenReq /\ roomLock' \in [Coordinator -> Request \cup {NoOne}]
      BY <1>c, <2>2, <3>1 DEF OpenReq
    <3>3. x \in AnyReq /\ x \notin RoomReq \cup CheckReq \cup ScanReq
      BY <3>2 DEF AnyReq, OpenReq, RoomReq, CheckReq, ScanReq
    <3> HIDE DEF x
    <3> QED
      BY <1>2, <1>c, <2>2, <3>2, <3>3, ReadOnly DEF OpenSessionLocked, x
  <2> QED
    BY <1>2, <2>1, <2>2 DEF OpenSessionLocked
<1>3. ASSUME NEW r \in Request, OpenSessionCommit(r)
      PROVE  Goal
  <2> DEFINE x == NewRoom(req[r].coord, req[r].lect, "IN_PERSON")
  <2>1. req[r] \in OpenReq
    BY <1>3, <1>a, ReqShape DEF OpenSessionCommit
  <2>2. x \in Room
    BY <2>1 DEF NewRoom, Room, OpenReq
  <2> HIDE DEF x
  <2>3. TablesOK' /\ Grows /\ RoomIds \subseteq RoomIds' /\ \A a \in attendance' : a.room \in RoomIds'
    BY <1>3, <2>2, InsertTyped DEF OpenSessionCommit, x
  <2>4. req' \in [Request -> AnyReq] /\ TargetInv'
    BY <1>3, <1>d, <2>3, GotoTyped DEF OpenSessionCommit, Finish
  <2>5. roomLock' \in [Coordinator -> Request \cup {NoOne}] /\ ticket' = ticket
    BY <1>3, <1>c DEF OpenSessionCommit
  <2> QED
    BY <1>c, <2>3, <2>4, <2>5 DEF CloudTyped, SlotsOK
<1>e. ASSUME NEW r \in Request, NEW y \in AnyReq, Goto(r, y),
             y \in RoomReq \cup CheckReq \cup ScanReq => y.room \in RoomIds,
             NEW i \in RoomIds, NEW x \in Room, rooms' = [rooms EXCEPT ![i] = x],
             UNCHANGED <<attendance, roomLock, ticket, answered, lostWrites>>,
             x.owner = rooms[i].owner, x.lecturer = rooms[i].lecturer, x.mode = rooms[i].mode,
             x.status = "ACTIVE" => rooms[i].status = "ACTIVE",
             rooms[i].scanned => x.scanned, rooms[i].ended => x.ended,
             x.proofs = rooms[i].proofs
      PROVE  Goal
  <2>0. x.proofs >= rooms[i].proofs
    BY <1>b, <1>e DEF Room
  <2>1. TablesOK' /\ Grows /\ RoomIds' = RoomIds /\ \A a \in attendance' : a.room \in RoomIds'
    BY <1>e, <2>0, UpdateTyped
  <2>2. req' \in [Request -> AnyReq] /\ TargetInv'
    BY <1>e, <2>1, GotoTyped
  <2> QED
    BY <1>c, <1>e, <2>1, <2>2 DEF CloudTyped, SlotsOK
<1>4. ASSUME NEW r \in Request, NEW i \in RoomIds, CloseSession(r, i)
      PROVE  Goal
  <2> DEFINE x == [rooms[i] EXCEPT !.status = "CLOSED"]
             y == [op |-> "closeLog", room |-> i]
  <2>1. /\ x \in Room /\ x.owner = rooms[i].owner /\ x.lecturer = rooms[i].lecturer
        /\ x.mode = rooms[i].mode /\ x.status = "CLOSED" /\ x.scanned = rooms[i].scanned
        /\ x.ended = rooms[i].ended /\ x.proofs = rooms[i].proofs
    BY <1>b DEF Room
  <2>2. y \in AnyReq /\ y.room = i
    BY <1>b DEF AnyReq, RoomReq
  <2>3. rooms' = [rooms EXCEPT ![i] = x] /\ Goto(r, y)
        /\ UNCHANGED <<attendance, roomLock, ticket, answered, lostWrites>>
    BY <1>4 DEF CloseSession
  <2> HIDE DEF x, y
  <2> QED
    BY <1>e, <2>1, <2>2, <2>3
<1>5. ASSUME NEW r \in Request, CloseSessionLog(r)
      PROVE  Goal
  <2> DEFINE i == req[r].room
             x == [rooms[i] EXCEPT !.hours = "gate"]
  <2>0. i \in RoomIds
    BY <1>5, <1>a, ReqShape DEF CloseSessionLog, TargetInv
  <2>1. /\ x \in Room /\ x.owner = rooms[i].owner /\ x.lecturer = rooms[i].lecturer
        /\ x.mode = rooms[i].mode /\ x.status = rooms[i].status /\ x.scanned = rooms[i].scanned
        /\ x.ended = rooms[i].ended /\ x.proofs = rooms[i].proofs
    BY <1>b, <2>0 DEF Room
  <2>2. Goto(r, Idle) /\ UNCHANGED <<attendance, roomLock, ticket, answered, lostWrites>>
    BY <1>5 DEF CloseSessionLog, Finish
  <2>3. CASE rooms' = rooms
    BY <1>c, <1>d, <2>2, <2>3, ReadOnly
  <2>4. CASE rooms' = [rooms EXCEPT ![i] = x]
    <3> HIDE DEF x, i
    <3> QED
      BY <1>d, <1>e, <2>0, <2>1, <2>2, <2>4
  <2> QED
    BY <1>5, <2>3, <2>4 DEF CloseSessionLog
<1>6. ASSUME NEW r \in Request, NEW s \in Student, NEW p \in Handset, NEW i \in RoomIds,
             StudentCheckin(r, s, p, i)
      PROVE  Goal
  <2> DEFINE y == [op |-> "checkin", student |-> s, phone |-> p, room |-> i]
  <2>1. y \in AnyReq /\ y.room = i
    BY <1>b DEF AnyReq, CheckReq
  <2> HIDE DEF y
  <2> QED
    BY <1>6, <1>c, <2>1, ReadOnly DEF StudentCheckin, y
<1>f. ASSUME NEW r \in Request, req[r] \in CheckReq
      PROVE  /\ req[r].room \in RoomIds /\ req[r].room \in Nat /\ req[r].student \in Student
             /\ req[r].phone \in Handset
             /\ answered \cup {<<req[r].room, req[r].student>>} \subseteq Nat \X Student
             /\ IsFiniteSet(answered \cup {<<req[r].room, req[r].student>>})
  <2>1. /\ req[r].room \in RoomIds /\ req[r].room \in Nat /\ req[r].student \in Student
        /\ req[r].phone \in Handset
    BY <1>f, <1>a DEF TargetInv, CheckReq
  <2>2. IsFiniteSet(answered \cup {<<req[r].room, req[r].student>>})
    BY <1>c, FS_AddElement
  <2> QED
    BY <1>c, <2>1, <2>2
<1>7. ASSUME NEW r \in Request, StudentCheckinGate(r)
      PROVE  Goal
  <2>1. req[r] \in CheckReq
    BY <1>7, <1>a, ReqShape DEF StudentCheckinGate
  <2>2. answered' \subseteq Nat \X Student /\ IsFiniteSet(answered')
    BY <1>7, <1>c, <1>f, <2>1 DEF StudentCheckinGate
  <2>3. UNCHANGED <<rooms, attendance, roomLock, ticket, lostWrites>>
    BY <1>7 DEF StudentCheckinGate
  <2>4. CASE Finish(r)
    BY <1>c, <1>d, <2>2, <2>3, <2>4, ReadOnly DEF Finish
  <2>5. CASE Goto(r, [req[r] EXCEPT !.op = "insert"])
    <3> DEFINE y == [req[r] EXCEPT !.op = "insert"]
    <3>1. y \in CheckReq /\ y.room = req[r].room
      BY <2>1 DEF CheckReq
    <3>2. y \in AnyReq /\ y.room \in RoomIds
      BY <1>f, <2>1, <3>1 DEF AnyReq
    <3> HIDE DEF y
    <3> QED
      BY <1>c, <2>2, <2>3, <2>5, <3>2, ReadOnly DEF y
  <2> QED
    BY <1>7, <2>4, <2>5 DEF StudentCheckinGate
<1>8. ASSUME NEW r \in Request, StudentCheckinInsert(r)
      PROVE  Goal
  <2>1. req[r] \in CheckReq
    BY <1>8, <1>a, ReqShape DEF StudentCheckinInsert
  <2>2. answered' \subseteq Nat \X Student /\ IsFiniteSet(answered')
    BY <1>8, <1>f, <2>1 DEF StudentCheckinInsert
  <2> DEFINE row == [room |-> req[r].room, student |-> req[r].student, phone |-> req[r].phone]
  <2>3. row \in Log /\ row.room \in RoomIds
    BY <1>f, <2>1 DEF Log
  <2>4. attendance' = attendance \/ attendance' = attendance \cup {row}
    BY <1>8 DEF StudentCheckinInsert, InsertedRow
  <2> HIDE DEF row
  <2>5. attendance' \subseteq Log /\ IsFiniteSet(attendance') /\ \A a \in attendance' : a.room \in RoomIds
    BY <1>a, <2>3, <2>4, FS_AddElement DEF TablesOK, TargetInv
  <2>6. UNCHANGED <<rooms, roomLock, ticket, lostWrites>> /\ Goto(r, Idle)
    BY <1>8 DEF StudentCheckinInsert, Finish
  <2>7. RoomIds' = RoomIds
    BY <2>6 DEF RoomIds
  <2>8. TablesOK'
    BY <1>a, <2>2, <2>5, <2>6 DEF TablesOK
  <2>9. req' \in [Request -> AnyReq] /\ TargetInv'
    BY <1>d, <2>5, <2>6, <2>7, GotoTyped
  <2>10. \A i \in RoomIds : rooms[i].proofs >= rooms[i].proofs
    BY <1>b DEF Room
  <2>11. Grows
    BY <2>4, <2>6, <2>7, <2>10 DEF Grows
  <2> QED
    BY <1>c, <2>6, <2>8, <2>9, <2>11 DEF CloudTyped, SlotsOK
<1>9. ASSUME NEW r \in Request, StudentCheckinInsertFails(r)
      PROVE  Goal
  <2>1. req[r] \in CheckReq
    BY <1>9, <1>a, ReqShape DEF StudentCheckinInsertFails
  <2>2. answered' \subseteq Nat \X Student /\ IsFiniteSet(answered')
    BY <1>9, <1>f, <2>1 DEF StudentCheckinInsertFails
  <2>3. UNCHANGED <<rooms, attendance, roomLock, ticket>> /\ Goto(r, Idle) /\ lostWrites' \in Nat
    BY <1>9, <1>c DEF StudentCheckinInsertFails, Finish
  <2>4. RoomIds' = RoomIds
    BY <2>3 DEF RoomIds
  <2>5. TablesOK'
    BY <1>a, <2>2, <2>3 DEF TablesOK
  <2>6. \A a \in attendance' : a.room \in RoomIds'
    BY <1>a, <2>3, <2>4 DEF TargetInv
  <2>7. req' \in [Request -> AnyReq] /\ TargetInv'
    BY <1>d, <2>3, <2>4, <2>6, GotoTyped
  <2>8. \A i \in RoomIds : rooms[i].proofs >= rooms[i].proofs
    BY <1>b DEF Room
  <2>9. Grows
    BY <2>3, <2>4, <2>8 DEF Grows
  <2> QED
    BY <1>c, <2>3, <2>5, <2>7, <2>9 DEF CloudTyped, SlotsOK
<1>10. ASSUME NEW i \in RoomIds, LecturerAssert(i)
       PROVE  Goal
  <2> DEFINE x == [rooms[i] EXCEPT !.proofs = @ + 1]
  <2>1. /\ x \in Room /\ x.owner = rooms[i].owner /\ x.lecturer = rooms[i].lecturer
        /\ x.mode = rooms[i].mode /\ x.status = rooms[i].status /\ x.scanned = rooms[i].scanned
        /\ x.ended = rooms[i].ended /\ x.proofs >= rooms[i].proofs
    BY <1>b DEF Room
  <2>2. /\ rooms' = [rooms EXCEPT ![i] = x] /\ UNCHANGED <<attendance, req, roomLock, answered, lostWrites>>
        /\ ticket' = [ticket EXCEPT ![i] = rooms[i].lecturer]
    BY <1>10 DEF LecturerAssert
  <2> HIDE DEF x
  <2>3. TablesOK' /\ Grows /\ RoomIds' = RoomIds /\ \A a \in attendance' : a.room \in RoomIds'
    BY <2>1, <2>2, UpdateTyped
  <2>4. ticket' \in [1..MaxRooms -> Lecturer \cup {NoOne}]
    BY <1>b, <1>c, <2>2 DEF Room
  <2>5. TargetInv'
    BY <1>a, <2>2, <2>3 DEF TargetInv
  <2> QED
    BY <1>a, <2>2, <2>3, <2>4, <2>5 DEF CloudTyped, SlotsOK
<1>11. ASSUME NEW i \in RoomIds, TicketExpires(i)
       PROVE  Goal
  <2>1. /\ UNCHANGED <<rooms, attendance, req, roomLock, answered, lostWrites>>
        /\ ticket' \in [1..MaxRooms -> Lecturer \cup {NoOne}]
    BY <1>11, <1>c DEF TicketExpires
  <2>2. \A j \in RoomIds : rooms[j].proofs >= rooms[j].proofs
    BY <1>b DEF Room
  <2> QED
    BY <1>a, <2>1, <2>2 DEF CloudTyped, SlotsOK, TablesOK, TargetInv, Grows, RoomIds
<1>12. ASSUME NEW r \in Request, NEW i \in RoomIds, LecturerGateScan(r, i)
       PROVE  Goal
  <2> DEFINE y == [op |-> IF rooms[i].lecturer \in Biometric THEN "scanGet" ELSE "scanWrite",
                   room |-> i, seen |-> GateView(i), quorate |-> Quorate(i)]
  <2>1. GateView(i) \in View /\ Quorate(i) \in BOOLEAN
    BY <1>b DEF GateView, View, Room, Quorate
  <2>2. y \in AnyReq /\ y.room = i
    BY <1>b, <2>1 DEF AnyReq, ScanReq
  <2> HIDE DEF y
  <2> QED
    BY <1>12, <1>c, <2>2, ReadOnly DEF LecturerGateScan, y
<1>13. ASSUME NEW r \in Request, LecturerGateTicket(r)
       PROVE  Goal
  <2>1. req[r] \in ScanReq /\ req[r].room \in RoomIds
    BY <1>13, <1>a, ReqShape DEF LecturerGateTicket, TargetInv
  <2> DEFINE y == [req[r] EXCEPT !.op = "scanDel"]
  <2>2. y \in ScanReq /\ y.room = req[r].room
    BY <2>1 DEF ScanReq
  <2>3. y \in AnyReq
    BY <2>2 DEF AnyReq
  <2>4. Goto(r, Idle) \/ Goto(r, y)
    BY <1>13 DEF LecturerGateTicket, Finish
  <2> HIDE DEF y
  <2>5. UNCHANGED <<rooms, attendance, roomLock, ticket, answered, lostWrites>>
    BY <1>13 DEF LecturerGateTicket
  <2> QED
    BY <1>c, <1>d, <2>1, <2>2, <2>3, <2>4, <2>5, ReadOnly
<1>14. ASSUME NEW r \in Request, LecturerGateSpend(r)
       PROVE  Goal
  <2>1. req[r] \in ScanReq /\ req[r].room \in RoomIds
    BY <1>14, <1>a, ReqShape DEF LecturerGateSpend, TargetInv
  <2> DEFINE y == [req[r] EXCEPT !.op = "scanWrite"]
  <2>2. y \in ScanReq /\ y.room = req[r].room
    BY <2>1 DEF ScanReq
  <2>3. y \in AnyReq /\ Goto(r, y)
    BY <1>14, <2>2 DEF AnyReq, LecturerGateSpend
  <2> HIDE DEF y
  <2>4. /\ UNCHANGED <<rooms, attendance, roomLock, answered, lostWrites>>
        /\ ticket' \in [1..MaxRooms -> Lecturer \cup {NoOne}]
    BY <1>14, <1>c DEF LecturerGateSpend
  <2> QED
    BY <1>c, <2>1, <2>2, <2>3, <2>4, ReadOnly
<1>g. ASSUME NEW i \in RoomIds, NEW R, R \in {StartGate(i), EndGate(i)}
      PROVE  \E x \in Room :
                /\ R = [rooms EXCEPT ![i] = x]
                /\ x.owner = rooms[i].owner /\ x.lecturer = rooms[i].lecturer
                /\ x.mode = rooms[i].mode /\ x.status = rooms[i].status
                /\ rooms[i].scanned => x.scanned
                /\ rooms[i].ended => x.ended
                /\ x.proofs = rooms[i].proofs
  <2> DEFINE a == [rooms[i] EXCEPT !.scanned = TRUE, !.gateWrites = @ + 1]
             b == [rooms[i] EXCEPT !.ended = TRUE, !.hours = "scan", !.gateWrites = @ + 1]
  <2>0. rooms[i] \in Room /\ rooms[i].gateWrites + 1 \in Nat
    BY <1>b DEF Room
  <2>1. /\ a \in Room
        /\ a.owner = rooms[i].owner /\ a.lecturer = rooms[i].lecturer
        /\ a.mode = rooms[i].mode /\ a.status = rooms[i].status
        /\ a.scanned = TRUE /\ a.ended = rooms[i].ended
        /\ a.proofs = rooms[i].proofs
    BY <2>0 DEF Room
  <2>2. /\ b \in Room
        /\ b.owner = rooms[i].owner /\ b.lecturer = rooms[i].lecturer
        /\ b.mode = rooms[i].mode /\ b.status = rooms[i].status
        /\ b.scanned = rooms[i].scanned /\ b.ended = TRUE
        /\ b.proofs = rooms[i].proofs
    BY <2>0 DEF Room
  <2>3. StartGate(i) = [rooms EXCEPT ![i] = a]
    BY <1>a DEF StartGate, TablesOK, RoomIds
  <2>4. EndGate(i) = [rooms EXCEPT ![i] = b]
    BY <1>a DEF EndGate, TablesOK, RoomIds
  <2> HIDE DEF a, b
  <2> QED
    BY <1>g, <2>1, <2>2, <2>3, <2>4
<1>15. ASSUME NEW r \in Request, LecturerGateWrite(r)
       PROVE  Goal
  <2> DEFINE i == req[r].room
  <2>1. i \in RoomIds
    BY <1>15, <1>a, ReqShape DEF LecturerGateWrite, TargetInv
  <2>2. rooms' = rooms \/ rooms' \in {StartGate(i), EndGate(i)}
    BY <1>15 DEF LecturerGateWrite
  <2>3. Goto(r, Idle) /\ UNCHANGED <<attendance, roomLock, ticket, answered, lostWrites>>
    BY <1>15 DEF LecturerGateWrite, Finish
  <2> HIDE DEF i
  <2>4. CASE rooms' = rooms
    BY <1>c, <1>d, <2>3, <2>4, ReadOnly
  <2>5. CASE rooms' \in {StartGate(i), EndGate(i)}
    BY <1>d, <1>e, <1>g, <2>1, <2>3, <2>5
  <2> QED
    BY <2>2, <2>4, <2>5
<1>16. ASSUME NEW r \in Request, NEW l \in Lecturer, StartOnlineClass(r, l)
       PROVE  Goal
  <2> DEFINE y == [op |-> "online", lect |-> l]
  <2>1. y \in AnyReq /\ y \notin RoomReq \cup CheckReq \cup ScanReq
    BY DEF AnyReq, OnlineReq, RoomReq, CheckReq, ScanReq
  <2> HIDE DEF y
  <2> QED
    BY <1>16, <1>c, <2>1, ReadOnly DEF StartOnlineClass, y
<1>17. ASSUME NEW r \in Request, StartOnlineClassInsert(r)
       PROVE  Goal
  <2> DEFINE x == NewRoom(NoOne, req[r].lect, "ONLINE")
  <2>1. req[r] \in OnlineReq
    BY <1>17, <1>a, ReqShape DEF StartOnlineClassInsert
  <2>2. x \in Room
    BY <2>1 DEF NewRoom, Room, OnlineReq
  <2> HIDE DEF x
  <2>3. TablesOK' /\ Grows /\ RoomIds \subseteq RoomIds' /\ \A a \in attendance' : a.room \in RoomIds'
    BY <1>17, <2>2, InsertTyped DEF StartOnlineClassInsert, x
  <2>4. req' \in [Request -> AnyReq] /\ TargetInv'
    BY <1>17, <1>d, <2>3, GotoTyped DEF StartOnlineClassInsert, Finish
  <2> QED
    BY <1>17, <1>c, <2>3, <2>4 DEF CloudTyped, SlotsOK, StartOnlineClassInsert
<1>18. ASSUME NEW r \in Request, NEW l \in Lecturer, EndOnlineClass(r, l)
       PROVE  Goal
  <2> DEFINE i == CurrentOnlineClass(l)
             y == [op |-> "endLog", room |-> i]
  <2>1. i \in RoomIds
    BY <1>18, <1>a, CurrentClass DEF EndOnlineClass
  <2>2. y \in AnyReq /\ y.room = i
    BY <1>b, <2>1 DEF AnyReq, RoomReq
  <2> HIDE DEF y, i
  <2> QED
    BY <1>18, <1>c, <2>1, <2>2, ReadOnly DEF EndOnlineClass, y, i
<1>19. ASSUME NEW r \in Request, EndOnlineClassLog(r)
       PROVE  Goal
  <2> DEFINE i == req[r].room
             y == [req[r] EXCEPT !.op = "endRoom"]
  <2>1. i \in RoomIds /\ req[r] \in RoomReq
    BY <1>19, <1>a, ReqShape DEF EndOnlineClassLog, TargetInv
  <2>2. y \in RoomReq /\ y.room = i
    BY <2>1 DEF RoomReq
  <2>3. y \in AnyReq
    BY <2>2 DEF AnyReq
  <2>4. Goto(r, y) /\ UNCHANGED <<attendance, roomLock, ticket, answered, lostWrites>>
    BY <1>19 DEF EndOnlineClassLog
  <2>5. rooms' = rooms \/ rooms' \in {StartGate(i), EndGate(i)}
    BY <1>19 DEF EndOnlineClassLog
  <2> HIDE DEF i, y
  <2>6. CASE rooms' = rooms
    BY <1>c, <2>1, <2>2, <2>3, <2>4, <2>6, ReadOnly
  <2>7. CASE rooms' \in {StartGate(i), EndGate(i)}
    BY <1>e, <1>g, <2>1, <2>2, <2>3, <2>4, <2>7
  <2> QED
    BY <2>5, <2>6, <2>7
<1>20. ASSUME NEW r \in Request, EndOnlineClassRoom(r)
       PROVE  Goal
  <2> DEFINE i == req[r].room
             x == [rooms[i] EXCEPT !.status = "CLOSED"]
  <2>0. i \in RoomIds
    BY <1>20, <1>a, ReqShape DEF EndOnlineClassRoom, TargetInv
  <2>1. /\ x \in Room /\ x.owner = rooms[i].owner /\ x.lecturer = rooms[i].lecturer
        /\ x.mode = rooms[i].mode /\ x.status = "CLOSED" /\ x.scanned = rooms[i].scanned
        /\ x.ended = rooms[i].ended /\ x.proofs = rooms[i].proofs
    BY <1>b, <2>0 DEF Room
  <2>2. rooms' = [rooms EXCEPT ![i] = x] /\ Goto(r, Idle)
        /\ UNCHANGED <<attendance, roomLock, ticket, answered, lostWrites>>
    BY <1>20 DEF EndOnlineClassRoom, Finish
  <2> HIDE DEF x, i
  <2> QED
    BY <1>d, <1>e, <2>0, <2>1, <2>2
<1>21. ASSUME NEW r \in Request, CancelRequest(r)
       PROVE  Goal
  <2>1. roomLock' \in [Coordinator -> Request \cup {NoOne}]
    BY <1>21, <1>c DEF CancelRequest
  <2> QED
    BY <1>21, <1>c, <1>d, <2>1, ReadOnly DEF CancelRequest, Finish
<1>22. CASE UNCHANGED cloudVars
  <2>1. \A j \in RoomIds : rooms[j].proofs >= rooms[j].proofs
    BY <1>b DEF Room
  <2> QED
    BY <1>22, <1>a, <2>1 DEF cloudVars, CloudTyped, SlotsOK, TablesOK, TargetInv, Grows, RoomIds
<1> HIDE DEF Goal
<1>23. ASSUME NEW r \in Request, RoomRequestStep(r)
       PROVE  Goal
  BY <1>2, <1>3, <1>5, <1>7, <1>8, <1>13, <1>14, <1>15, <1>17, <1>19, <1>20, <1>23
     DEF RoomRequestStep
<1>24. CASE CloudNext
  <2>1. CASE \E i \in RoomIds : LecturerAssert(i) \/ TicketExpires(i)
    BY <1>10, <1>11, <2>1
  <2>2. ASSUME NEW r \in Request,
               \/ \E c \in Coordinator, l \in Lecturer \cup {NoOne} : OpenSession(r, c, l)
               \/ \E i \in RoomIds : CloseSession(r, i) \/ LecturerGateScan(r, i)
               \/ \E s \in Student, p \in Handset, i \in RoomIds : StudentCheckin(r, s, p, i)
               \/ \E l \in Lecturer : StartOnlineClass(r, l) \/ EndOnlineClass(r, l)
               \/ RoomRequestStep(r) \/ StudentCheckinInsertFails(r) \/ CancelRequest(r)
        PROVE  Goal
    BY <1>1, <1>4, <1>6, <1>9, <1>12, <1>16, <1>18, <1>21, <1>23, <2>2
  <2> QED
    BY <1>24, <2>1, <2>2 DEF CloudNext
<1> QED
  BY <1>22, <1>24

-----------------------------------------------------------------------------
(* What a step can do to one request, one session and one ticket.          *)

\* The states of a request that an invariant speaks about.
Pending == {"openInsert", "insert", "scanGet", "scanDel", "scanWrite", "endLog"}

RequestMoves(q) ==
    \/ req'[q] = req[q]
    \/ req'[q].op \notin Pending
    \/ OpenSessionLocked(q) \/ StudentCheckinGate(q)
    \/ \E i \in RoomIds : LecturerGateScan(q, i)
    \/ LecturerGateTicket(q) \/ LecturerGateSpend(q)
    \/ \E l \in Lecturer : EndOnlineClass(q, l)

SameGate(i) == /\ rooms'[i].scanned = rooms[i].scanned /\ rooms'[i].ended = rooms[i].ended
               /\ rooms'[i].gateWrites = rooms[i].gateWrites

Proved(i) == /\ SameGate(i) /\ rooms'[i].proofs = rooms[i].proofs + 1
             /\ UNCHANGED <<req, attendance>>

GateStarted(i) ==
    /\ \E r \in Request : req[r].op = "scanWrite" /\ req[r].room = i
    /\ ~rooms[i].scanned /\ rooms'[i].scanned
    /\ rooms'[i].ended = rooms[i].ended
    /\ rooms'[i].gateWrites = rooms[i].gateWrites + 1
    /\ rooms'[i].proofs = rooms[i].proofs /\ ticket' = ticket

GateEnded(i) ==
    /\ \E r \in Request : /\ req[r].room = i
                          /\ \/ req[r].op = "scanWrite" /\ req[r].seen.scanned /\ req[r].quorate
                             \/ req[r].op = "endLog"
    /\ ~rooms[i].ended /\ rooms'[i].ended
    /\ rooms'[i].scanned = rooms[i].scanned
    /\ rooms'[i].gateWrites = rooms[i].gateWrites + 1
    /\ rooms'[i].proofs = rooms[i].proofs /\ ticket' = ticket

RoomMoves(i) ==
    \/ SameGate(i) /\ rooms'[i].proofs = rooms[i].proofs
    \/ Proved(i) \/ GateStarted(i) \/ GateEnded(i)

NewRoomMoves(i) ==
    /\ rooms'[i].scanned = (rooms'[i].mode = "ONLINE")
    /\ ~rooms'[i].ended /\ rooms'[i].gateWrites = 0 /\ rooms'[i].proofs = 0
    /\ ticket' = ticket
    /\ \/ rooms'[i].mode = "ONLINE"
       \/ \E r \in Request : /\ OpenSessionCommit(r) /\ rooms'[i].owner = req[r].coord
                             /\ rooms'[i].mode = "IN_PERSON"

TicketMoves(j) ==
    \/ ticket'[j] = ticket[j] \/ ticket'[j] = NoOne
    \/ j \in RoomIds /\ rooms'[j].proofs = rooms[j].proofs + 1

\* No step moves a request in any other way.
LEMMA NextRequest ==
    ASSUME CloudTyped, [CloudNext]_cloudVars, NEW q \in Request
    PROVE  RequestMoves(q)
<1>a. req \in [Request -> AnyReq]
  BY DEF CloudTyped, SlotsOK
<1>1. ASSUME NEW r \in Request, NEW x, Goto(r, x), x.op \notin Pending
      PROVE  RequestMoves(q)
  BY <1>1, <1>a DEF Goto, RequestMoves
<1>2. ASSUME NEW r \in Request, NEW x, Goto(r, x), r # q
      PROVE  RequestMoves(q)
  BY <1>2, <1>a DEF Goto, RequestMoves
<1>3. Idle.op \notin Pending
  BY DEF Idle, Pending
<1>4. ASSUME NEW r \in Request, Finish(r)
      PROVE  RequestMoves(q)
  BY <1>1, <1>3, <1>4 DEF Finish
<1>5. ASSUME NEW r \in Request, NEW c \in Coordinator, NEW l, OpenSession(r, c, l)
      PROVE  RequestMoves(q)
  BY <1>1, <1>5 DEF OpenSession, Pending
<1>6. ASSUME NEW r \in Request, NEW i \in RoomIds, CloseSession(r, i)
      PROVE  RequestMoves(q)
  BY <1>1, <1>6 DEF CloseSession, Pending
<1>7. ASSUME NEW r \in Request, NEW i \in RoomIds, NEW s, NEW p, StudentCheckin(r, s, p, i)
      PROVE  RequestMoves(q)
  BY <1>1, <1>7 DEF StudentCheckin, Pending
<1>8. ASSUME NEW r \in Request, NEW l, StartOnlineClass(r, l)
      PROVE  RequestMoves(q)
  BY <1>1, <1>8 DEF StartOnlineClass, Pending
<1>9. ASSUME NEW r \in Request, EndOnlineClassLog(r)
      PROVE  RequestMoves(q)
  <2>1. req[r] \in RoomReq
    BY <1>9, ReqShape DEF EndOnlineClassLog, CloudTyped
  <2>2. [req[r] EXCEPT !.op = "endRoom"].op = "endRoom"
    BY <2>1 DEF RoomReq
  <2> QED
    BY <1>1, <1>9, <2>2 DEF EndOnlineClassLog, Pending
<1>10. ASSUME NEW r \in Request,
              OpenSessionLocked(r) \/ StudentCheckinGate(r) \/ LecturerGateTicket(r)
              \/ LecturerGateSpend(r)
       PROVE  RequestMoves(q)
  <2>1. CASE r = q
    BY <1>10, <2>1 DEF RequestMoves
  <2>2. CASE r # q
    <3>1. \E x : Goto(r, x)
      BY <1>10 DEF OpenSessionLocked, StudentCheckinGate, LecturerGateTicket, LecturerGateSpend, Finish
    <3> QED
      BY <1>2, <2>2, <3>1
  <2> QED
    BY <2>1, <2>2
<1>11. ASSUME NEW r \in Request, NEW i \in RoomIds, LecturerGateScan(r, i)
       PROVE  RequestMoves(q)
  <2>1. \E x : Goto(r, x)
    BY <1>11 DEF LecturerGateScan
  <2> QED
    BY <1>2, <1>11, <2>1 DEF RequestMoves
<1>12. ASSUME NEW r \in Request, NEW l \in Lecturer, EndOnlineClass(r, l)
       PROVE  RequestMoves(q)
  <2>1. \E x : Goto(r, x)
    BY <1>12 DEF EndOnlineClass
  <2> QED
    BY <1>2, <1>12, <2>1 DEF RequestMoves
<1>13. ASSUME UNCHANGED req
       PROVE  RequestMoves(q)
  BY <1>13 DEF RequestMoves
<1>14. ASSUME NEW r \in Request, RoomRequestStep(r)
       PROVE  RequestMoves(q)
  BY <1>4, <1>9, <1>10, <1>14 DEF RoomRequestStep, OpenSessionCommit, CloseSessionLog,
     StudentCheckinInsert, LecturerGateWrite, StartOnlineClassInsert, EndOnlineClassRoom
<1>15. CASE CloudNext
  <2>1. CASE \E i \in RoomIds : LecturerAssert(i) \/ TicketExpires(i)
    BY <1>13, <2>1 DEF LecturerAssert, TicketExpires
  <2>2. ASSUME NEW r \in Request,
               \/ \E c \in Coordinator, l \in Lecturer \cup {NoOne} : OpenSession(r, c, l)
               \/ \E i \in RoomIds : CloseSession(r, i) \/ LecturerGateScan(r, i)
               \/ \E s \in Student, p \in Handset, i \in RoomIds : StudentCheckin(r, s, p, i)
               \/ \E l \in Lecturer : StartOnlineClass(r, l) \/ EndOnlineClass(r, l)
               \/ RoomRequestStep(r) \/ StudentCheckinInsertFails(r) \/ CancelRequest(r)
        PROVE  RequestMoves(q)
    <3>1. CASE StudentCheckinInsertFails(r) \/ CancelRequest(r)
      BY <1>4, <3>1 DEF StudentCheckinInsertFails, CancelRequest
    <3> QED
      BY <1>5, <1>6, <1>7, <1>8, <1>11, <1>12, <1>14, <2>2, <3>1
  <2> QED
    BY <1>15, <2>1, <2>2 DEF CloudNext
<1> QED
  BY <1>13, <1>15 DEF cloudVars

\* No step moves a session's gate, or a ticket, in any other way.
LEMMA NextRoom ==
    ASSUME CloudTyped, [CloudNext]_cloudVars
    PROVE  /\ \A i \in RoomIds : RoomMoves(i)
           /\ \A i \in RoomIds' \ RoomIds : NewRoomMoves(i)
           /\ \A j \in 1..MaxRooms : TicketMoves(j)
<1> DEFINE Goal == /\ \A i \in RoomIds : RoomMoves(i)
                   /\ \A i \in RoomIds' \ RoomIds : NewRoomMoves(i)
                   /\ \A j \in 1..MaxRooms : TicketMoves(j)
<1> SUFFICES Goal
  OBVIOUS
<1>a. TablesOK /\ SlotsOK /\ TargetInv
  BY DEF CloudTyped
<1>b. \A i \in RoomIds : rooms[i] \in Room /\ i \in 1..MaxRooms
  BY <1>a, RoomTypes
<1>c. ticket \in [1..MaxRooms -> Lecturer \cup {NoOne}]
  BY <1>a DEF SlotsOK
<1>1. ASSUME rooms' = rooms, \A j \in 1..MaxRooms : ticket'[j] = ticket[j] \/ ticket'[j] = NoOne
      PROVE  Goal
  BY <1>1 DEF RoomMoves, SameGate, TicketMoves, RoomIds
<1>2. ASSUME NEW i \in RoomIds, NEW x \in Room, rooms' = [rooms EXCEPT ![i] = x], RoomMoves(i),
             \A j \in 1..MaxRooms : TicketMoves(j)
      PROVE  Goal
  <2>1. RoomIds' = RoomIds /\ \A j \in RoomIds \ {i} : rooms'[j] = rooms[j]
    BY <1>2, <1>a, UpdateRoom
  <2>2. \A j \in RoomIds \ {i} : RoomMoves(j)
    BY <2>1 DEF RoomMoves, SameGate
  <2> QED
    BY <1>2, <2>1, <2>2
<1>3. ASSUME NEW x \in Room, rooms' = Append(rooms, x), ticket' = ticket,
             NewRoomMoves(Len(rooms) + 1)
      PROVE  Goal
  <2>1. /\ RoomIds' = RoomIds \cup {Len(rooms) + 1}
        /\ \A j \in RoomIds : rooms'[j] = rooms[j]
    BY <1>3, <1>a, InsertRoom
  <2>2. \A j \in RoomIds : RoomMoves(j)
    BY <2>1 DEF RoomMoves, SameGate
  <2>3. \A j \in 1..MaxRooms : TicketMoves(j)
    BY <1>3 DEF TicketMoves
  <2> QED
    BY <1>3, <2>1, <2>2, <2>3
<1>4. ASSUME NEW r \in Request, OpenSessionCommit(r)
      PROVE  Goal
  <2> DEFINE x == NewRoom(req[r].coord, req[r].lect, "IN_PERSON")
             n == Len(rooms) + 1
  <2>1. req[r] \in OpenReq
    BY <1>4, <1>a, ReqShape DEF OpenSessionCommit
  <2>2. /\ x \in Room /\ x.owner = req[r].coord /\ x.mode = "IN_PERSON" /\ x.scanned = FALSE
        /\ x.ended = FALSE /\ x.gateWrites = 0 /\ x.proofs = 0
    BY <2>1 DEF NewRoom, Room, OpenReq
  <2>3. rooms' = Append(rooms, x) /\ ticket' = ticket
    BY <1>4 DEF OpenSessionCommit
  <2> HIDE DEF x
  <2>4. rooms'[n] = x
    BY <1>a, <2>2, <2>3, InsertRoom
  <2>5. NewRoomMoves(n)
    BY <1>4, <2>2, <2>3, <2>4 DEF NewRoomMoves
  <2> QED
    BY <1>3, <2>2, <2>3, <2>5
<1>5. ASSUME NEW r \in Request, StartOnlineClassInsert(r)
      PROVE  Goal
  <2> DEFINE x == NewRoom(NoOne, req[r].lect, "ONLINE")
             n == Len(rooms) + 1
  <2>1. req[r] \in OnlineReq
    BY <1>5, <1>a, ReqShape DEF StartOnlineClassInsert
  <2>2. /\ x \in Room /\ x.mode = "ONLINE" /\ x.scanned = TRUE
        /\ x.ended = FALSE /\ x.gateWrites = 0 /\ x.proofs = 0
    BY <2>1 DEF NewRoom, Room, OnlineReq
  <2>3. rooms' = Append(rooms, x) /\ ticket' = ticket
    BY <1>5 DEF StartOnlineClassInsert
  <2> HIDE DEF x
  <2>4. rooms'[n] = x
    BY <1>a, <2>2, <2>3, InsertRoom
  <2>5. NewRoomMoves(n)
    BY <2>2, <2>3, <2>4 DEF NewRoomMoves
  <2> QED
    BY <1>3, <2>2, <2>3, <2>5
<1>6. ASSUME NEW i \in RoomIds, NEW x \in Room, rooms' = [rooms EXCEPT ![i] = x], ticket' = ticket,
             x.scanned = rooms[i].scanned, x.ended = rooms[i].ended,
             x.gateWrites = rooms[i].gateWrites, x.proofs = rooms[i].proofs
      PROVE  Goal
  <2>1. rooms'[i] = x
    BY <1>6, <1>a, UpdateRoom
  <2>2. RoomMoves(i) /\ \A j \in 1..MaxRooms : TicketMoves(j)
    BY <1>6, <2>1 DEF RoomMoves, SameGate, TicketMoves
  <2> QED
    BY <1>2, <1>6, <2>2
<1>7. ASSUME NEW r \in Request, NEW i \in RoomIds, CloseSession(r, i)
      PROVE  Goal
  <2> DEFINE x == [rooms[i] EXCEPT !.status = "CLOSED"]
  <2>1. /\ x \in Room /\ x.scanned = rooms[i].scanned /\ x.ended = rooms[i].ended
        /\ x.gateWrites = rooms[i].gateWrites /\ x.proofs = rooms[i].proofs
    BY <1>b DEF Room
  <2>2. rooms' = [rooms EXCEPT ![i] = x] /\ ticket' = ticket
    BY <1>7 DEF CloseSession
  <2> HIDE DEF x
  <2> QED
    BY <1>6, <2>1, <2>2
<1>8. ASSUME NEW r \in Request, CloseSessionLog(r)
      PROVE  Goal
  <2> DEFINE i == req[r].room
             x == [rooms[i] EXCEPT !.hours = "gate"]
  <2>0. i \in RoomIds
    BY <1>8, <1>a, ReqShape DEF CloseSessionLog, TargetInv
  <2>1. /\ x \in Room /\ x.scanned = rooms[i].scanned /\ x.ended = rooms[i].ended
        /\ x.gateWrites = rooms[i].gateWrites /\ x.proofs = rooms[i].proofs
    BY <1>b, <2>0 DEF Room
  <2>2. (rooms' = rooms \/ rooms' = [rooms EXCEPT ![i] = x]) /\ ticket' = ticket
    BY <1>8 DEF CloseSessionLog
  <2> HIDE DEF x, i
  <2> QED
    BY <1>1, <1>6, <2>0, <2>1, <2>2
<1>9. ASSUME NEW r \in Request, EndOnlineClassRoom(r)
      PROVE  Goal
  <2> DEFINE i == req[r].room
             x == [rooms[i] EXCEPT !.status = "CLOSED"]
  <2>0. i \in RoomIds
    BY <1>9, <1>a, ReqShape DEF EndOnlineClassRoom, TargetInv
  <2>1. /\ x \in Room /\ x.scanned = rooms[i].scanned /\ x.ended = rooms[i].ended
        /\ x.gateWrites = rooms[i].gateWrites /\ x.proofs = rooms[i].proofs
    BY <1>b, <2>0 DEF Room
  <2>2. rooms' = [rooms EXCEPT ![i] = x] /\ ticket' = ticket
    BY <1>9 DEF EndOnlineClassRoom
  <2> HIDE DEF x, i
  <2> QED
    BY <1>6, <2>0, <2>1, <2>2
<1>10. ASSUME NEW i \in RoomIds, LecturerAssert(i)
       PROVE  Goal
  <2> DEFINE x == [rooms[i] EXCEPT !.proofs = @ + 1]
  <2>1. /\ x \in Room /\ x.scanned = rooms[i].scanned /\ x.ended = rooms[i].ended
        /\ x.gateWrites = rooms[i].gateWrites /\ x.proofs = rooms[i].proofs + 1
    BY <1>b DEF Room
  <2>2. /\ rooms' = [rooms EXCEPT ![i] = x] /\ UNCHANGED <<req, attendance>>
        /\ ticket' = [ticket EXCEPT ![i] = rooms[i].lecturer]
    BY <1>10 DEF LecturerAssert
  <2> HIDE DEF x
  <2>3. rooms'[i] = x
    BY <1>a, <2>1, <2>2, UpdateRoom
  <2>4. RoomMoves(i)
    BY <2>1, <2>2, <2>3 DEF RoomMoves, Proved, SameGate
  <2>5. \A j \in 1..MaxRooms : TicketMoves(j)
    BY <1>c, <2>1, <2>2, <2>3 DEF TicketMoves
  <2> QED
    BY <1>2, <2>1, <2>2, <2>4, <2>5
<1>11. ASSUME NEW i \in RoomIds,
              \E r \in Request : req[r].op = "scanWrite" /\ req[r].room = i,
              ~rooms[i].scanned, rooms' = StartGate(i), ticket' = ticket
       PROVE  Goal
  <2> DEFINE x == [rooms[i] EXCEPT !.scanned = TRUE, !.gateWrites = @ + 1]
  <2>0. rooms[i] \in Room /\ rooms[i].gateWrites + 1 \in Nat
    BY <1>b DEF Room
  <2>1. /\ x \in Room /\ x.scanned = TRUE /\ x.ended = rooms[i].ended
        /\ x.gateWrites = rooms[i].gateWrites + 1 /\ x.proofs = rooms[i].proofs
    BY <2>0 DEF Room
  <2>2. rooms' = [rooms EXCEPT ![i] = x]
    BY <1>a, <1>11 DEF StartGate, TablesOK, RoomIds
  <2> HIDE DEF x
  <2>3. rooms'[i] = x
    BY <1>a, <2>1, <2>2, UpdateRoom
  <2>4. RoomMoves(i)
    BY <1>11, <2>1, <2>3 DEF RoomMoves, GateStarted
  <2>5. \A j \in 1..MaxRooms : TicketMoves(j)
    BY <1>11 DEF TicketMoves
  <2> QED
    BY <1>2, <2>1, <2>2, <2>4, <2>5
<1>12. ASSUME NEW i \in RoomIds,
              \E r \in Request : /\ req[r].room = i
                                 /\ \/ req[r].op = "scanWrite" /\ req[r].seen.scanned /\ req[r].quorate
                                    \/ req[r].op = "endLog",
              ~rooms[i].ended, rooms' = EndGate(i), ticket' = ticket
       PROVE  Goal
  <2> DEFINE x == [rooms[i] EXCEPT !.ended = TRUE, !.hours = "scan", !.gateWrites = @ + 1]
  <2>0. rooms[i] \in Room /\ rooms[i].gateWrites + 1 \in Nat
    BY <1>b DEF Room
  <2>1. /\ x \in Room /\ x.scanned = rooms[i].scanned /\ x.ended = TRUE
        /\ x.gateWrites = rooms[i].gateWrites + 1 /\ x.proofs = rooms[i].proofs
    BY <2>0 DEF Room
  <2>2. rooms' = [rooms EXCEPT ![i] = x]
    BY <1>a, <1>12 DEF EndGate, TablesOK, RoomIds
  <2> HIDE DEF x
  <2>3. rooms'[i] = x
    BY <1>a, <2>1, <2>2, UpdateRoom
  <2>4. RoomMoves(i)
    BY <1>12, <2>1, <2>3 DEF RoomMoves, GateEnded
  <2>5. \A j \in 1..MaxRooms : TicketMoves(j)
    BY <1>12 DEF TicketMoves
  <2> QED
    BY <1>2, <2>1, <2>2, <2>4, <2>5
<1>13. ASSUME NEW r \in Request, LecturerGateWrite(r)
       PROVE  Goal
  <2> DEFINE i == req[r].room
  <2>1. i \in RoomIds /\ req[r].op = "scanWrite" /\ ticket' = ticket
    BY <1>13, <1>a, ReqShape DEF LecturerGateWrite, TargetInv
  <2>2. \/ rooms' = rooms
        \/ ~rooms[i].scanned /\ rooms' = StartGate(i)
        \/ req[r].seen.scanned /\ req[r].quorate /\ ~rooms[i].ended /\ rooms' = EndGate(i)
    BY <1>13 DEF LecturerGateWrite, IsNull
  <2> HIDE DEF i
  <2>3. CASE rooms' = rooms
    BY <1>1, <2>1, <2>3
  <2>4. CASE ~rooms[i].scanned /\ rooms' = StartGate(i)
    BY <1>11, <2>1, <2>4 DEF i
  <2>5. CASE req[r].seen.scanned /\ req[r].quorate /\ ~rooms[i].ended /\ rooms' = EndGate(i)
    BY <1>12, <2>1, <2>5 DEF i
  <2> QED
    BY <2>2, <2>3, <2>4, <2>5
<1>14. ASSUME NEW r \in Request, EndOnlineClassLog(r)
       PROVE  Goal
  <2> DEFINE i == req[r].room
  <2>1. i \in RoomIds /\ req[r].op = "endLog" /\ ticket' = ticket
    BY <1>14, <1>a, ReqShape DEF EndOnlineClassLog, TargetInv
  <2>2. \/ rooms' = rooms
        \/ ~rooms[i].ended /\ rooms' = EndGate(i)
    BY <1>14 DEF EndOnlineClassLog, IsNull
  <2> HIDE DEF i
  <2>3. CASE rooms' = rooms
    BY <1>1, <2>1, <2>3
  <2>4. CASE ~rooms[i].ended /\ rooms' = EndGate(i)
    BY <1>12, <2>1, <2>4 DEF i
  <2> QED
    BY <2>2, <2>3, <2>4
<1>15. ASSUME rooms' = rooms, ticket' = ticket
       PROVE  Goal
  BY <1>1, <1>15
<1>16. ASSUME NEW i \in 1..MaxRooms, rooms' = rooms, ticket' = [ticket EXCEPT ![i] = NoOne]
       PROVE  Goal
  BY <1>1, <1>16, <1>c
<1> HIDE DEF Goal
<1>17. ASSUME NEW r \in Request, LecturerGateSpend(r)
       PROVE  Goal
  <2>1. req[r].room \in 1..MaxRooms
    BY <1>17, <1>a, <1>b, ReqShape DEF LecturerGateSpend, TargetInv
  <2> QED
    BY <1>16, <1>17, <2>1 DEF LecturerGateSpend
<1>18. ASSUME NEW r \in Request, RoomRequestStep(r)
       PROVE  Goal
  <2>1. CASE OpenSessionLocked(r) \/ StudentCheckinGate(r) \/ StudentCheckinInsert(r)
             \/ LecturerGateTicket(r)
    BY <1>15, <2>1 DEF OpenSessionLocked, StudentCheckinGate, StudentCheckinInsert, LecturerGateTicket
  <2> QED
    BY <1>4, <1>5, <1>8, <1>9, <1>13, <1>14, <1>17, <1>18, <2>1 DEF RoomRequestStep
<1>19. CASE CloudNext
  <2>1. CASE \E i \in RoomIds : LecturerAssert(i) \/ TicketExpires(i)
    <3>1. ASSUME NEW i \in RoomIds, TicketExpires(i)
          PROVE  Goal
      BY <1>16, <1>b, <3>1 DEF TicketExpires
    <3> QED
      BY <1>10, <2>1, <3>1
  <2>2. ASSUME NEW r \in Request,
               \/ \E c \in Coordinator, l \in Lecturer \cup {NoOne} : OpenSession(r, c, l)
               \/ \E i \in RoomIds : CloseSession(r, i) \/ LecturerGateScan(r, i)
               \/ \E s \in Student, p \in Handset, i \in RoomIds : StudentCheckin(r, s, p, i)
               \/ \E l \in Lecturer : StartOnlineClass(r, l) \/ EndOnlineClass(r, l)
               \/ RoomRequestStep(r) \/ StudentCheckinInsertFails(r) \/ CancelRequest(r)
        PROVE  Goal
    <3>1. CASE \E i \in RoomIds : CloseSession(r, i)
      BY <1>7, <3>1
    <3>2. CASE RoomRequestStep(r)
      BY <1>18, <3>2
    <3> QED
      BY <1>15, <2>2, <3>1, <3>2 DEF OpenSession, LecturerGateScan, StudentCheckin,
         StartOnlineClass, EndOnlineClass, StudentCheckinInsertFails, CancelRequest
  <2> QED
    BY <1>19, <2>1, <2>2 DEF CloudNext
<1> QED
  BY <1>15, <1>19 DEF cloudVars

-----------------------------------------------------------------------------
(* The invariants, one by one.  In each, Step stands for what the lemmas   *)
(* above say of any step.                                                  *)

Step ==
    /\ CloudTyped /\ CloudTyped' /\ Grows
    /\ \A q \in Request : RequestMoves(q)
    /\ \A i \in RoomIds : RoomMoves(i)
    /\ \A i \in RoomIds' \ RoomIds : NewRoomMoves(i)
    /\ \A j \in 1..MaxRooms : TicketMoves(j)

\* The names of the facts above.
LEMMA StepFacts ==
    ASSUME CloudTyped, [CloudNext]_cloudVars
    PROVE  Step
BY NextTyped, NextRequest, NextRoom DEF Step

\* Only the holder gives a coordinator's lock back.
LEMMA LockKept ==
    ASSUME CloudTyped, LockInv, [CloudNext]_cloudVars, NEW q \in Request, NEW c \in Coordinator,
           roomLock[c] = q, req'[q] = req[q], req[q].op = "openInsert"
    PROVE  roomLock'[c] = q
<1>a. SlotsOK /\ q # NoOne
  BY CloudRoomAssumption DEF CloudTyped
<1>b. roomLock \in [Coordinator -> Request \cup {NoOne}] /\ req \in [Request -> AnyReq]
  BY <1>a DEF SlotsOK
<1>c. Idle.op = "idle" /\ req[q] # Idle
  BY DEF Idle
<1>1. ASSUME NEW r \in Request, OpenSessionLocked(r)
      PROVE  roomLock'[c] = q
  BY <1>1, <1>a, <1>b DEF OpenSessionLocked, LockFree
<1>2. ASSUME NEW r \in Request, OpenSessionCommit(r)
      PROVE  roomLock'[c] = q
  <2>1. req[r] \in OpenReq /\ req[r].coord \in Coordinator /\ roomLock[req[r].coord] = r
    BY <1>2, <1>a, ReqShape DEF OpenSessionCommit, OpenReq, LockInv
  <2>2. r # q
    BY <1>2, <1>b, <1>c DEF OpenSessionCommit, Finish, Goto
  <2> QED
    BY <1>2, <1>b, <2>1, <2>2 DEF OpenSessionCommit
<1>3. ASSUME NEW r \in Request, CancelRequest(r)
      PROVE  roomLock'[c] = q
  <2>1. r # q
    BY <1>3, <1>b, <1>c DEF CancelRequest, Finish, Goto
  <2> QED
    BY <1>3, <1>b, <2>1 DEF CancelRequest
<1>4. ASSUME NEW r \in Request, RoomRequestStep(r)
      PROVE  roomLock'[c] = q
  BY <1>1, <1>2, <1>4 DEF RoomRequestStep, CloseSessionLog, StudentCheckinGate, StudentCheckinInsert,
     LecturerGateTicket, LecturerGateSpend, LecturerGateWrite, StartOnlineClassInsert,
     EndOnlineClassLog, EndOnlineClassRoom
<1> QED
  BY <1>3, <1>4 DEF CloudNext, cloudVars, OpenSession, CloseSession, LecturerGateScan, StudentCheckin,
     StartOnlineClass, EndOnlineClass, StudentCheckinInsertFails, LecturerAssert, TicketExpires

\* The lock makes "already open?" and the INSERT one decision.
LEMMA NextLock ==
    ASSUME CloudTyped, LockInv, OneOpenRoom, [CloudNext]_cloudVars
    PROVE  LockInv' /\ OneOpenRoom'
<1>a. Step
  BY StepFacts
<1>b. SlotsOK /\ TablesOK /\ SlotsOK' /\ roomLock \in [Coordinator -> Request \cup {NoOne}]
      /\ req \in [Request -> AnyReq]
  BY <1>a DEF Step, CloudTyped, SlotsOK
<1>c. Idle.op = "idle"
  BY DEF Idle
<1>1. ASSUME NEW i \in RoomIds' \ RoomIds, rooms'[i].mode = "IN_PERSON"
      PROVE  \E r \in Request : /\ req[r].op = "openInsert" /\ req[r].coord = rooms'[i].owner
                                /\ req'[r].op # "openInsert"
  <2>1. PICK r \in Request : OpenSessionCommit(r) /\ rooms'[i].owner = req[r].coord
    BY <1>1, <1>a DEF Step, NewRoomMoves
  <2>2. req'[r].op # "openInsert"
    BY <1>b, <1>c, <2>1 DEF OpenSessionCommit, Finish, Goto
  <2> QED
    BY <2>1, <2>2 DEF OpenSessionCommit
<1>2. ASSUME NEW i \in RoomIds', i \notin RoomIds, NEW j \in RoomIds', j \notin RoomIds
      PROVE  i = j
  <2>1. (RoomIds' = RoomIds) \/ (RoomIds' = RoomIds \cup {Len(rooms) + 1})
    <3>1. ASSUME NEW r \in Request, OpenSessionCommit(r) \/ StartOnlineClassInsert(r)
          PROVE  RoomIds' = RoomIds \cup {Len(rooms) + 1}
      <4>1. PICK x : rooms' = Append(rooms, x)
        BY <3>1 DEF OpenSessionCommit, StartOnlineClassInsert
      <4>2. Len(rooms) \in Nat /\ RoomIds = 1 .. Len(rooms)
        BY <1>b, RoomTypes
      <4>3. DOMAIN Append(rooms, x) = 1 .. (Len(rooms) + 1)
        BY <4>2
      <4> QED
        BY <4>1, <4>2, <4>3 DEF RoomIds
    <3>2. ASSUME NEW k, NEW x, rooms' = [rooms EXCEPT ![k] = x]
          PROVE  RoomIds' = RoomIds
      BY <1>b, <3>2 DEF RoomIds, TablesOK
    <3>3. ASSUME rooms' = rooms
          PROVE  RoomIds' = RoomIds
      BY <3>3 DEF RoomIds
    <3>4. ASSUME NEW k, rooms' \in {StartGate(k), EndGate(k)}
          PROVE  RoomIds' = RoomIds
      BY <1>b, <3>4 DEF RoomIds, StartGate, EndGate, TablesOK
    <3>5. ASSUME NEW r \in Request, RoomRequestStep(r)
          PROVE  RoomIds' = RoomIds \/ RoomIds' = RoomIds \cup {Len(rooms) + 1}
      <4>1. CASE CloseSessionLog(r)
        BY <3>2, <3>3, <4>1 DEF CloseSessionLog
      <4>2. CASE LecturerGateWrite(r)
        BY <3>3, <3>4, <4>2 DEF LecturerGateWrite
      <4>3. CASE EndOnlineClassLog(r)
        BY <3>3, <3>4, <4>3 DEF EndOnlineClassLog
      <4>4. CASE EndOnlineClassRoom(r)
        BY <3>2, <4>4 DEF EndOnlineClassRoom
      <4>5. CASE OpenSessionLocked(r) \/ StudentCheckinGate(r) \/ StudentCheckinInsert(r)
                 \/ LecturerGateTicket(r) \/ LecturerGateSpend(r)
        BY <3>3, <4>5 DEF OpenSessionLocked, StudentCheckinGate, StudentCheckinInsert,
           LecturerGateTicket, LecturerGateSpend
      <4> QED
        BY <3>1, <3>5, <4>1, <4>2, <4>3, <4>4, <4>5 DEF RoomRequestStep
    <3>6. ASSUME NEW k \in RoomIds, LecturerAssert(k)
          PROVE  RoomIds' = RoomIds
      BY <3>2, <3>6 DEF LecturerAssert
    <3>7. ASSUME NEW r \in Request, NEW k \in RoomIds, CloseSession(r, k)
          PROVE  RoomIds' = RoomIds
      BY <3>2, <3>7 DEF CloseSession
    <3> QED
      BY <3>3, <3>5, <3>6, <3>7 DEF CloudNext, cloudVars, OpenSession, LecturerGateScan,
         StudentCheckin, StartOnlineClass, EndOnlineClass, StudentCheckinInsertFails,
         CancelRequest, TicketExpires
  <2> QED
    BY <1>2, <2>1
<1>3. LockInv'
  <2> SUFFICES ASSUME NEW q \in Request, req'[q].op = "openInsert"
               PROVE  /\ roomLock'[req'[q].coord] = q
                      /\ \A i \in RoomIds' : ~ /\ rooms'[i].mode = "IN_PERSON" /\ rooms'[i].status = "ACTIVE"
                                               /\ rooms'[i].owner = req'[q].coord
    BY DEF LockInv
  <2>1. CASE req'[q] = req[q]
    <3>1. /\ roomLock[req[q].coord] = q /\ req[q].coord \in Coordinator
          /\ \A i \in RoomIds : ~ /\ rooms[i].mode = "IN_PERSON" /\ rooms[i].status = "ACTIVE"
                                  /\ rooms[i].owner = req[q].coord
      BY <1>b, <2>1, ReqShape DEF LockInv, OpenReq
    <3>2. roomLock'[req'[q].coord] = q
      BY <2>1, <3>1, LockKept
    <3>3. ASSUME NEW i \in RoomIds'
          PROVE  ~ /\ rooms'[i].mode = "IN_PERSON" /\ rooms'[i].status = "ACTIVE"
                   /\ rooms'[i].owner = req'[q].coord
      <4>1. CASE i \in RoomIds
        BY <1>a, <2>1, <3>1, <4>1 DEF Step, Grows
      <4>2. CASE i \notin RoomIds /\ rooms'[i].mode = "IN_PERSON" /\ rooms'[i].owner = req'[q].coord
        <5>1. PICK r \in Request : /\ req[r].op = "openInsert" /\ req[r].coord = req'[q].coord
                                   /\ req'[r].op # "openInsert"
          BY <1>1, <4>2
        <5>2. roomLock[req[r].coord] = r
          BY <5>1 DEF LockInv
        <5> QED
          BY <2>1, <3>1, <5>1, <5>2
      <4> QED
        BY <4>1, <4>2
    <3> QED
      BY <3>2, <3>3
  <2>2. CASE OpenSessionLocked(q)
    <3>1. req[q] \in OpenReq /\ req[q].coord \in Coordinator
      BY <1>b, <2>2, ReqShape DEF OpenSessionLocked, OpenReq
    <3>2. /\ ~HasOpenRoom(req[q].coord) /\ Goto(q, [req[q] EXCEPT !.op = "openInsert"])
          /\ roomLock' = [roomLock EXCEPT ![req[q].coord] = q] /\ rooms' = rooms
      BY <1>b, <1>c, <2>2 DEF OpenSessionLocked, Finish, Goto
    <3>3. req'[q].coord = req[q].coord
      BY <1>b, <3>1, <3>2 DEF Goto, OpenReq
    <3> QED
      BY <1>b, <3>1, <3>2, <3>3 DEF HasOpenRoom, RoomIds
  <2>3. CASE StudentCheckinGate(q)
    <3>1. req[q] \in CheckReq
      BY <1>b, <2>3, ReqShape DEF StudentCheckinGate
    <3>2. Finish(q) \/ Goto(q, [req[q] EXCEPT !.op = "insert"])
      BY <2>3 DEF StudentCheckinGate
    <3> QED
      BY <1>b, <1>c, <3>1, <3>2 DEF Finish, Goto, CheckReq
  <2>4. CASE \E i \in RoomIds : LecturerGateScan(q, i)
    BY <1>b, <2>4 DEF LecturerGateScan, Goto
  <2>5. CASE LecturerGateTicket(q) \/ LecturerGateSpend(q)
    <3>1. req[q] \in ScanReq
      BY <1>b, <2>5, ReqShape DEF LecturerGateTicket, LecturerGateSpend
    <3>2. Finish(q) \/ \E o \in {"scanDel", "scanWrite"} : Goto(q, [req[q] EXCEPT !.op = o])
      BY <2>5 DEF LecturerGateTicket, LecturerGateSpend
    <3> QED
      BY <1>b, <1>c, <3>1, <3>2 DEF Finish, Goto, ScanReq
  <2>6. CASE \E l \in Lecturer : EndOnlineClass(q, l)
    BY <1>b, <2>6 DEF EndOnlineClass, Goto
  <2> QED
    BY <1>a, <2>1, <2>2, <2>3, <2>4, <2>5, <2>6 DEF Step, RequestMoves, Pending
<1>4. OneOpenRoom'
  <2> SUFFICES ASSUME NEW i \in RoomIds', NEW j \in RoomIds',
                      rooms'[i].mode = "IN_PERSON", rooms'[j].mode = "IN_PERSON",
                      rooms'[i].status = "ACTIVE", rooms'[j].status = "ACTIVE",
                      rooms'[i].owner = rooms'[j].owner
               PROVE  i = j
    BY DEF OneOpenRoom
  <2>1. CASE i \in RoomIds /\ j \in RoomIds
    BY <1>a, <2>1 DEF Step, Grows, OneOpenRoom
  <2>2. ASSUME NEW m \in RoomIds, NEW n \in RoomIds', n \notin RoomIds,
               rooms'[n].mode = "IN_PERSON", rooms'[m].mode = "IN_PERSON",
               rooms'[m].status = "ACTIVE", rooms'[m].owner = rooms'[n].owner
        PROVE  FALSE
    <3>1. PICK r \in Request : req[r].op = "openInsert" /\ req[r].coord = rooms'[n].owner
      BY <1>1, <2>2
    <3>2. rooms[m].mode = "IN_PERSON" /\ rooms[m].status = "ACTIVE" /\ rooms[m].owner = req[r].coord
      BY <1>a, <2>2, <3>1 DEF Step, Grows
    <3> QED
      BY <3>1, <3>2 DEF LockInv
  <2> QED
    BY <1>2, <2>1, <2>2
<1> QED
  BY <1>3, <1>4

-----------------------------------------------------------------------------
(* How a request comes to hold what an invariant says of it.               *)

CheckinPassed(q) ==
    /\ UNCHANGED <<rooms, attendance>>
    /\ req'[q] \in CheckReq /\ req'[q].op = "insert"
    /\ req'[q].room \in RoomIds /\ rooms[req'[q].room].scanned

ScanRead(q) ==
    /\ UNCHANGED <<rooms, attendance, ticket>>
    /\ req'[q] \in ScanReq /\ req'[q].room \in RoomIds
    /\ req'[q].op \in {"scanGet", "scanWrite"}
    /\ req'[q].op = "scanWrite" => rooms[req'[q].room].lecturer \notin Biometric
    /\ rooms[req'[q].room].lecturer # NoOne /\ rooms[req'[q].room].mode = "IN_PERSON"
    /\ req'[q].seen.scanned = rooms[req'[q].room].scanned
    /\ req'[q].quorate = Quorate(req'[q].room)

ScanMoved(q) ==
    /\ UNCHANGED <<rooms, attendance>>
    /\ req[q] \in ScanReq /\ req'[q] \in ScanReq /\ req[q].room \in RoomIds
    /\ req'[q].room = req[q].room /\ req'[q].seen = req[q].seen /\ req'[q].quorate = req[q].quorate
    /\ \/ /\ req[q].op = "scanGet" /\ req'[q].op = "scanDel"
          /\ ticket[req[q].room] = rooms[req[q].room].lecturer /\ ticket' = ticket
       \/ /\ req[q].op = "scanDel" /\ req'[q].op = "scanWrite"
          /\ ticket' = [ticket EXCEPT ![req[q].room] = NoOne]

EndChecked(q) ==
    /\ UNCHANGED <<rooms, attendance>>
    /\ req'[q] \in RoomReq /\ req'[q].op = "endLog" /\ req'[q].room \in RoomIds
    /\ rooms[req'[q].room].mode = "ONLINE" /\ Quorate(req'[q].room)

RequestFacts(q) ==
    \/ req'[q] = req[q]
    \/ req'[q].op \notin Pending \ {"openInsert"}
    \/ CheckinPassed(q) \/ ScanRead(q) \/ ScanMoved(q) \/ EndChecked(q)

\* A quorum is a truth value.
LEMMA QuorateType == ASSUME NEW i PROVE Quorate(i) \in BOOLEAN
BY DEF Quorate

\* A request holds only what its own reads found.
LEMMA ReadFacts ==
    ASSUME Step, NEW q \in Request
    PROVE  RequestFacts(q)
<1>a. SlotsOK /\ TablesOK /\ TargetInv /\ req \in [Request -> AnyReq]
  BY DEF Step, CloudTyped, SlotsOK
<1>b. Idle.op \notin Pending
  BY DEF Idle, Pending
<1>c. \A i \in RoomIds : rooms[i] \in Room /\ i \in Nat
  BY <1>a, RoomTypes
<1>0. ASSUME Finish(q)
      PROVE  RequestFacts(q)
  BY <1>0, <1>a, <1>b DEF Finish, Goto, RequestFacts
<1>1. CASE OpenSessionLocked(q)
  <2>1. CASE Goto(q, [req[q] EXCEPT !.op = "openInsert"])
    <3>1. req[q] \in OpenReq
      BY <1>1, <1>a, ReqShape DEF OpenSessionLocked
    <3>2. req'[q].op = "openInsert"
      BY <1>a, <2>1, <3>1 DEF Goto, OpenReq
    <3> QED
      BY <3>2 DEF RequestFacts
  <2> QED
    BY <1>0, <1>1, <2>1 DEF OpenSessionLocked
<1>2. CASE StudentCheckinGate(q)
  <2>1. req[q] \in CheckReq /\ req[q].room \in RoomIds
    BY <1>2, <1>a, ReqShape DEF StudentCheckinGate, TargetInv
  <2>2. CASE Goto(q, [req[q] EXCEPT !.op = "insert"]) /\ LecturerStarted(req[q].room)
    <3>1. req'[q] \in CheckReq /\ req'[q].op = "insert" /\ req'[q].room = req[q].room
      BY <1>a, <2>1, <2>2 DEF Goto, CheckReq
    <3> QED
      BY <1>2, <2>1, <2>2, <3>1 DEF StudentCheckinGate, LecturerStarted, RequestFacts, CheckinPassed
  <2> QED
    BY <1>0, <1>2, <2>2 DEF StudentCheckinGate
<1>3. ASSUME NEW i \in RoomIds, LecturerGateScan(q, i)
      PROVE  RequestFacts(q)
  <2> DEFINE x == [op |-> IF rooms[i].lecturer \in Biometric THEN "scanGet" ELSE "scanWrite",
                   room |-> i, seen |-> GateView(i), quorate |-> Quorate(i)]
  <2>1. GateView(i) \in View /\ GateView(i).scanned = rooms[i].scanned
    BY <1>c DEF GateView, View, Room
  <2>2. Quorate(i) \in BOOLEAN
    BY QuorateType
  <2>3. /\ x \in ScanReq /\ x.room = i /\ x.seen.scanned = rooms[i].scanned /\ x.quorate = Quorate(i)
        /\ x.op \in {"scanGet", "scanWrite"}
        /\ x.op = "scanWrite" => rooms[i].lecturer \notin Biometric
    BY <1>c, <2>1, <2>2 DEF ScanReq
  <2>4. req'[q] = x
    BY <1>3, <1>a DEF LecturerGateScan, Goto
  <2> HIDE DEF x
  <2> QED
    BY <1>3, <2>3, <2>4 DEF LecturerGateScan, RequestFacts, ScanRead
<1>4. CASE LecturerGateTicket(q)
  <2>1. req[q] \in ScanReq /\ req[q].room \in RoomIds
    BY <1>4, <1>a, ReqShape DEF LecturerGateTicket, TargetInv
  <2>2. CASE /\ Goto(q, [req[q] EXCEPT !.op = "scanDel"])
             /\ ticket[req[q].room] = rooms[req[q].room].lecturer
    <3>1. /\ req'[q] \in ScanReq /\ req'[q].op = "scanDel" /\ req'[q].room = req[q].room
          /\ req'[q].seen = req[q].seen /\ req'[q].quorate = req[q].quorate
      BY <1>a, <2>1, <2>2 DEF Goto, ScanReq
    <3> QED
      BY <1>4, <2>1, <2>2, <3>1 DEF LecturerGateTicket, RequestFacts, ScanMoved
  <2> QED
    BY <1>0, <1>4, <2>2 DEF LecturerGateTicket
<1>5. CASE LecturerGateSpend(q)
  <2>1. req[q] \in ScanReq /\ req[q].room \in RoomIds
    BY <1>5, <1>a, ReqShape DEF LecturerGateSpend, TargetInv
  <2>2. /\ req'[q] \in ScanReq /\ req'[q].op = "scanWrite" /\ req'[q].room = req[q].room
        /\ req'[q].seen = req[q].seen /\ req'[q].quorate = req[q].quorate
    BY <1>5, <1>a, <2>1 DEF LecturerGateSpend, Goto, ScanReq
  <2> QED
    BY <1>5, <2>1, <2>2 DEF LecturerGateSpend, RequestFacts, ScanMoved
<1>6. ASSUME NEW l \in Lecturer, EndOnlineClass(q, l)
      PROVE  RequestFacts(q)
  <2>1. CurrentOnlineClass(l) \in RoomIds /\ rooms[CurrentOnlineClass(l)].mode = "ONLINE"
    BY <1>6, <1>a, CurrentClass DEF EndOnlineClass
  <2>2. req'[q] = [op |-> "endLog", room |-> CurrentOnlineClass(l)]
    BY <1>6, <1>a DEF EndOnlineClass, Goto
  <2>3. req'[q] \in RoomReq /\ req'[q].op = "endLog" /\ req'[q].room = CurrentOnlineClass(l)
    BY <1>c, <2>1, <2>2 DEF RoomReq
  <2> QED
    BY <1>6, <2>1, <2>3 DEF EndOnlineClass, RequestFacts, EndChecked
<1>7. CASE req'[q] = req[q] \/ req'[q].op \notin Pending
  BY <1>7 DEF RequestFacts
<1> QED
  BY <1>1, <1>2, <1>3, <1>4, <1>5, <1>6, <1>7 DEF Step, RequestMoves

\* A check-in that passed the gate stays past it: no gate is ever unset.
LEMMA NextStarted ==
    ASSUME Step, StartedInv
    PROVE  StartedInv'
<1>a. SlotsOK /\ SlotsOK' /\ TargetInv /\ Grows
  BY DEF Step, CloudTyped
<1>1. ASSUME NEW q \in Request, req'[q].op = "insert"
      PROVE  rooms'[req'[q].room].scanned
  <2>1. CASE req'[q] = req[q]
    <3>1. req[q].room \in RoomIds /\ rooms[req[q].room].scanned
      BY <1>1, <1>a, <2>1, ReqShape DEF StartedInv, TargetInv
    <3> QED
      BY <1>a, <2>1, <3>1 DEF Grows
  <2>2. CASE CheckinPassed(q)
    BY <2>2 DEF CheckinPassed
  <2>3. ~ScanRead(q) /\ ~ScanMoved(q) /\ ~EndChecked(q) /\ req'[q].op \in Pending \ {"openInsert"}
    BY <1>1 DEF ScanRead, ScanMoved, EndChecked, Pending
  <2> QED
    BY <2>1, <2>2, <2>3, ReadFacts DEF RequestFacts
<1>2. ASSUME NEW i \in RoomIds', rooms'[i].mode = "ONLINE"
      PROVE  rooms'[i].scanned
  <2>1. CASE i \in RoomIds
    BY <1>2, <1>a, <2>1 DEF Grows, StartedInv
  <2>2. CASE i \notin RoomIds
    BY <1>2, <2>2 DEF Step, NewRoomMoves
  <2> QED
    BY <2>1, <2>2
<1> QED
  BY <1>1, <1>2 DEF StartedInv

\* The same quorum, of the next state's register.
QuorateNext(i) == Cardinality({a \in attendance' : a.room = i}) >= Required

\* A quorum that was reached when a request read it is reached when it writes.
LEMMA QuorateLater ==
    ASSUME Step
    PROVE  \A i : Quorate(i) => QuorateNext(i)
<1>1. TablesOK /\ TablesOK' /\ attendance \subseteq attendance'
  BY DEF Step, CloudTyped, Grows
<1> SUFFICES ASSUME NEW i, Quorate(i)
             PROVE  QuorateNext(i)
  OBVIOUS
<1>2. Quorate(i)'
  BY <1>1, QuorateStays
<1> QED
  BY <1>2 DEF Quorate, QuorateNext, Present, Required

\* What a scan, or an end, decided on stays true of the tables.
LEMMA NextSnapshot ==
    ASSUME Step, SnapshotInv
    PROVE  SnapshotInv'
<1>a. SlotsOK /\ SlotsOK' /\ TargetInv /\ Grows
  BY DEF Step, CloudTyped
<1>1. ASSUME NEW q \in Request, req'[q] \in ScanReq
      PROVE  /\ rooms'[req'[q].room].mode = "IN_PERSON"
             /\ rooms'[req'[q].room].lecturer # NoOne
             /\ req'[q].seen.scanned => rooms'[req'[q].room].scanned
             /\ req'[q].quorate => QuorateNext(req'[q].room)
  <2>0. req'[q].op \in Pending \ {"openInsert"} /\ ~CheckinPassed(q) /\ ~EndChecked(q)
    BY <1>1 DEF ScanReq, Pending, CheckinPassed, EndChecked
  <2>1. CASE req'[q] = req[q] \/ ScanMoved(q)
    <3>1. /\ req[q] \in ScanReq /\ req[q].room \in RoomIds /\ req'[q].room = req[q].room
          /\ req'[q].seen = req[q].seen /\ req'[q].quorate = req[q].quorate
      BY <1>1, <1>a, <2>1 DEF TargetInv, ScanMoved
    <3>2. /\ rooms[req[q].room].mode = "IN_PERSON" /\ rooms[req[q].room].lecturer # NoOne
          /\ req[q].seen.scanned => rooms[req[q].room].scanned
          /\ req[q].quorate => Quorate(req[q].room)
      BY <3>1 DEF SnapshotInv
    <3>3. req[q].quorate => QuorateNext(req[q].room)
      BY <3>2, QuorateLater
    <3> QED
      BY <1>a, <3>1, <3>2, <3>3 DEF Grows
  <2>2. CASE ScanRead(q)
    BY <2>2, QuorateLater DEF ScanRead
  <2> QED
    BY <2>0, <2>1, <2>2, ReadFacts DEF RequestFacts
<1>2. ASSUME NEW q \in Request, req'[q].op = "endLog"
      PROVE  rooms'[req'[q].room].mode = "ONLINE" /\ QuorateNext(req'[q].room)
  <2>0. req'[q].op \in Pending \ {"openInsert"} /\ ~CheckinPassed(q) /\ ~ScanRead(q) /\ ~ScanMoved(q)
    BY <1>2 DEF Pending, CheckinPassed, ScanRead, ScanMoved
  <2>1. CASE req'[q] = req[q]
    <3>1. /\ req[q].room \in RoomIds /\ rooms[req[q].room].mode = "ONLINE"
          /\ Quorate(req[q].room)
      BY <1>2, <1>a, <2>1, ReqShape DEF SnapshotInv, TargetInv
    <3> QED
      BY <1>a, <2>1, <3>1, QuorateLater DEF Grows
  <2>2. CASE EndChecked(q)
    BY <2>2, QuorateLater DEF EndChecked
  <2> QED
    BY <2>0, <2>1, <2>2, ReadFacts DEF RequestFacts
<1>3. ASSUME NEW q \in Request, QuorateNext(req'[q].room)
      PROVE  Quorate(req[q].room)'
  BY <1>3 DEF QuorateNext, Quorate, Present, Required
<1> QED
  BY <1>1, <1>2, <1>3 DEF SnapshotInv

\* A lecture is ended on a snapshot, and what it says of the quorum still holds.
LEMMA NextEnded ==
    ASSUME Step, StartedInv, SnapshotInv, EndedHadQuorum
    PROVE  EndedHadQuorum'
<1>a. SlotsOK /\ TargetInv /\ Grows
  BY DEF Step, CloudTyped
<1>1. ASSUME NEW i \in RoomIds', rooms'[i].ended
      PROVE  rooms'[i].scanned /\ QuorateNext(i)
  <2>1. i \in RoomIds
    BY <1>1 DEF Step, NewRoomMoves
  <2>2. CASE rooms[i].ended
    <3>1. rooms[i].scanned /\ Quorate(i)
      BY <2>1, <2>2 DEF EndedHadQuorum, Quorate
    <3> QED
      BY <1>a, <2>1, <3>1, QuorateLater DEF Grows
  <2>3. CASE GateEnded(i)
    <3>1. PICK r \in Request : /\ req[r].room = i
                               /\ \/ req[r].op = "scanWrite" /\ req[r].seen.scanned /\ req[r].quorate
                                  \/ req[r].op = "endLog"
      BY <2>3 DEF GateEnded
    <3>2. rooms[i].scanned /\ Quorate(i)
      BY <1>a, <2>1, <3>1, ReqShape DEF SnapshotInv, StartedInv
    <3> QED
      BY <1>a, <2>1, <3>2, QuorateLater DEF Grows
  <2>4. RoomMoves(i) /\ (~rooms[i].ended => GateEnded(i))
    BY <1>1, <2>1 DEF Step, RoomMoves, SameGate, Proved, GateStarted
  <2> QED
    BY <2>2, <2>3, <2>4
<1>2. ASSUME NEW i \in RoomIds', QuorateNext(i)
      PROVE  Cardinality({a \in attendance' : a.room = i}) >= Required
  BY <1>2 DEF QuorateNext
<1> QED
  BY <1>1, <1>2 DEF EndedHadQuorum, Present, Required

\* START and END are each written once: both UPDATEs repeat their IS NULL test.
LEMMA NextWrites ==
    ASSUME Step, SnapshotInv, WritesInv
    PROVE  WritesInv'
<1>a. SlotsOK /\ TargetInv /\ Grows /\ TablesOK
  BY DEF Step, CloudTyped
<1> SUFFICES ASSUME NEW i \in RoomIds', rooms'[i].mode = "IN_PERSON"
             PROVE  /\ rooms'[i].gateWrites = (IF rooms'[i].scanned THEN 1 ELSE 0)
                                              + (IF rooms'[i].ended THEN 1 ELSE 0)
                    /\ rooms'[i].lecturer = NoOne => ~rooms'[i].scanned /\ ~rooms'[i].ended
  BY DEF WritesInv
<1>1. CASE i \notin RoomIds
  <2>1. ~rooms'[i].scanned /\ ~rooms'[i].ended /\ rooms'[i].gateWrites = 0
    BY <1>1 DEF Step, NewRoomMoves
  <2> QED
    BY <2>1
<1>2. CASE i \in RoomIds
  <2>1. rooms[i].mode = "IN_PERSON" /\ rooms'[i].lecturer = rooms[i].lecturer
    BY <1>2, <1>a DEF Grows
  <2>2. /\ rooms[i].gateWrites = (IF rooms[i].scanned THEN 1 ELSE 0) + (IF rooms[i].ended THEN 1 ELSE 0)
        /\ rooms[i].lecturer = NoOne => ~rooms[i].scanned /\ ~rooms[i].ended
    BY <1>2, <2>1 DEF WritesInv
  <2>3. rooms[i] \in Room
    BY <1>2, <1>a, RoomTypes
  <2>4. CASE SameGate(i)
    BY <2>1, <2>2, <2>4 DEF SameGate
  <2>5. ASSUME NEW r \in Request, req[r].room = i, req[r].op = "scanWrite" \/ req[r].op = "endLog"
        PROVE  rooms[i].lecturer # NoOne
    BY <1>a, <2>1, <2>5, ReqShape DEF SnapshotInv
  <2>6. CASE GateStarted(i)
    <3>1. rooms[i].lecturer # NoOne
      BY <2>5, <2>6 DEF GateStarted
    <3> QED
      BY <2>1, <2>2, <2>3, <2>6, <3>1 DEF GateStarted, Room
  <2>7. CASE GateEnded(i)
    <3>1. rooms[i].lecturer # NoOne
      BY <2>5, <2>7 DEF GateEnded
    <3> QED
      BY <2>1, <2>2, <2>3, <2>7, <3>1 DEF GateEnded, Room
  <2> QED
    BY <1>2, <2>4, <2>6, <2>7 DEF Step, RoomMoves, Proved
<1> QED
  BY <1>1, <1>2

\* One fingerprint is enough for one side of the gate: a second write needs a
\* second one, because the ticket is deleted before START is written.
LEMMA NextTicket ==
    ASSUME Step, SnapshotInv, TicketInv
    PROVE  TicketInv'
<1>a. /\ SlotsOK /\ SlotsOK' /\ TargetInv /\ Grows /\ TablesOK
      /\ ticket \in [1..MaxRooms -> Lecturer \cup {NoOne}]
  BY DEF Step, CloudTyped, SlotsOK
<1>b. \A i \in RoomIds : i \in 1..MaxRooms /\ rooms[i] \in Room /\ rooms[i].proofs \in Nat
  BY <1>a, RoomTypes DEF Room
<1>c. \A i \in RoomIds : rooms'[i].proofs \in Nat /\ rooms'[i].proofs >= rooms[i].proofs
  <2>1. TablesOK' /\ \A i \in RoomIds : i \in RoomIds'
    BY <1>a DEF Step, CloudTyped, Grows
  <2>2. \A i \in RoomIds' : rooms'[i] \in Room
    BY <2>1 DEF TablesOK, RoomIds
  <2> QED
    BY <1>a, <2>1, <2>2 DEF Room, Grows
<1>d. \A i \in RoomIds : Guarded(i)' <=> Guarded(i)
  BY <1>a DEF Grows, Guarded
<1>1. ASSUME NEW j \in 1..MaxRooms, ticket'[j] # NoOne
      PROVE  j \in RoomIds' /\ rooms'[j].proofs >= 1
  <2>1. CASE ticket'[j] = ticket[j]
    <3>1. j \in RoomIds /\ rooms[j].proofs >= 1
      BY <1>1, <2>1 DEF TicketInv
    <3> QED
      BY <1>a, <1>b, <1>c, <3>1 DEF Grows
  <2>2. CASE j \in RoomIds /\ rooms'[j].proofs = rooms[j].proofs + 1
    BY <1>a, <1>b, <2>2 DEF Grows
  <2> QED
    BY <1>1, <2>1, <2>2 DEF Step, TicketMoves
<1>2. ASSUME NEW i \in RoomIds', Guarded(i)'
      PROVE  /\ rooms'[i].scanned => rooms'[i].proofs >= 1
             /\ rooms'[i].ended => rooms'[i].proofs >= 2
             /\ rooms'[i].scanned /\ rooms'[i].proofs = 1 => ticket'[i] = NoOne
  <2>1. CASE i \notin RoomIds
    <3>1. ~rooms'[i].scanned /\ ~rooms'[i].ended
      BY <1>2, <2>1 DEF Step, NewRoomMoves, Guarded
    <3> QED
      BY <3>1
  <2>2. CASE i \in RoomIds
    <3> DEFINE n == rooms[i].proofs
               m == rooms'[i].proofs
    <3>1. /\ Guarded(i)
          /\ rooms[i].scanned => n >= 1
          /\ rooms[i].ended => n >= 2
          /\ rooms[i].scanned /\ n = 1 => ticket[i] = NoOne
      BY <1>2, <1>d, <2>2 DEF TicketInv
    <3>2. n \in Nat /\ m \in Nat /\ m >= n /\ i \in 1..MaxRooms
      BY <1>b, <1>c, <2>2
    <3>3. ticket'[i] = ticket[i] \/ ticket'[i] = NoOne \/ m = n + 1
      BY <3>2 DEF Step, TicketMoves
    <3>4. ASSUME NEW r \in Request, req[r].op = "scanWrite", req[r].room = i
          PROVE  n >= 1 /\ (req[r].seen.scanned => n >= 2) /\ (n = 1 => ticket[i] = NoOne)
      BY <3>1, <3>4 DEF TicketInv
    <3>5. CASE SameGate(i) /\ m = n
      BY <3>1, <3>2, <3>3, <3>5 DEF SameGate
    <3>6. CASE Proved(i)
      <4>1. rooms'[i].scanned = rooms[i].scanned /\ rooms'[i].ended = rooms[i].ended /\ m = n + 1
        BY <3>6 DEF Proved, SameGate
      <4> HIDE DEF n, m
      <4>2. /\ rooms'[i].scanned => m >= 2
            /\ rooms'[i].ended => m >= 2
        BY <3>1, <3>2, <4>1
      <4> QED
        BY <3>2, <4>2 DEF m
    <3>7. CASE GateStarted(i)
      <4>1. m = n /\ ticket' = ticket /\ rooms'[i].ended = rooms[i].ended
        BY <3>7 DEF GateStarted
      <4>2. n >= 1 /\ (n = 1 => ticket[i] = NoOne)
        BY <3>4, <3>7 DEF GateStarted
      <4> QED
        BY <3>1, <4>1, <4>2
    <3>8. CASE GateEnded(i)
      <4>1. m = n
        BY <3>8 DEF GateEnded
      <4>2. PICK r \in Request : /\ req[r].room = i
                                 /\ \/ req[r].op = "scanWrite" /\ req[r].seen.scanned
                                    \/ req[r].op = "endLog"
        BY <3>8 DEF GateEnded
      <4>3. req[r].op # "endLog"
        BY <3>1, <4>2 DEF SnapshotInv, Guarded
      <4>4. n >= 2
        BY <3>4, <4>2, <4>3
      <4> QED
        BY <3>2, <4>1, <4>4
    <3> QED
      BY <2>2, <3>5, <3>6, <3>7, <3>8 DEF Step, RoomMoves
  <2> QED
    BY <2>1, <2>2
<1>3. ASSUME NEW q \in Request, req'[q].op \in {"scanDel", "scanWrite"}, Guarded(req[q].room)'
      PROVE  /\ rooms'[req'[q].room].proofs >= 1
             /\ req'[q].seen.scanned => rooms'[req'[q].room].proofs >= 2
             /\ req'[q].op = "scanWrite" /\ rooms'[req'[q].room].proofs = 1
                   => ticket'[req'[q].room] = NoOne
  <2>0. /\ req'[q].op \in Pending \ {"openInsert"} /\ ~CheckinPassed(q) /\ ~EndChecked(q)
        /\ rooms'[req'[q].room].mode = "IN_PERSON" /\ rooms'[req'[q].room].lecturer \in Biometric
    BY <1>3 DEF Pending, CheckinPassed, EndChecked, Guarded
  <2>1. ~ScanRead(q)
    BY <1>3, <2>0 DEF ScanRead
  <2> DEFINE i == req[q].room
             n == rooms[i].proofs
             m == rooms'[i].proofs
  <2>2. CASE req'[q] = req[q]
    <3>1. i \in RoomIds
      BY <1>3, <1>a, <2>2, ReqShape DEF TargetInv
    <3>2. Guarded(i)
      BY <1>3, <1>a, <2>2, <3>1 DEF Guarded, Grows
    <3>3. /\ n >= 1
          /\ req[q].seen.scanned => n >= 2
          /\ req[q].op = "scanWrite" /\ n = 1 => ticket[i] = NoOne
      BY <1>3, <2>2, <3>2 DEF TicketInv
    <3>4. n \in Nat /\ m \in Nat /\ m >= n /\ i \in 1..MaxRooms
      BY <1>b, <1>c, <3>1
    <3>5. ticket'[i] = ticket[i] \/ ticket'[i] = NoOne \/ m = n + 1
      BY <3>4 DEF Step, TicketMoves
    <3>6. /\ m >= 1
          /\ req[q].seen.scanned => m >= 2
          /\ req[q].op = "scanWrite" /\ m = 1 => ticket'[i] = NoOne
      <4> HIDE DEF m, n, i
      <4> QED
        BY <3>3, <3>4, <3>5
    <3> QED
      BY <2>2, <3>6
  <2>3. CASE ScanMoved(q)
    <3>1. /\ req[q] \in ScanReq /\ i \in RoomIds /\ req'[q].room = i /\ req'[q].seen = req[q].seen
          /\ rooms' = rooms
      BY <2>3 DEF ScanMoved
    <3>2. Guarded(i)
      BY <1>3, <3>1 DEF Guarded
    <3>3. rooms[i].lecturer # NoOne /\ (req[q].seen.scanned => rooms[i].scanned)
      BY <3>1 DEF SnapshotInv
    <3>4. CASE req[q].op = "scanGet" /\ req'[q].op = "scanDel" /\ ticket[i] = rooms[i].lecturer
      <4>1. n \in Nat /\ n >= 1 /\ ticket[i] # NoOne
        BY <1>b, <3>1, <3>3, <3>4 DEF TicketInv
      <4>2. req[q].seen.scanned => n >= 2
        BY <3>1, <3>2, <3>3, <4>1 DEF TicketInv
      <4> QED
        BY <3>1, <3>4, <4>1, <4>2
    <3>5. CASE /\ req[q].op = "scanDel" /\ req'[q].op = "scanWrite"
               /\ ticket' = [ticket EXCEPT ![i] = NoOne]
      <4>1. n >= 1 /\ (req[q].seen.scanned => n >= 2)
        BY <3>2, <3>5 DEF TicketInv
      <4>2. ticket'[i] = NoOne
        BY <1>a, <1>b, <3>1, <3>5
      <4> QED
        BY <3>1, <4>1, <4>2
    <3> QED
      BY <2>3, <3>4, <3>5 DEF ScanMoved
  <2> QED
    BY <2>0, <2>1, <2>2, <2>3, ReadFacts DEF RequestFacts
<1> QED
  BY <1>1, <1>2, <1>3 DEF TicketInv

\* What the two invariants say of the gate writes and the fingerprints.
LEMMA WritesAreProved ==
    ASSUME TablesOK, WritesInv, TicketInv
    PROVE  OneProofOneGateWrite
<1> SUFFICES ASSUME NEW i \in RoomIds, rooms[i].lecturer \in Biometric, rooms[i].mode = "IN_PERSON"
             PROVE  rooms[i].gateWrites <= rooms[i].proofs
  BY DEF OneProofOneGateWrite
<1>1. rooms[i].proofs \in Nat
  BY RoomTypes DEF Room
<1>2. rooms[i].gateWrites = (IF rooms[i].scanned THEN 1 ELSE 0) + (IF rooms[i].ended THEN 1 ELSE 0)
  BY DEF WritesInv
<1>3. CASE rooms[i].lecturer = NoOne
  <2>1. ~rooms[i].scanned /\ ~rooms[i].ended
    BY <1>3 DEF WritesInv
  <2> QED
    BY <1>1, <1>2, <2>1
<1>4. CASE rooms[i].lecturer # NoOne
  <2>1. (rooms[i].scanned => rooms[i].proofs >= 1) /\ (rooms[i].ended => rooms[i].proofs >= 2)
    BY <1>4 DEF TicketInv, Guarded
  <2> QED
    BY <1>1, <1>2, <2>1
<1> QED
  BY <1>3, <1>4

-----------------------------------------------------------------------------
(* The register and the answers.                                           *)

RegisterMoves ==
    \/ UNCHANGED <<attendance, answered, lostWrites>>
    \/ \E r \in Request : StudentCheckinGate(r) \/ StudentCheckinInsert(r) \/ StudentCheckinInsertFails(r)

\* Only a check-in touches the register or answers PRESENT.
LEMMA NextRegister ==
    ASSUME [CloudNext]_cloudVars
    PROVE  RegisterMoves
<1>1. ASSUME NEW r \in Request, RoomRequestStep(r)
      PROVE  RegisterMoves
  BY <1>1 DEF RegisterMoves, RoomRequestStep, OpenSessionLocked, OpenSessionCommit, CloseSessionLog,
     LecturerGateTicket, LecturerGateSpend, LecturerGateWrite, StartOnlineClassInsert,
     EndOnlineClassLog, EndOnlineClassRoom
<1>2. ASSUME NEW r \in Request, NEW c, NEW l, OpenSession(r, c, l)
      PROVE  RegisterMoves
  BY <1>2 DEF RegisterMoves, OpenSession
<1>3. ASSUME NEW r \in Request, NEW i, CloseSession(r, i) \/ LecturerGateScan(r, i)
      PROVE  RegisterMoves
  BY <1>3 DEF RegisterMoves, CloseSession, LecturerGateScan
<1>4. ASSUME NEW r \in Request, NEW st, NEW p, NEW i, StudentCheckin(r, st, p, i)
      PROVE  RegisterMoves
  BY <1>4 DEF RegisterMoves, StudentCheckin
<1>5. ASSUME NEW r \in Request, NEW l, StartOnlineClass(r, l) \/ EndOnlineClass(r, l)
      PROVE  RegisterMoves
  BY <1>5 DEF RegisterMoves, StartOnlineClass, EndOnlineClass
<1>6. ASSUME NEW r \in Request, StudentCheckinInsertFails(r) \/ CancelRequest(r)
      PROVE  RegisterMoves
  BY <1>6 DEF RegisterMoves, CancelRequest
<1>7. ASSUME NEW i, LecturerAssert(i) \/ TicketExpires(i)
      PROVE  RegisterMoves
  BY <1>7 DEF RegisterMoves, LecturerAssert, TicketExpires
<1>8. CASE UNCHANGED cloudVars
  BY <1>8 DEF RegisterMoves, cloudVars
<1> QED
  BY <1>1, <1>2, <1>3, <1>4, <1>5, <1>6, <1>7, <1>8 DEF CloudNext

\* The unique index keeps a student's row single; the gate the check-in read is
\* still open when its row goes in.
LEMMA NextCounted ==
    ASSUME Step, RegisterMoves, StartedInv, CountedOnceAfterStart
    PROVE  CountedOnceAfterStart'
<1>a. SlotsOK /\ TargetInv /\ Grows
  BY DEF Step, CloudTyped
<1>1. CASE attendance' = attendance
  <2>1. \A a \in attendance : a.room \in RoomIds
    BY <1>a DEF TargetInv
  <2> QED
    BY <1>1, <1>a, <2>1 DEF CountedOnceAfterStart, Grows
<1>2. ASSUME NEW r \in Request, StudentCheckinInsert(r)
      PROVE  CountedOnceAfterStart'
  <2> DEFINE q == req[r]
             row == [room |-> q.room, student |-> q.student, phone |-> q.phone]
  <2>1. q \in CheckReq /\ q.room \in RoomIds /\ rooms[q.room].scanned
    BY <1>2, <1>a, ReqShape DEF StudentCheckinInsert, TargetInv, StartedInv
  <2>2. attendance' = attendance \/ (attendance' = attendance \cup {row} /\ ~Recorded(q.room, q.student))
    BY <1>2 DEF StudentCheckinInsert, InsertedRow
  <2>3. CASE attendance' = attendance \cup {row} /\ ~Recorded(q.room, q.student)
    <3>1. row.room = q.room /\ row.student = q.student
      OBVIOUS
    <3>2. \A a \in attendance : ~(a.room = q.room /\ a.student = q.student)
      BY <2>3 DEF Recorded, Present
    <3> HIDE DEF row
    <3>3. \A a, b \in attendance' : a.room = b.room /\ a.student = b.student => a = b
      BY <2>3, <3>1, <3>2 DEF CountedOnceAfterStart
    <3>4. \A a \in attendance' : a.room \in RoomIds /\ rooms[a.room].scanned
      BY <1>a, <2>1, <2>3, <3>1 DEF CountedOnceAfterStart, TargetInv
    <3>5. \A a \in attendance' : rooms'[a.room].scanned
      BY <1>a, <3>4 DEF Grows
    <3> QED
      BY <3>3, <3>5 DEF CountedOnceAfterStart
  <2> QED
    BY <1>1, <2>2, <2>3
<1> QED
  BY <1>1, <1>2 DEF RegisterMoves, StudentCheckinGate, StudentCheckinInsertFails

\* The answers nothing was stored for.
Missing == {t \in answered : ~\E a \in attendance : a.room = t[1] /\ a.student = t[2]}

\* An answer is given for a row that is there, or for an INSERT the database failed.
LEMMA NextPresent ==
    ASSUME Step, RegisterMoves, PresentIsStored
    PROVE  PresentIsStored'
<1>a. SlotsOK /\ TablesOK /\ TablesOK' /\ TargetInv /\ attendance \subseteq attendance'
  BY DEF Step, CloudTyped, Grows
<1>b. IsFiniteSet(Missing) /\ Cardinality(Missing) \in Nat /\ lostWrites \in Nat
  <2>1. IsFiniteSet(Missing)
    BY <1>a, FS_Subset DEF Missing, TablesOK
  <2> QED
    BY <1>a, <2>1, FS_CardinalityType DEF TablesOK
<1>c. Cardinality(Missing) <= lostWrites
  BY DEF PresentIsStored, Missing
<1>1. ASSUME Missing' \subseteq Missing, lostWrites' = lostWrites
      PROVE  PresentIsStored'
  <2>1. Cardinality(Missing') <= Cardinality(Missing) /\ IsFiniteSet(Missing')
    BY <1>1, <1>b, FS_Subset
  <2>2. Cardinality(Missing') \in Nat
    BY <2>1, FS_CardinalityType
  <2>3. Cardinality(Missing') <= lostWrites'
    BY <1>1, <1>b, <1>c, <2>1, <2>2
  <2> QED
    BY <2>3 DEF PresentIsStored, Missing
<1>2. ASSUME NEW x, Missing' \subseteq Missing \cup {x}, lostWrites' = lostWrites + 1
      PROVE  PresentIsStored'
  <2>1. IsFiniteSet(Missing \cup {x}) /\ Cardinality(Missing \cup {x}) <= Cardinality(Missing) + 1
    <3>1. /\ IsFiniteSet(Missing \cup {x})
          /\ Cardinality(Missing \cup {x}) = IF x \in Missing THEN Cardinality(Missing)
                                             ELSE Cardinality(Missing) + 1
      BY <1>b, FS_AddElement
    <3> QED
      BY <1>b, <3>1
  <2>2. IsFiniteSet(Missing') /\ Cardinality(Missing') <= Cardinality(Missing \cup {x})
    BY <1>2, <2>1, FS_Subset
  <2>3. Cardinality(Missing') \in Nat /\ Cardinality(Missing \cup {x}) \in Nat
    BY <2>1, <2>2, FS_CardinalityType
  <2>4. Cardinality(Missing') <= lostWrites'
    BY <1>2, <1>b, <1>c, <2>1, <2>2, <2>3
  <2> QED
    BY <2>4 DEF PresentIsStored, Missing
<1>3. CASE UNCHANGED <<attendance, answered, lostWrites>>
  <2>1. Missing' \subseteq Missing
    BY <1>3 DEF Missing
  <2> QED
    BY <1>1, <1>3, <2>1
<1>4. ASSUME NEW r \in Request, StudentCheckinGate(r)
      PROVE  PresentIsStored'
  <2>1. /\ UNCHANGED <<attendance, lostWrites>>
        /\ \/ answered' = answered
           \/ /\ answered' = answered \cup {<<req[r].room, req[r].student>>}
              /\ Recorded(req[r].room, req[r].student)
    BY <1>4 DEF StudentCheckinGate
  <2>2. ASSUME NEW t \in Missing'
        PROVE  t \in Missing
    <3>1. t \in answered' /\ ~\E a \in attendance : a.room = t[1] /\ a.student = t[2]
      BY <2>1, <2>2 DEF Missing
    <3>2. t # <<req[r].room, req[r].student>> \/ ~Recorded(req[r].room, req[r].student)
      BY <3>1 DEF Recorded, Present
    <3> QED
      BY <2>1, <3>1, <3>2 DEF Missing
  <2> QED
    BY <1>1, <2>1, <2>2
<1>5. ASSUME NEW r \in Request, StudentCheckinInsert(r)
      PROVE  PresentIsStored'
  <2>1. /\ lostWrites' = lostWrites
        /\ answered' = answered \cup {<<req[r].room, req[r].student>>}
        /\ attendance' = attendance \cup InsertedRow(req[r])
    BY <1>5 DEF StudentCheckinInsert
  <2>2. \E a \in attendance' : a.room = req[r].room /\ a.student = req[r].student
    <3>1. CASE Recorded(req[r].room, req[r].student)
      BY <2>1, <3>1 DEF Recorded, Present
    <3>2. CASE ~Recorded(req[r].room, req[r].student)
      <4> DEFINE row == [room |-> req[r].room, student |-> req[r].student, phone |-> req[r].phone]
      <4>1. row \in attendance'
        BY <2>1, <3>2 DEF InsertedRow
      <4>2. row.room = req[r].room /\ row.student = req[r].student
        OBVIOUS
      <4> QED
        BY <4>1, <4>2
    <3> QED
      BY <3>1, <3>2
  <2>3. ASSUME NEW t \in Missing'
        PROVE  t \in Missing
    <3>1. t \in answered' /\ ~\E a \in attendance' : a.room = t[1] /\ a.student = t[2]
      BY <2>3 DEF Missing
    <3>2. t # <<req[r].room, req[r].student>>
      BY <2>2, <3>1
    <3>3. t \in answered /\ ~\E a \in attendance : a.room = t[1] /\ a.student = t[2]
      BY <1>a, <2>1, <3>1, <3>2
    <3> QED
      BY <3>3 DEF Missing
  <2> QED
    BY <1>1, <2>1, <2>3
<1>6. ASSUME NEW r \in Request, StudentCheckinInsertFails(r)
      PROVE  PresentIsStored'
  <2>1. /\ lostWrites' = lostWrites + 1 /\ attendance' = attendance
        /\ answered' = answered \cup {<<req[r].room, req[r].student>>}
    BY <1>6 DEF StudentCheckinInsertFails
  <2>2. Missing' \subseteq Missing \cup {<<req[r].room, req[r].student>>}
    BY <2>1 DEF Missing
  <2> QED
    BY <1>2, <2>1, <2>2
<1> QED
  BY <1>3, <1>4, <1>5, <1>6 DEF RegisterMoves

-----------------------------------------------------------------------------
\* The inductive invariant of the online room.
RoomInv ==
    /\ CloudTyped
    /\ LockInv /\ OneOpenRoom
    /\ StartedInv /\ SnapshotInv /\ EndedHadQuorum
    /\ WritesInv /\ TicketInv
    /\ CountedOnceAfterStart /\ PresentIsStored

\* It holds of an empty database.
LEMMA InitRoom == CloudInit => RoomInv
<1> SUFFICES ASSUME CloudInit
             PROVE  RoomInv
  OBVIOUS
<1>a. /\ rooms = <<>> /\ attendance = {} /\ answered = {} /\ lostWrites = 0
      /\ req = [r \in Request |-> Idle] /\ roomLock = [c \in Coordinator |-> NoOne]
      /\ ticket = [i \in 1..MaxRooms |-> NoOne]
  BY DEF CloudInit
<1>b. RoomIds = {} /\ \A r \in Request : req[r] = Idle /\ req[r].op = "idle"
  BY <1>a DEF RoomIds, Idle
<1>1. TablesOK
  <2>1. rooms \in Seq(Room) /\ Len(rooms) <= MaxRooms
    BY <1>a, CloudRoomAssumption
  <2> QED
    BY <1>a, <2>1, FS_EmptySet DEF TablesOK
<1>2. SlotsOK
  BY <1>a DEF SlotsOK, AnyReq
<1>3. TargetInv
  BY <1>a, <1>b, <1>2, ReqShape DEF TargetInv
<1>4. LockInv /\ OneOpenRoom
  BY <1>b DEF LockInv, OneOpenRoom
<1>5. StartedInv /\ EndedHadQuorum /\ WritesInv
  BY <1>b DEF StartedInv, EndedHadQuorum, WritesInv
<1>6. SnapshotInv
  BY <1>b, <1>2, ReqShape DEF SnapshotInv
<1>7. TicketInv
  BY <1>a, <1>b DEF TicketInv
<1>8. CountedOnceAfterStart
  BY <1>a DEF CountedOnceAfterStart
<1>9. PresentIsStored
  <2>1. {t \in answered : ~\E a \in attendance : a.room = t[1] /\ a.student = t[2]} = {}
    BY <1>a
  <2>2. Cardinality({}) = 0
    BY FS_EmptySet
  <2> QED
    BY <1>a, <2>1, <2>2 DEF PresentIsStored
<1> QED
  BY <1>1, <1>2, <1>3, <1>4, <1>5, <1>6, <1>7, <1>8, <1>9 DEF RoomInv, CloudTyped

\* And every step of any request preserves it.
LEMMA NextInv == RoomInv /\ [CloudNext]_cloudVars => RoomInv'
<1> SUFFICES ASSUME RoomInv, [CloudNext]_cloudVars
             PROVE  RoomInv'
  OBVIOUS
<1>0. Step /\ RegisterMoves
  BY StepFacts, NextRegister DEF RoomInv
<1>1. CloudTyped'
  BY <1>0 DEF Step
<1>2. LockInv' /\ OneOpenRoom'
  BY NextLock DEF RoomInv
<1>3. StartedInv' /\ SnapshotInv' /\ EndedHadQuorum'
  BY <1>0, NextStarted, NextSnapshot, NextEnded DEF RoomInv
<1>4. WritesInv' /\ TicketInv'
  BY <1>0, NextWrites, NextTicket DEF RoomInv
<1>5. CountedOnceAfterStart' /\ PresentIsStored'
  BY <1>0, NextCounted, NextPresent DEF RoomInv
<1> QED
  BY <1>1, <1>2, <1>3, <1>4, <1>5 DEF RoomInv

\* However opens, closes, scans and ends interleave: one open in-person session per
\* coordinator, no lecture ended before its start or short of its quorum, and one
\* fingerprint per gate write (sessions.go,
\* lecturer_gate_scan.go, lecturer_online_class.go).
THEOREM RoomsAreSoundAlways == CloudSpec => []RoomsAreSound
<1>1. RoomInv => RoomsAreSound
  BY WritesAreProved DEF RoomInv, CloudTyped, RoomsAreSound
<1> QED
  BY <1>1, InitRoom, NextInv, PTL DEF CloudSpec

\* However check-ins of one student race and whatever INSERT fails: a student counts
\* once, in a started lecture, and PRESENT was stored unless the database failed it
\* (student_checkin.go, StudentCheckin).
THEOREM AttendanceIsTrueAlways == CloudSpec => []AttendanceIsTrue
<1>1. RoomInv => AttendanceIsTrue
  BY DEF RoomInv, AttendanceIsTrue
<1> QED
  BY <1>1, InitRoom, NextInv, PTL DEF CloudSpec
=============================================================================
