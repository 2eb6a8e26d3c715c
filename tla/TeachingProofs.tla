--------------------------- MODULE TeachingProofs ---------------------------
(***************************************************************************)
(* Machine-checked proofs about the teaching record: the timetable         *)
(* (Timetable), the monitors' record (Patrol) and exam eligibility         *)
(* (Eligibility), for any people, rooms, cohorts and any bounds.           *)
(*                                                                         *)
(* Timetable.  GridTyped says what the handlers write; OneLecturer what    *)
(* the exclusion constraint keeps; CodeInv what the unique index of codes  *)
(* does.  CacheInv: a manifest nothing went past shows the coordinator's   *)
(* week, or a request is under way that is bound to bust it.               *)
(*                                                                         *)
(* Patrol.  One invariant a desk.  RoundInv is about the ticks of a batch  *)
(* that are no longer to do: each was stored, and its lecturer is told or  *)
(* about to be, or a statement failed for it.                              *)
(*                                                                         *)
(* Eligibility.  RebuildInv: figures being rebuilt were counted in one     *)
(* statement, no earlier than those published and no later than the truth. *)
(***************************************************************************)
EXTENDS Timetable, Patrol, Eligibility, FiniteSetTheorems, TLAPS

-----------------------------------------------------------------------------
(* Whole numbers *)

\* Division with remainder, as PostgreSQL and Go divide whole numbers here.
LEMMA Division ==
    ASSUME NEW n \in Nat \ {0}, NEW a \in Int
    PROVE  /\ a \div n \in Int /\ a % n \in 0..(n - 1)
           /\ a = n * (a \div n) + (a % n)
  OBVIOUS

\* A larger factor is at least one more multiple away.
LEMMA Multiples ==
    ASSUME NEW n \in Nat \ {0}, NEW a \in Int, NEW b \in Int, a < b
    PROVE  n * a + n <= n * b
  <1>1. PICK d \in Nat : b = a + 1 + d
    <2>1. b - a - 1 \in Nat /\ b = a + 1 + (b - a - 1)  OBVIOUS
    <2>. QED BY <2>1
  <1>2. n * b = n * a + n + n * d  BY <1>1
  <1>3. n * d >= 0  OBVIOUS
  <1>. QED BY <1>2, <1>3

\* The only quotient
LEMMA QuotientIs ==
    ASSUME NEW n \in Nat \ {0}, NEW a \in Int, NEW q \in Int, NEW r \in 0 .. n - 1, a = n * q + r
    PROVE  a \div n = q
  <1>. DEFINE p == a \div n  s == a % n
  <1>1. p \in Int /\ s \in 0 .. n - 1 /\ a = n * p + s  BY Division
  <1>. HIDE DEF p, s
  <1>2. CASE p < q
    <2>1. n * p + n <= n * q  BY <1>1, <1>2, Multiples
    <2>. DEFINE x == n * p  y == n * q
    <2>2. x \in Int /\ y \in Int  BY <1>1
    <2>3. x + s = y + r /\ x + n <= y  BY <1>1, <2>1
    <2>. HIDE DEF x, y
    <2>. QED BY <1>1, <2>2, <2>3
  <1>3. CASE q < p
    <2>1. n * q + n <= n * p  BY <1>1, <1>3, Multiples
    <2>. DEFINE x == n * p  y == n * q
    <2>2. x \in Int /\ y \in Int  BY <1>1
    <2>3. x + s = y + r /\ y + n <= x  BY <1>1, <2>1
    <2>. HIDE DEF x, y
    <2>. QED BY <1>1, <2>2, <2>3
  <1>. QED BY <1>1, <1>2, <1>3 DEF p

\* A larger number has no smaller quotient.
LEMMA QuotientsGrow ==
    ASSUME NEW n \in Nat \ {0}, NEW a \in Int, NEW b \in Int, a <= b
    PROVE  a \div n <= b \div n
  <1>. DEFINE p == a \div n  s == a % n  q == b \div n  r == b % n
  <1>1. p \in Int /\ s \in 0 .. n - 1 /\ a = n * p + s /\ q \in Int /\ r \in 0 .. n - 1 /\ b = n * q + r  BY Division
  <1>. HIDE DEF p, s, q, r
  <1>2. ASSUME q < p PROVE FALSE
    <2>1. n * q + n <= n * p  BY <1>1, <1>2, Multiples
    <2>. DEFINE x == n * p  y == n * q
    <2>2. x \in Int /\ y \in Int  BY <1>1
    <2>3. x + s <= y + r /\ y + n <= x  BY <1>1, <2>1
    <2>. HIDE DEF x, y
    <2>. QED BY <1>1, <2>2, <2>3
  <1>. QED BY <1>1, <1>2 DEF p, q

-----------------------------------------------------------------------------
(* Timetable: what the tables hold *)

\* What a slot, a cohort and a request hold
RoomOrNone == Room \cup {NoOne}
Taught == Lecturer \cup {NoOne}
CoordOrNone == Coord \cup {NoOne}
ARow == [dur : Nat \ {0}, room : RoomOrNone, venue : RoomOrNone, lect : Taught]
SlotRequest == [what : {"grid", "import"}, pc : {"cohort", "room", "write", "bust"}, key : slotKeys, dur : Nat \ {0},
                room : RoomOrNone, lect : Taught, coord : CoordOrNone]
Deletion == [what : {"delete"}, pc : {"bust"}]
Scheduling == [what : {"schedule"}, pc : {"slot", "old", "bust"}, key : Group \X CourseUnit \X (Starts \cup {NoOne}),
               dur : Nat, coord : CoordOrNone]
UnitRequest == [what : {"unit"}, pc : {"bust"}, coord : CoordOrNone]
RoomRequest == [what : {"room"}, pc : {"drop"}, room : Room]
AJob == {NoJob} \cup SlotRequest \cup Deletion \cup Scheduling \cup UnitRequest \cup RoomRequest

\* What the table of slots, the cohorts and the requests may hold
SlotsAre(f) == DOMAIN f \subseteq slotKeys /\ f \in [DOMAIN f -> ARow]
CohortsAre(f) == DOMAIN f \subseteq Group /\ f \in [DOMAIN f -> CoordOrNone]
GridTyped == SlotsAre(slots) /\ CohortsAre(coordOf) /\ job \in [Editor -> AJob]
             /\ venues \in [DOMAIN venues -> BOOLEAN] /\ DOMAIN venues \subseteq Room

\* A request is one of the forms its step says
LEMMA FormOfJob ==
    ASSUME NEW j \in AJob
    PROVE  /\ j.pc \in {"cohort", "room", "write"} => j \in SlotRequest
           /\ j.pc \in {"slot", "old"} => j \in Scheduling
           /\ j.pc = "drop" => j \in RoomRequest
           /\ j.pc = "bust" => j \in SlotRequest \cup Deletion \cup Scheduling \cup UnitRequest
           /\ j.pc = "none" <=> j = NoJob
  <1>1. CASE j = NoJob  BY <1>1 DEF NoJob
  <1>2. CASE j \in SlotRequest  BY <1>2 DEF NoJob, SlotRequest
  <1>3. CASE j \in Deletion  BY <1>3 DEF NoJob, Deletion
  <1>4. CASE j \in Scheduling  BY <1>4 DEF NoJob, Scheduling
  <1>5. CASE j \in UnitRequest  BY <1>5 DEF NoJob, UnitRequest
  <1>6. CASE j \in RoomRequest  BY <1>6 DEF NoJob, RoomRequest
  <1>. QED BY <1>1, <1>2, <1>3, <1>4, <1>5, <1>6 DEF AJob

\* A request that names its cause is that request
LEMMA FormOfWhat ==
    ASSUME NEW j \in AJob, j # NoJob
    PROVE  /\ j.what = "import" => j \in SlotRequest
           /\ j.what = "schedule" => j \in Scheduling
           /\ j.what = "room" => j \in RoomRequest
  BY DEF AJob, SlotRequest, Deletion, Scheduling, UnitRequest, RoomRequest

\* A request for a slot that goes on keeps its cause, its slot and its coordinator.
LEMMA SlotRequestMoves ==
    ASSUME NEW j \in SlotRequest, NEW p \in {"cohort", "room", "write", "bust"}
    PROVE  /\ [j EXCEPT !.pc = p] \in SlotRequest
           /\ [j EXCEPT !.pc = p] \in AJob
           /\ [j EXCEPT !.pc = p].pc = p
           /\ \A x \in {"what", "key", "coord"} : [j EXCEPT !.pc = p][x] = j[x]
  <1>. [j EXCEPT !.pc = p] \in SlotRequest  BY DEF SlotRequest
  <1>. QED BY DEF AJob, SlotRequest

\* So does a coordinator's schedule.
LEMMA SchedulingMoves ==
    ASSUME NEW j \in Scheduling, NEW p \in {"slot", "old", "bust"}
    PROVE  /\ [j EXCEPT !.pc = p] \in Scheduling
           /\ [j EXCEPT !.pc = p] \in AJob
           /\ [j EXCEPT !.pc = p].pc = p
           /\ \A x \in {"what", "key", "coord"} : [j EXCEPT !.pc = p][x] = j[x]
  <1>. [j EXCEPT !.pc = p] \in Scheduling  BY DEF Scheduling
  <1>. QED BY DEF AJob, Scheduling

\* One request moves on.
LEMMA JobGoes ==
    ASSUME NEW jb \in [Editor -> AJob], NEW e \in Editor, NEW j \in AJob
    PROVE  [jb EXCEPT ![e] = j] \in [Editor -> AJob]
  OBVIOUS

\* A slot written leaves a table of slots.
LEMMA PutSlot ==
    ASSUME NEW f, SlotsAre(f), NEW k \in slotKeys, NEW r \in ARow
    PROVE  SlotsAre(PutRow(f, k, r))
  BY DEF SlotsAre, PutRow

\* Slots dropped leave the others as they were.
LEMMA FewerSlots ==
    ASSUME NEW f, SlotsAre(f), NEW ks
    PROVE  /\ SlotsAre(Without(f, ks)) /\ DOMAIN Without(f, ks) = DOMAIN f \ ks
           /\ \A k \in DOMAIN f \ ks : Without(f, ks)[k] = f[k]
  BY DEF SlotsAre, Without, Restrict

\* A cohort written leaves a table of cohorts.
LEMMA PutCohort ==
    ASSUME NEW f, CohortsAre(f), NEW c \in Group, NEW k \in CoordOrNone
    PROVE  CohortsAre(PutRow(f, c, k))
  BY DEF CohortsAre, PutRow

\* So do cohorts dropped.
LEMMA FewerCohorts ==
    ASSUME NEW f, CohortsAre(f), NEW cs
    PROVE  CohortsAre(Without(f, cs))
  BY DEF CohortsAre, Without, Restrict

\* So does the cohort the import makes.
LEMMA CohortMade ==
    ASSUME CohortsAre(coordOf), NEW c \in Group
    PROVE  CohortsAre(WithCohort(c))
  BY PutCohort DEF WithCohort, CoordOrNone, CohortsAre

\* What the upsert writes is a row.
LEMMA UpsertIsRow ==
    ASSUME SlotsAre(slots), venues \in [DOMAIN venues -> BOOLEAN], DOMAIN venues \subseteq Room,
           NEW k \in slotKeys, NEW d \in Nat \ {0}, NEW r \in RoomOrNone, NEW l \in Taught
    PROVE  Upsert(k, d, r, l) \in ARow
  <1>1. ResolveVenue(r) \in RoomOrNone  BY DEF ResolveVenue, RoomOrNone
  <1>2. k \in DOMAIN slots => slots[k].lect \in Taught  BY DEF SlotsAre, ARow
  <1>. QED BY <1>1, <1>2 DEF Upsert, ARow

\* A schedule keeps the room and the lecturer of the slot it moves
LEMMA RescheduledIsRow ==
    ASSUME SlotsAre(slots), NEW j \in Scheduling, j.key[3] # NoOne, j.dur # 0
    PROVE  LET old == IF j.key \in DOMAIN slots THEN slots[j.key]
                      ELSE [dur |-> 0, room |-> NoOne, venue |-> NoOne, lect |-> NoOne] IN
           [old EXCEPT !.dur = j.dur] \in ARow /\ j.key \in slotKeys
  <1>1. j.key \in slotKeys /\ j.dur \in Nat \ {0}  BY DEF Scheduling, slotKeys
  <1>2. CASE j.key \in DOMAIN slots
    <2>1. slots[j.key] \in ARow  BY <1>2 DEF SlotsAre
    <2>. QED BY <1>1, <1>2, <2>1 DEF ARow
  <1>3. CASE j.key \notin DOMAIN slots
    <2>1. [dur |-> j.dur, room |-> NoOne, venue |-> NoOne, lect |-> NoOne] \in ARow  BY <1>1 DEF ARow, RoomOrNone, Taught
    <2>. QED BY <1>1, <1>3, <2>1
  <1>. QED BY <1>2, <1>3

\* What the grid or a sheet asks for is a slot of the timetable.
LEMMA AskedIsTyped ==
    ASSUME NEW a \in Asked
    PROVE  a.key \in slotKeys /\ a.dur \in Nat \ {0} /\ a.room \in RoomOrNone /\ a.lect \in Taught
           /\ a.key[1] \in Group
  BY TimetableAssumption DEF slotKeys, RoomOrNone, Taught

\* At the start there is a table, and nothing is asked.
LEMMA GridTypedInit == TimetableInit => GridTyped
  <1>. SUFFICES ASSUME TimetableInit PROVE GridTyped  OBVIOUS
  <1>1. SlotsAre(slots)
    <2>1. CASE side = "grid"  BY <2>1 DEF TimetableInit, SlotsAre
    <2>2. CASE side = "code"
      <3>1. PICK l \in Lecturer :
              slots = [k \in slotKeys |-> [dur |-> 1, room |-> NoOne, venue |-> NoOne, lect |-> l]]
        BY <2>2 DEF TimetableInit
      <3>2. [dur |-> 1, room |-> NoOne, venue |-> NoOne, lect |-> l] \in ARow
        BY DEF ARow, RoomOrNone, Taught
      <3>. QED BY <3>1, <3>2 DEF SlotsAre
    <2>. QED BY <2>1, <2>2 DEF TimetableInit
  <1>2. CohortsAre(coordOf)  BY DEF TimetableInit, CohortsAre, CoordOrNone
  <1>3. job \in [Editor -> AJob]  BY DEF TimetableInit, AJob
  <1>4. venues \in [DOMAIN venues -> BOOLEAN] /\ DOMAIN venues \subseteq Room  BY DEF TimetableInit
  <1>. QED BY <1>1, <1>2, <1>3, <1>4 DEF GridTyped

\* Every handler keeps the tables typed.
LEMMA GridTypedStep == GridTyped /\ [TimetableNext]_ttVars => GridTyped'
  <1>. SUFFICES ASSUME GridTyped, [TimetableNext]_ttVars PROVE GridTyped'  OBVIOUS
  <1>. USE DEF Goes
  <1>1. ASSUME NEW e \in Editor, NEW a \in Asked, NextRow(e, a) PROVE GridTyped'
    <2>1. job[e] \in SlotRequest  BY <1>1, FormOfWhat DEF NextRow, At, GridTyped
    <2>2. [job[e] EXCEPT !.pc = "cohort", !.key = a.key, !.dur = a.dur, !.room = a.room, !.lect = a.lect] \in SlotRequest
      BY <2>1, AskedIsTyped DEF SlotRequest
    <2>3. job' \in [Editor -> AJob]  BY <1>1, <2>2, JobGoes DEF NextRow, GridTyped, AJob
    <2>4. CohortsAre(coordOf')  BY <1>1, AskedIsTyped, CohortMade DEF NextRow, GridTyped
    <2>. QED BY <1>1, <2>3, <2>4 DEF GridTyped, NextRow
  <1>2. ASSUME NEW e \in Editor, NEW a \in Asked, NEW what \in {"grid", "import"}, BeginSlot(e, what, a) PROVE GridTyped'
    <2>. DEFINE k == IF a.key[1] \in DOMAIN coordOf THEN coordOf[a.key[1]] ELSE NoOne
    <2>1. k \in CoordOrNone  BY DEF GridTyped, CohortsAre, CoordOrNone
    <2>. HIDE DEF k
    <2>2. [what |-> what, pc |-> "cohort", key |-> a.key, dur |-> a.dur, room |-> a.room, lect |-> a.lect,
           coord |-> k] \in SlotRequest
      BY <2>1, AskedIsTyped DEF SlotRequest
    <2>3. job' \in [Editor -> AJob]  BY <1>2, <2>2, JobGoes DEF BeginSlot, GridTyped, AJob, k
    <2>4. CohortsAre(coordOf')  BY <1>2, AskedIsTyped, CohortMade DEF BeginSlot, GridTyped
    <2>. QED BY <1>2, <2>3, <2>4 DEF GridTyped, BeginSlot
  <1>3. ASSUME NEW e \in Editor, CheckCohort(e) \/ CheckRoom(e) PROVE GridTyped'
    <2>1. job[e] \in SlotRequest  BY <1>3, FormOfJob DEF CheckCohort, CheckRoom, GridTyped
    <2>2. /\ [job[e] EXCEPT !.pc = "room"] \in AJob /\ [job[e] EXCEPT !.pc = "write"] \in AJob
          /\ [job[e] EXCEPT !.pc = "bust"] \in AJob /\ NoJob \in AJob
      BY <2>1, SlotRequestMoves DEF AJob
    <2>3. job' \in [Editor -> AJob]
      <3>1. CASE CheckCohort(e)  BY <3>1, <2>2, JobGoes DEF CheckCohort, GridTyped
      <3>2. CASE CheckRoom(e)  BY <3>2, <2>2, JobGoes DEF CheckRoom, GridTyped
      <3>. QED BY <1>3, <3>1, <3>2
    <2>. QED BY <1>3, <2>3 DEF GridTyped, CheckCohort, CheckRoom, aside
  <1>4. ASSUME NEW e \in Editor, WriteSlot(e) PROVE GridTyped'
    <2>. DEFINE j == job[e]
    <2>1. j \in SlotRequest  BY <1>4, FormOfJob DEF WriteSlot, GridTyped
    <2>. DEFINE row == Upsert(j.key, j.dur, j.room, j.lect)
    <2>2. row \in ARow  BY <2>1, UpsertIsRow DEF GridTyped, SlotRequest
    <2>3. [j EXCEPT !.pc = "bust"] \in AJob /\ NoJob \in AJob  BY <2>1, SlotRequestMoves DEF AJob
    <2>4. job' \in [Editor -> AJob]  BY <1>4, <2>3, JobGoes DEF WriteSlot, GridTyped
    <2>5. j.key \in slotKeys  BY <2>1 DEF SlotRequest
    <2>6. slots' = slots \/ slots' = PutRow(slots, j.key, row)  BY <1>4 DEF WriteSlot
    <2>7. SlotsAre(slots')
      <3>. HIDE DEF row, j
      <3>. QED BY <2>2, <2>5, <2>6, PutSlot DEF GridTyped
    <2>. QED BY <1>4, <2>4, <2>7 DEF GridTyped, WriteSlot, aside
  <1>5. ASSUME NEW e \in Editor, BustManifests(e) PROVE GridTyped'
    BY <1>5, JobGoes DEF BustManifests, GridTyped, aside, AJob
  <1>6. ASSUME NEW e \in Editor, ScheduleSlot(e) PROVE GridTyped'
    <2>. DEFINE j == job[e]
                old == IF j.key \in DOMAIN slots THEN slots[j.key]
                       ELSE [dur |-> 0, room |-> NoOne, venue |-> NoOne, lect |-> NoOne]
                row == [old EXCEPT !.dur = j.dur]
    <2>1. j \in Scheduling  BY <1>6, FormOfJob DEF ScheduleSlot, At, GridTyped
    <2>2. [j EXCEPT !.pc = "old"] \in AJob /\ NoJob \in AJob  BY <2>1, SchedulingMoves DEF AJob
    <2>3. \/ job' = [job EXCEPT ![e] = NoJob] /\ slots' = slots
          \/ job' = [job EXCEPT ![e] = [j EXCEPT !.pc = "old"]] /\ slots' = slots
          \/ /\ job' = [job EXCEPT ![e] = [j EXCEPT !.pc = "old"]] /\ slots' = PutRow(slots, j.key, row)
             /\ j.key[3] # NoOne /\ j.dur # 0
      BY <1>6 DEF ScheduleSlot
    <2>4. job' \in [Editor -> AJob]
      <3>. HIDE DEF j, row
      <3>. QED BY <2>2, <2>3, JobGoes DEF GridTyped
    <2>5. ASSUME j.key[3] # NoOne, j.dur # 0 PROVE row \in ARow /\ j.key \in slotKeys
      BY <2>1, <2>5, RescheduledIsRow DEF GridTyped
    <2>6. SlotsAre(slots')
      <3>. HIDE DEF row, j
      <3>. QED BY <2>3, <2>5, PutSlot DEF GridTyped
    <2>. QED BY <1>6, <2>4, <2>6 DEF GridTyped, ScheduleSlot, aside
  <1>7. ASSUME NEW e \in Editor, DropOldSlots(e) PROVE GridTyped'
    <2>1. job[e] \in Scheduling  BY <1>7, FormOfJob DEF DropOldSlots, At, GridTyped
    <2>2. [job[e] EXCEPT !.pc = "bust"] \in AJob  BY <2>1, SchedulingMoves
    <2>3. job' \in [Editor -> AJob]  BY <1>7, <2>2, JobGoes DEF DropOldSlots, GridTyped
    <2>4. SlotsAre(slots')  BY <1>7, FewerSlots DEF DropOldSlots, GridTyped
    <2>. QED BY <1>7, <2>3, <2>4 DEF GridTyped, DropOldSlots, aside
  <1>8. ASSUME NEW e \in Editor, DeleteRoom(e) PROVE GridTyped'
    <2>1. job' \in [Editor -> AJob]  BY <1>8, JobGoes DEF DeleteRoom, GridTyped, AJob
    <2>2. SlotsAre(slots')
      <3>1. \A k \in DOMAIN slots : slots[k] \in ARow /\ [slots[k] EXCEPT !.venue = NoOne] \in ARow
        BY DEF GridTyped, SlotsAre, ARow, RoomOrNone
      <3>. QED BY <1>8, <3>1 DEF DeleteRoom, SlotsAre, GridTyped
    <2>3. venues' \in [DOMAIN venues' -> BOOLEAN] /\ DOMAIN venues' \subseteq Room
      BY <1>8 DEF DeleteRoom, GridTyped, Without, Restrict
    <2>. QED BY <1>8, <2>1, <2>2, <2>3 DEF GridTyped, DeleteRoom
  <1>9. ASSUME NEW e \in Editor, NEW key \in slotKeys, DeleteTimetableSlot(e, key) PROVE GridTyped'
    <2>1. [what |-> "delete", pc |-> "bust"] \in AJob  BY DEF AJob, Deletion
    <2>2. job' \in [Editor -> AJob]  BY <1>9, <2>1, JobGoes DEF DeleteTimetableSlot, GridTyped
    <2>3. SlotsAre(slots')  BY <1>9, FewerSlots DEF DeleteTimetableSlot, GridTyped
    <2>. QED BY <1>9, <2>2, <2>3 DEF GridTyped, DeleteTimetableSlot, aside
  <1>10. ASSUME NEW e \in Editor, NEW c \in Group, NEW u \in CourseUnit, NEW h \in Starts, SetUnitSchedule(e, c, u, h)
         PROVE GridTyped'
    <2>1. coordOf[c] \in CoordOrNone  BY <1>10 DEF SetUnitSchedule, GridTyped, CohortsAre
    <2>2. [what |-> "unit", pc |-> "bust", coord |-> coordOf[c]] \in AJob  BY <2>1 DEF AJob, UnitRequest
    <2>3. job' \in [Editor -> AJob]  BY <1>10, <2>2, JobGoes DEF SetUnitSchedule, GridTyped
    <2>. QED BY <1>10, <2>3 DEF GridTyped, SetUnitSchedule, aside
  <1>11. ASSUME NEW e \in Editor, NEW c \in Group, NEW u \in CourseUnit, NEW h \in Starts \cup {NoOne}, NEW dur \in {0, 1},
                SetTimetableSchedule(e, c, u, h, dur)
         PROVE GridTyped'
    <2>1. coordOf[c] \in CoordOrNone  BY <1>11 DEF SetTimetableSchedule, GridTyped, CohortsAre
    <2>2. [what |-> "schedule", pc |-> "slot", key |-> <<c, u, h>>, dur |-> dur, coord |-> coordOf[c]] \in AJob
      BY <2>1 DEF AJob, Scheduling
    <2>3. job' \in [Editor -> AJob]  BY <1>11, <2>2, JobGoes DEF SetTimetableSchedule, GridTyped
    <2>. QED BY <1>11, <2>3 DEF GridTyped, SetTimetableSchedule, aside
  <1>12. ASSUME NEW e \in Editor, NEW r \in Room, CountRoomUse(e, r) PROVE GridTyped'
    <2>1. [what |-> "room", pc |-> "drop", room |-> r] \in AJob  BY DEF AJob, RoomRequest
    <2>2. job' \in [Editor -> AJob]  BY <1>12, <2>1, JobGoes DEF CountRoomUse, GridTyped
    <2>. QED BY <1>12, <2>2 DEF GridTyped, CountRoomUse, aside
  <1>13. ASSUME NEW c \in Group, DeleteOffering(c) PROVE GridTyped'
    <2>1. SlotsAre(slots') /\ CohortsAre(coordOf')  BY <1>13, FewerSlots, FewerCohorts DEF DeleteOffering, GridTyped
    <2>. QED BY <1>13, <2>1 DEF GridTyped, DeleteOffering, registry
  <1>14. ASSUME NEW c \in Group, NEW k \in Coord \cup {NoOne}, SaveOffering(c, k) PROVE GridTyped'
    <2>1. CohortsAre(coordOf')  BY <1>14, PutCohort DEF SaveOffering, GridTyped, CoordOrNone
    <2>. QED BY <1>14, <2>1 DEF GridTyped, SaveOffering, registry
  <1>15. ASSUME NEW r \in Room, NEW a \in BOOLEAN, CreateRoom(r, a) \/ UpdateRoom(r, a) \/ ImportRoom(r, a)
         PROVE GridTyped'
    <2>1. RegisterRoom(r, a)  BY <1>15 DEF CreateRoom, UpdateRoom, ImportRoom
    <2>2. venues' \in [DOMAIN venues' -> BOOLEAN] /\ DOMAIN venues' \subseteq Room
      BY <2>1 DEF RegisterRoom, GridTyped, PutRow
    <2>. QED BY <2>1, <2>2 DEF GridTyped, RegisterRoom, registry
  <1>16. ASSUME NEW k \in Coord, BuildManifest(k) \/ CacheManifest(k) PROVE GridTyped'
    BY <1>16 DEF BuildManifest, CacheManifest, GridTyped, registry
  <1>17. ASSUME NEW i \in Issuer, \/ \E l \in Lecturer, h \in Starts : FindCode(i, l, h)
                                  \/ ReadCode(i) \/ \E c \in Code : InsertCode(i, c)
         PROVE GridTyped'
    BY <1>17 DEF FindCode, ReadCode, InsertCode, codeOnly, GridTyped
  <1>18. CASE UNCHANGED ttVars  BY <1>18 DEF ttVars, GridTyped
  <1>. QED BY <1>1, <1>2, <1>3, <1>4, <1>5, <1>6, <1>7, <1>8, <1>9, <1>10, <1>11, <1>12, <1>13, <1>14, <1>15, <1>16,
              <1>17, <1>18 DEF TimetableNext, GridNext, CodeNext

\* However edits, imports, schedules and deletions interleave, the slots, the cohorts, the rooms and
\* the requests stay what the handlers write (timetable_slots.go, timetable.go, rooms.go).
THEOREM GridTypedAlways == TimetableSpec => []GridTyped
  BY GridTypedInit, GridTypedStep, PTL DEF TimetableSpec

-----------------------------------------------------------------------------
(* Timetable: one lecturer a room *)

\* Two rows whose hours do not meet, and a table in which two lecturers of a room are apart
Apart(a, b, f) == a[3] + f[a].dur <= b[3] \/ b[3] + f[b].dur <= a[3]
OneLecturer(f) ==
    \A a, b \in DOMAIN f :
        a # b /\ f[a].room = f[b].room /\ f[a].room # NoOne /\ f[a].lect # f[b].lect => Apart(a, b, f)

\* A row the constraint lets in is apart from those of another lecturer in its room
LEMMA PutKeepsOneLecturer ==
    ASSUME SlotsAre(slots), OneLecturer(slots), NEW k \in slotKeys, NEW r \in ARow, ~DoubleBooking(k, r)
    PROVE  OneLecturer(PutRow(slots, k, r))
  <1>. DEFINE f == PutRow(slots, k, r)
  <1>1. DOMAIN f = DOMAIN slots \cup {k} /\ f[k] = r /\ \A x \in DOMAIN slots \ {k} : f[x] = slots[x]
    BY DEF PutRow
  <1>. HIDE DEF f
  <1>2. \A x \in DOMAIN f : x[3] \in Nat /\ f[x].dur \in Nat
    <2>1. SlotsAre(f)  BY PutSlot DEF f
    <2>2. \A x \in slotKeys : x[3] \in Nat
      <3>1. \A x \in slotKeys : x[3] \in Starts  BY DEF slotKeys
      <3>2. DayLen \in Nat /\ Starts \subseteq 0 .. DayLen - 1  BY TimetableAssumption
      <3>3. \A n \in Starts : n \in Nat  BY <3>2
      <3>. QED BY <3>1, <3>3
    <2>. QED BY <2>1, <2>2 DEF SlotsAre, ARow
  <1>3. ASSUME NEW x \in DOMAIN slots \ {k}, slots[x].room = r.room, r.room # NoOne, slots[x].lect # r.lect
        PROVE  Apart(x, k, f) /\ Apart(k, x, f)
    <2>1. ~(x[3] < k[3] + r.dur /\ k[3] < x[3] + slots[x].dur)  BY <1>3 DEF DoubleBooking
    <2>. QED BY <1>1, <1>2, <2>1 DEF Apart
  <1>4. ASSUME NEW a \in DOMAIN f, NEW b \in DOMAIN f, a # b, f[a].room = f[b].room, f[a].room # NoOne,
               f[a].lect # f[b].lect
        PROVE  Apart(a, b, f)
    <2>1. CASE a = k  BY <1>1, <1>3, <1>4, <2>1
    <2>2. CASE b = k  BY <1>1, <1>3, <1>4, <2>2
    <2>3. CASE a # k /\ b # k
      <3>1. f[a] = slots[a] /\ f[b] = slots[b] /\ a \in DOMAIN slots /\ b \in DOMAIN slots  BY <1>1, <2>3
      <3>2. Apart(a, b, slots)  BY <1>4, <3>1 DEF OneLecturer
      <3>. QED BY <3>1, <3>2 DEF Apart
    <2>. QED BY <2>1, <2>2, <2>3
  <1>. QED BY <1>4 DEF OneLecturer, f

\* Slots dropped leave the others apart.
LEMMA FewerKeepOneLecturer ==
    ASSUME NEW f, OneLecturer(f), SlotsAre(f), NEW ks
    PROVE  OneLecturer(Without(f, ks))
  <1>1. DOMAIN Without(f, ks) = DOMAIN f \ ks /\ \A k \in DOMAIN f \ ks : Without(f, ks)[k] = f[k]  BY FewerSlots
  <1>. DEFINE g == Without(f, ks)
  <1>. HIDE DEF g
  <1>2. \A a, b \in DOMAIN g : Apart(a, b, f) => Apart(a, b, g)  BY <1>1 DEF Apart, g
  <1>. QED BY <1>1, <1>2 DEF OneLecturer, g

\* At the start no room is taken.
LEMMA OneLecturerInit == TimetableInit => OneLecturer(slots)
  <1>1. CASE side = "grid"  BY <1>1 DEF TimetableInit, OneLecturer
  <1>2. CASE side = "code"
    <2>1. TimetableInit => \A k \in DOMAIN slots : slots[k].room = NoOne  BY <1>2 DEF TimetableInit
    <2>. QED BY <2>1 DEF OneLecturer
  <1>. QED BY <1>1, <1>2 DEF TimetableInit

\* Whatever is written went past the exclusion constraint.
LEMMA OneLecturerStep == GridTyped /\ OneLecturer(slots) /\ [TimetableNext]_ttVars => OneLecturer(slots')
  <1>. SUFFICES ASSUME GridTyped, OneLecturer(slots), [TimetableNext]_ttVars PROVE OneLecturer(slots')  OBVIOUS
  <1>0. SlotsAre(slots)  BY DEF GridTyped
  <1>1. ASSUME NEW e \in Editor, WriteSlot(e) PROVE OneLecturer(slots')
    <2>. DEFINE j == job[e]
                row == Upsert(j.key, j.dur, j.room, j.lect)
    <2>1. j \in SlotRequest  BY <1>1, FormOfJob DEF WriteSlot, GridTyped
    <2>2. row \in ARow /\ j.key \in slotKeys  BY <2>1, UpsertIsRow DEF GridTyped, SlotRequest
    <2>3. slots' = slots \/ (slots' = PutRow(slots, j.key, row) /\ ~DoubleBooking(j.key, row))  BY <1>1 DEF WriteSlot
    <2>. HIDE DEF j, row
    <2>. QED BY <1>0, <2>2, <2>3, PutKeepsOneLecturer
  <1>2. ASSUME NEW e \in Editor, ScheduleSlot(e) PROVE OneLecturer(slots')
    <2>. DEFINE j == job[e]
                old == IF j.key \in DOMAIN slots THEN slots[j.key]
                       ELSE [dur |-> 0, room |-> NoOne, venue |-> NoOne, lect |-> NoOne]
                row == [old EXCEPT !.dur = j.dur]
    <2>1. j \in Scheduling  BY <1>2, FormOfJob DEF ScheduleSlot, At, GridTyped
    <2>2. \/ slots' = slots
          \/ /\ slots' = PutRow(slots, j.key, row) /\ ~DoubleBooking(j.key, row)
             /\ j.key[3] # NoOne /\ j.dur # 0
      BY <1>2 DEF ScheduleSlot
    <2>3. ASSUME j.key[3] # NoOne, j.dur # 0 PROVE row \in ARow /\ j.key \in slotKeys
      BY <1>0, <2>1, <2>3, RescheduledIsRow
    <2>. HIDE DEF j, row
    <2>. QED BY <1>0, <2>2, <2>3, PutKeepsOneLecturer
  <1>3. ASSUME NEW e \in Editor, DropOldSlots(e) PROVE OneLecturer(slots')
    BY <1>0, <1>3, FewerKeepOneLecturer DEF DropOldSlots
  <1>4. ASSUME NEW e \in Editor, NEW key \in slotKeys, DeleteTimetableSlot(e, key) PROVE OneLecturer(slots')
    BY <1>0, <1>4, FewerKeepOneLecturer DEF DeleteTimetableSlot
  <1>5. ASSUME NEW c \in Group, DeleteOffering(c) PROVE OneLecturer(slots')
    BY <1>0, <1>5, FewerKeepOneLecturer DEF DeleteOffering
  <1>6. ASSUME NEW e \in Editor, DeleteRoom(e) PROVE OneLecturer(slots')
    <2>1. \A k \in DOMAIN slots : slots[k] \in ARow  BY <1>0 DEF SlotsAre
    <2>2. /\ DOMAIN slots' = DOMAIN slots
          /\ \A k \in DOMAIN slots : /\ slots'[k].dur = slots[k].dur /\ slots'[k].room = slots[k].room
                                     /\ slots'[k].lect = slots[k].lect
      BY <1>6, <2>1 DEF DeleteRoom, ARow
    <2>. QED BY <2>2 DEF OneLecturer, Apart
  <1>7. CASE UNCHANGED slots  BY <1>7
  <1>8. CASE ~UNCHANGED slots
    <2>1. /\ ~(\E e \in Editor, a \in Asked : NextRow(e, a) \/ \E what \in {"grid", "import"} : BeginSlot(e, what, a))
          /\ ~(\E e \in Editor : CheckCohort(e) \/ CheckRoom(e) \/ BustManifests(e))
          /\ ~(\E e \in Editor, r \in Room : CountRoomUse(e, r))
      BY <1>8 DEF NextRow, BeginSlot, CheckCohort, CheckRoom, BustManifests, CountRoomUse
    <2>2. \A e \in Editor, c \in Group, u \in CourseUnit :
             /\ \A h \in Starts : ~SetUnitSchedule(e, c, u, h)
             /\ ~SetTimetableSchedule(e, c, u, NoOne, 1)
             /\ \A h \in Starts, dur \in {0, 1} : ~SetTimetableSchedule(e, c, u, h, dur)
      <3>1. \A e, c, u, h : SetUnitSchedule(e, c, u, h) => UNCHANGED slots  BY DEF SetUnitSchedule
      <3>2. \A e, c, u, h, dur : SetTimetableSchedule(e, c, u, h, dur) => UNCHANGED slots  BY DEF SetTimetableSchedule
      <3>. QED BY <1>8, <3>1, <3>2
    <2>3. /\ ~(\E c \in Group, k \in Coord \cup {NoOne} : SaveOffering(c, k))
          /\ ~(\E r \in Room, a \in BOOLEAN : CreateRoom(r, a) \/ UpdateRoom(r, a) \/ ImportRoom(r, a))
          /\ ~(\E k \in Coord : BuildManifest(k) \/ CacheManifest(k))
      BY <1>8 DEF SaveOffering, CreateRoom, UpdateRoom, ImportRoom, RegisterRoom, BuildManifest, CacheManifest
    <2>4. ~CodeNext  BY <1>8 DEF CodeNext, FindCode, ReadCode, InsertCode, codeOnly
    <2>5. GridNext  BY <1>8, <2>4 DEF ttVars, TimetableNext
    <2>6. \/ \E e \in Editor : \/ WriteSlot(e) \/ ScheduleSlot(e) \/ DropOldSlots(e) \/ DeleteRoom(e)
                              \/ \E key \in slotKeys : DeleteTimetableSlot(e, key)
          \/ \E c \in Group : DeleteOffering(c)
      BY <2>1, <2>2, <2>3, <2>5 DEF GridNext
    <2>. QED BY <1>1, <1>2, <1>3, <1>4, <1>5, <1>6, <2>6
  <1>. QED BY <1>7, <1>8

\* A lecture in the room at an hour asked about keeps the room from being free
LEMMA FreeRoomsAreEmpty == GridTyped => FreeRoomHasNoLecture
  <1>. SUFFICES ASSUME GridTyped, NEW r \in Room, NEW at \in 0 .. DayLen - 1, NEW hours \in 1 .. 2, FreeRoom(r, at, hours),
                       NEW k \in DOMAIN slots, slots[k].venue = r,
                       NEW x \in (k[3] .. k[3] + slots[k].dur - 1) \cap (at .. at + hours - 1)
                PROVE FALSE
    BY DEF FreeRoomHasNoLecture
  <1>1. k[3] \in Nat /\ slots[k].dur \in Nat  BY TimetableAssumption DEF GridTyped, SlotsAre, ARow, slotKeys
  <1>2. DayLen \in Nat  BY TimetableAssumption
  <1>. DEFINE s == k[3]  d == slots[k].dur
  <1>3. ~(s < at + hours /\ at < LectureEnds(k))  BY DEF FreeRoom
  <1>4. LectureEnds(k) = IF s + d > DayLen THEN DayLen ELSE s + d  BY DEF LectureEnds
  <1>. HIDE DEF s, d
  <1>5. s \in Nat /\ d \in Nat /\ x \in s .. s + d - 1  BY <1>1 DEF s, d
  <1>. QED BY <1>2, <1>3, <1>4, <1>5

-----------------------------------------------------------------------------
(* Timetable: one code a lecture *)

\* What an issuer of a combined code has in hand; a code has one owner, and is what the issuer was told
Told == [pc : {"told"}, lec : Lecturer \X Starts, code : Code \cup {NoOne}]
Asking == [pc : {"insert", "again"}, lec : Lecturer \X Starts, left : Int]
CodesTyped == /\ codes \in [DOMAIN codes -> Code] /\ DOMAIN codes \subseteq Lecturer \X Starts
              /\ issued \in [Issuer -> {NoJob} \cup Told \cup Asking]
OneOwner(f) == \A x, y \in DOMAIN f : f[x] = f[y] => x = y
ToldOf(f, r) == r # NoJob /\ r.pc = "told" /\ r.code # NoOne => r.lec \in DOMAIN f /\ r.code = f[r.lec]
CodeInv == CodesTyped /\ OneOwner(codes) /\ \A i \in Issuer : ToldOf(codes, issued[i])

\* At the start no code is issued.
LEMMA CodeInvInit == TimetableInit => CodeInv
  <1>. SUFFICES ASSUME TimetableInit PROVE CodeInv  OBVIOUS
  <1>1. codes = <<>> /\ issued = [i \in Issuer |-> NoJob]  BY DEF TimetableInit
  <1>. QED BY <1>1 DEF CodeInv, CodesTyped, OneOwner, ToldOf

\* A request that is about to insert is one that asks.
LEMMA FormOfIssue ==
    ASSUME NEW r \in {NoJob} \cup Told \cup Asking
    PROVE  r.pc \in {"insert", "again"} => r \in Asking
  BY DEF NoJob, Told, Asking

\* The unique index lets a code have one lecture, and a conflict is answered with what the row holds.
LEMMA CodeInvStep == CodeInv /\ [TimetableNext]_ttVars => CodeInv'
  <1>. SUFFICES ASSUME CodeInv, [TimetableNext]_ttVars PROVE CodeInv'  OBVIOUS
  <1>1. ASSUME NEW i \in Issuer, NEW r \in {NoJob} \cup Told \cup Asking, issued' = [issued EXCEPT ![i] = r],
               codes' = codes, ToldOf(codes, r)
        PROVE  CodeInv'
    BY <1>1 DEF CodeInv, CodesTyped
  <1>2. ASSUME NEW i \in Issuer, NEW l \in Lecturer, NEW h \in Starts, FindCode(i, l, h) PROVE CodeInv'
    <2>1. CASE <<l, h>> \in DOMAIN codes
      <3>. DEFINE r == [pc |-> "told", lec |-> <<l, h>>, code |-> codes[<<l, h>>]]
      <3>1. r \in Told /\ ToldOf(codes, r)  BY <2>1 DEF Told, ToldOf, CodeInv, CodesTyped
      <3>2. issued' = [issued EXCEPT ![i] = r] /\ codes' = codes  BY <1>2, <2>1 DEF FindCode, Issues
      <3>. HIDE DEF r
      <3>. QED BY <1>1, <3>1, <3>2
    <2>2. CASE <<l, h>> \notin DOMAIN codes
      <3>. DEFINE r == [pc |-> "insert", lec |-> <<l, h>>, left |-> Tries]
      <3>1. r \in Asking /\ ToldOf(codes, r)  BY TimetableAssumption DEF Asking, ToldOf
      <3>2. issued' = [issued EXCEPT ![i] = r] /\ codes' = codes  BY <1>2, <2>2 DEF FindCode, Issues
      <3>. HIDE DEF r
      <3>. QED BY <1>1, <3>1, <3>2
    <2>. QED BY <2>1, <2>2
  <1>3. ASSUME NEW i \in Issuer, ReadCode(i) PROVE CodeInv'
    <2>1. issued[i] \in Asking  BY <1>3, FormOfIssue DEF ReadCode, CodeInv, CodesTyped
    <2>. DEFINE j == issued[i]
                t == [pc |-> "told", lec |-> j.lec, code |-> codes[j.lec]]
                n == [pc |-> "told", lec |-> j.lec, code |-> NoOne]
                a == [j EXCEPT !.pc = "insert"]
    <2>2. codes' = codes /\ \/ j.lec \in DOMAIN codes /\ issued' = [issued EXCEPT ![i] = t]
                            \/ issued' = [issued EXCEPT ![i] = a]
                            \/ issued' = [issued EXCEPT ![i] = n]
      BY <1>3 DEF ReadCode, Issues
    <2>3. j.lec \in DOMAIN codes => t \in Told /\ ToldOf(codes, t)  BY <2>1 DEF Told, Asking, ToldOf, CodeInv, CodesTyped
    <2>4. n \in Told /\ ToldOf(codes, n)  BY <2>1 DEF Told, Asking, ToldOf
    <2>5. a \in Asking /\ ToldOf(codes, a)  BY <2>1 DEF Asking, ToldOf
    <2>. HIDE DEF j, t, n, a
    <2>. QED BY <1>1, <2>2, <2>3, <2>4, <2>5
  <1>4. ASSUME NEW i \in Issuer, NEW c \in Code, InsertCode(i, c) PROVE CodeInv'
    <2>1. issued[i] \in Asking  BY <1>4, FormOfIssue DEF InsertCode, CodeInv, CodesTyped
    <2>. DEFINE j == issued[i]
                a == [j EXCEPT !.pc = "again", !.left = @ - 1]
    <2>2. issued' = [issued EXCEPT ![i] = a]  BY <1>4 DEF InsertCode, Issues
    <2>3. a \in Asking /\ \A f : ToldOf(f, a)
      <3>1. \A n \in Int : [j EXCEPT !.pc = "again", !.left = n] \in Asking  BY <2>1 DEF Asking
      <3>2. j.left - 1 \in Int  BY <2>1 DEF Asking
      <3>3. a \in Asking  BY <3>1, <3>2
      <3>4. a.pc = "again"  BY <2>1 DEF Asking
      <3>. QED BY <3>3, <3>4 DEF ToldOf
    <2>4. j.lec \in Lecturer \X Starts  BY <2>1 DEF Asking
    <2>5. CASE codes' = codes
      <3>. HIDE DEF a
      <3>. QED BY <1>1, <2>2, <2>3, <2>5
    <2>6. CASE ~CodeConflict(j.lec, c) /\ codes' = PutRow(codes, j.lec, c)
      <3>1. j.lec \notin DOMAIN codes /\ \A x \in DOMAIN codes : codes[x] # c  BY <2>6 DEF CodeConflict
      <3>. HIDE DEF j, a
      <3>2. /\ DOMAIN codes' = DOMAIN codes \cup {j.lec} /\ codes'[j.lec] = c
            /\ \A x \in DOMAIN codes : codes'[x] = codes[x]
            /\ codes' \in [DOMAIN codes' -> Code]
        BY <2>6, <3>1 DEF PutRow, CodeInv, CodesTyped
      <3>3. OneOwner(codes')  BY <3>1, <3>2 DEF OneOwner, CodeInv
      <3>4. \A r : ToldOf(codes, r) => ToldOf(codes', r)  BY <3>2 DEF ToldOf
      <3>5. \A x \in Issuer : ToldOf(codes', issued'[x])  BY <2>2, <2>3, <3>4 DEF CodeInv, CodesTyped
      <3>6. issued' \in [Issuer -> {NoJob} \cup Told \cup Asking]  BY <2>2, <2>3 DEF CodeInv, CodesTyped
      <3>7. DOMAIN codes' \subseteq Lecturer \X Starts  BY <2>4, <3>2 DEF CodeInv, CodesTyped
      <3>. QED BY <3>2, <3>3, <3>5, <3>6, <3>7 DEF CodeInv, CodesTyped
    <2>. QED BY <1>4, <2>5, <2>6 DEF InsertCode
  <1>5. CASE UNCHANGED <<codes, issued>>  BY <1>5 DEF CodeInv, CodesTyped
  <1>6. CASE UNCHANGED ttVars  BY <1>5, <1>6 DEF ttVars
  <1>7. CASE ~UNCHANGED <<codes, issued>>
    <2>1. /\ ~(\E e \in Editor, a \in Asked : NextRow(e, a) \/ \E what \in {"grid", "import"} : BeginSlot(e, what, a))
          /\ ~(\E e \in Editor : \/ CheckCohort(e) \/ CheckRoom(e) \/ WriteSlot(e) \/ BustManifests(e)
                                 \/ ScheduleSlot(e) \/ DropOldSlots(e) \/ DeleteRoom(e))
          /\ ~(\E e \in Editor, key \in slotKeys : DeleteTimetableSlot(e, key))
          /\ ~(\E e \in Editor, r \in Room : CountRoomUse(e, r))
      BY <1>7 DEF NextRow, BeginSlot, CheckCohort, CheckRoom, WriteSlot, BustManifests, ScheduleSlot, DropOldSlots, DeleteRoom,
                  DeleteTimetableSlot, CountRoomUse, aside
    <2>2. \A e \in Editor, c \in Group, u \in CourseUnit :
             /\ \A h \in Starts : ~SetUnitSchedule(e, c, u, h)
             /\ ~SetTimetableSchedule(e, c, u, NoOne, 1)
             /\ \A h \in Starts, dur \in {0, 1} : ~SetTimetableSchedule(e, c, u, h, dur)
      <3>1. \A e, c, u, h : SetUnitSchedule(e, c, u, h) => UNCHANGED <<codes, issued>>  BY DEF SetUnitSchedule, aside
      <3>2. \A e, c, u, h, dur : SetTimetableSchedule(e, c, u, h, dur) => UNCHANGED <<codes, issued>>
        BY DEF SetTimetableSchedule, aside
      <3>. QED BY <1>7, <3>1, <3>2
    <2>3. /\ ~(\E c \in Group : DeleteOffering(c) \/ \E k \in Coord \cup {NoOne} : SaveOffering(c, k))
          /\ ~(\E r \in Room, a \in BOOLEAN : CreateRoom(r, a) \/ UpdateRoom(r, a) \/ ImportRoom(r, a))
          /\ ~(\E k \in Coord : BuildManifest(k) \/ CacheManifest(k))
      BY <1>7 DEF SaveOffering, DeleteOffering, CreateRoom, UpdateRoom, ImportRoom, RegisterRoom, BuildManifest, CacheManifest,
                  registry
    <2>4. ~GridNext  BY <2>1, <2>2, <2>3 DEF GridNext
    <2>. QED BY <1>2, <1>3, <1>4, <1>6, <2>4 DEF TimetableNext, CodeNext
  <1>. QED BY <1>5, <1>7

\* So every issuer of a lecture's code was told the same one.
LEMMA CodesAgree == CodeInv => LectureHasOneCode
  BY DEF CodeInv, LectureHasOneCode, OneOwner, ToldOf

\* Of any number of cohorts, rooms, editors and issuers: two lecturers are never in a room at one hour, a room said
\* to be free has no lecture then, and a combined lecture has one code (timetable_slots.go, rooms.go, session_code.go).
THEOREM TimetableIsSoundAlways == TimetableSpec => []TimetableIsSound
  <1>. DEFINE I == GridTyped /\ OneLecturer(slots) /\ CodeInv
  <1>1. TimetableInit => I  BY GridTypedInit, OneLecturerInit, CodeInvInit
  <1>2. I /\ [TimetableNext]_ttVars => I'  BY GridTypedStep, OneLecturerStep, CodeInvStep
  <1>3. I => TimetableIsSound
    <2>1. OneLecturer(slots) => RoomHasOneLecturer  BY DEF OneLecturer, Apart, RoomHasOneLecturer
    <2>. QED BY <2>1, FreeRoomsAreEmpty, CodesAgree DEF TimetableIsSound
  <1>. QED BY <1>1, <1>2, <1>3, PTL DEF TimetableSpec

-----------------------------------------------------------------------------
(* Timetable: the cached week *)

\* The cohorts of a coordinator, their week, and a request that was read for another coordinator
GroupsIn(co, k) == {c \in DOMAIN co : co[c] = k}
WeekIn(f, co, k) == {<<s, f[s].dur, f[s].room, f[s].lect>> : s \in {s \in DOMAIN f : s[1] \in GroupsIn(co, k)}}
Strays(j, co, k) == /\ j.pc \in {"cohort", "room", "write", "slot", "old"} /\ j.what # "import"
                    /\ j.key[1] \in GroupsIn(co, k) /\ j.coord # k
Clean(m) == m # NoJob /\ m.clean
\* A request that is bound to bust the coordinator's manifest
WillBust(j, k) == /\ j.pc # "none"
                  /\ \/ j.what \in {"import", "delete"}
                     \/ j.what = "grid" /\ j.pc = "bust" /\ j.coord = k
                     \/ j.what = "schedule" /\ j.pc \in {"old", "bust"} /\ j.coord = k
\* A manifest is one that was built; a clean one shows the week, or is about to be busted
AManifest(m) == m = NoJob \/ \E w, x : m \in [week : {w}, combined : {x}, clean : BOOLEAN]
ManifestsTyped(m) == m \in [Coord -> {m[k] : k \in Coord}] /\ \A k \in Coord : AManifest(m[k])
WeeksAreKept(f, co, jb, b, c) ==
    \A k \in Coord :
        /\ Clean(b[k]) \/ Clean(c[k]) => \A e \in Editor : ~Strays(jb[e], co, k)
        /\ Clean(b[k]) => b[k].week = WeekIn(f, co, k)
        /\ Clean(c[k]) => c[k].week = WeekIn(f, co, k) \/ \E e \in Editor : WillBust(jb[e], k)
CacheInv == ManifestsTyped(built) /\ ManifestsTyped(cache) /\ WeeksAreKept(slots, coordOf, job, built, cache)

\* The operators of the proof are those of the model, with the state as an argument.
LEMMA WeeksAreTheSame ==
    /\ \A k : GroupsIn(coordOf, k) = GroupsOf(k) /\ WeekIn(slots, coordOf, k) = WeekOf(k)
    /\ \A e, k : Strays(job[e], coordOf, k) <=> Misdirected(e, k)
  <1>1. \A k : GroupsIn(coordOf, k) = GroupsOf(k)  BY DEF GroupsIn, GroupsOf
  <1>2. \A k : WeekIn(slots, coordOf, k) = WeekOf(k)  BY <1>1 DEF WeekIn, WeekOf
  <1>3. \A e, k : Strays(job[e], coordOf, k) <=> Misdirected(e, k)  BY <1>1 DEF Strays, Misdirected
  <1>. QED BY <1>1, <1>2, <1>3

\* A manifest something went past is no longer clean.
LEMMA DirtyManifest ==
    ASSUME NEW m, AManifest(m), m # NoJob
    PROVE  AManifest([m EXCEPT !.clean = FALSE]) /\ ~Clean([m EXCEPT !.clean = FALSE])
  <1>1. PICK w, x : m \in [week : {w}, combined : {x}, clean : BOOLEAN]  BY DEF AManifest
  <1>2. [m EXCEPT !.clean = FALSE] \in [week : {w}, combined : {x}, clean : BOOLEAN]  BY <1>1
  <1>3. [m EXCEPT !.clean = FALSE].clean = FALSE  BY <1>1
  <1>. QED BY <1>2, <1>3 DEF AManifest, Clean

\* An edit goes past every manifest that is being built.
LEMMA OvertakenIsDirty ==
    ASSUME NEW b, ManifestsTyped(b)
    PROVE  ManifestsTyped(Overtaken(b)) /\ \A k \in Coord : ~Clean(Overtaken(b)[k])
  <1>1. ASSUME NEW k \in Coord PROVE AManifest(Overtaken(b)[k]) /\ ~Clean(Overtaken(b)[k])
    <2>1. CASE b[k] = NoJob  BY <2>1 DEF Overtaken, AManifest, Clean
    <2>2. CASE b[k] # NoJob
      <3>1. Overtaken(b)[k] = [b[k] EXCEPT !.clean = FALSE]  BY <2>2 DEF Overtaken
      <3>2. AManifest(b[k])  BY DEF ManifestsTyped
      <3>. QED BY <2>2, <3>1, <3>2, DirtyManifest
    <2>. QED BY <2>1, <2>2
  <1>2. Overtaken(b) \in [Coord -> {Overtaken(b)[k] : k \in Coord}]  BY DEF Overtaken
  <1>. QED BY <1>1, <1>2 DEF ManifestsTyped

\* A change of coordinator goes past the manifests of those it concerns.
LEMMA UnsettledIsDirty ==
    ASSUME NEW m, ManifestsTyped(m), NEW ks
    PROVE  /\ ManifestsTyped(Unsettled(m, ks))
           /\ \A k \in Coord : Clean(Unsettled(m, ks)[k]) => k \notin ks /\ Unsettled(m, ks)[k] = m[k]
  <1>1. ASSUME NEW k \in Coord
        PROVE  /\ AManifest(Unsettled(m, ks)[k])
               /\ Clean(Unsettled(m, ks)[k]) => k \notin ks /\ Unsettled(m, ks)[k] = m[k]
    <2>1. AManifest(m[k])  BY DEF ManifestsTyped
    <2>2. CASE k \in ks /\ m[k] # NoJob
      <3>1. Unsettled(m, ks)[k] = [m[k] EXCEPT !.clean = FALSE]  BY <2>2 DEF Unsettled
      <3>. QED BY <2>1, <2>2, <3>1, DirtyManifest
    <2>3. CASE ~(k \in ks /\ m[k] # NoJob)
      <3>1. Unsettled(m, ks)[k] = m[k]  BY <2>3 DEF Unsettled
      <3>. QED BY <2>1, <2>3, <3>1 DEF Clean
    <2>. QED BY <2>2, <2>3
  <1>2. Unsettled(m, ks) \in [Coord -> {Unsettled(m, ks)[k] : k \in Coord}]  BY DEF Unsettled
  <1>. QED BY <1>1, <1>2 DEF ManifestsTyped

\* A bust empties the cache of those it names.
LEMMA BustedManifests ==
    ASSUME NEW c, ManifestsTyped(c), NEW ks
    PROVE  LET d == [k \in Coord |-> IF k \in ks THEN NoJob ELSE c[k]] IN
           ManifestsTyped(d) /\ \A k \in Coord : Clean(d[k]) => k \notin ks /\ d[k] = c[k]
  BY DEF ManifestsTyped, AManifest, Clean

\* A week shows the slots of its cohorts only
LEMMA WeekStays ==
    ASSUME NEW f, NEW g, NEW co, NEW k,
           \A s : s[1] \in GroupsIn(co, k) => (s \in DOMAIN f <=> s \in DOMAIN g),
           \A s \in DOMAIN f : s[1] \in GroupsIn(co, k) =>
              f[s].dur = g[s].dur /\ f[s].room = g[s].room /\ f[s].lect = g[s].lect
    PROVE  WeekIn(f, co, k) = WeekIn(g, co, k)
  <1>. DEFINE A == {s \in DOMAIN f : s[1] \in GroupsIn(co, k)}  B == {s \in DOMAIN g : s[1] \in GroupsIn(co, k)}
  <1>1. A = B  OBVIOUS
  <1>2. \A s \in A : <<s, f[s].dur, f[s].room, f[s].lect>> = <<s, g[s].dur, g[s].room, g[s].lect>>  OBVIOUS
  <1>. HIDE DEF A, B
  <1>3. {<<s, f[s].dur, f[s].room, f[s].lect>> : s \in A} = {<<s, g[s].dur, g[s].room, g[s].lect>> : s \in B}
    BY <1>1, <1>2
  <1>. QED BY <1>3 DEF WeekIn, A, B

\* What a step may do to the manifests, the requests and the week and leave every clean manifest right
LEMMA WeeksStayKept ==
    ASSUME NEW f, NEW co, NEW jb, NEW b, NEW c, WeeksAreKept(f, co, jb, b, c),
           NEW f2, NEW co2, NEW jb2, NEW b2, NEW c2,
           \A k \in Coord : Clean(c2[k]) => c2[k] = c[k],
           \A k \in Coord : Clean(b2[k]) => b2[k] = b[k] /\ WeekIn(f2, co2, k) = WeekIn(f, co, k),
           \A k \in Coord, e \in Editor :
              (Clean(b2[k]) \/ Clean(c2[k])) /\ Strays(jb2[e], co2, k) => Strays(jb[e], co, k),
           \A k \in Coord : Clean(c2[k]) =>
              \/ \E e \in Editor : WillBust(jb2[e], k)
              \/ /\ WeekIn(f2, co2, k) = WeekIn(f, co, k)
                 /\ \A e \in Editor : ~WillBust(jb[e], k)
    PROVE  WeeksAreKept(f2, co2, jb2, b2, c2)
  <1>. SUFFICES ASSUME NEW k \in Coord
                PROVE  /\ Clean(b2[k]) \/ Clean(c2[k]) => \A e \in Editor : ~Strays(jb2[e], co2, k)
                       /\ Clean(b2[k]) => b2[k].week = WeekIn(f2, co2, k)
                       /\ Clean(c2[k]) => \/ c2[k].week = WeekIn(f2, co2, k)
                                         \/ \E e \in Editor : WillBust(jb2[e], k)
    BY DEF WeeksAreKept
  <1>1. /\ Clean(b[k]) \/ Clean(c[k]) => \A e \in Editor : ~Strays(jb[e], co, k)
        /\ Clean(b[k]) => b[k].week = WeekIn(f, co, k)
        /\ Clean(c[k]) => c[k].week = WeekIn(f, co, k) \/ \E e \in Editor : WillBust(jb[e], k)
    BY DEF WeeksAreKept
  <1>2. (Clean(c2[k]) => Clean(c[k])) /\ (Clean(b2[k]) => Clean(b[k]))  OBVIOUS
  <1>. QED BY <1>1, <1>2

\* At the start nothing is built or cached.
LEMMA CacheInvInit == TimetableInit => CacheInv
  <1>. SUFFICES ASSUME TimetableInit PROVE CacheInv  OBVIOUS
  <1>1. built = [k \in Coord |-> NoJob] /\ cache = [k \in Coord |-> NoJob]  BY DEF TimetableInit
  <1>2. ManifestsTyped(built) /\ ManifestsTyped(cache)  BY <1>1 DEF ManifestsTyped, AManifest
  <1>3. \A k \in Coord : ~Clean(built[k]) /\ ~Clean(cache[k])  BY <1>1 DEF Clean
  <1>. QED BY <1>2, <1>3 DEF CacheInv, WeeksAreKept

\* The same for a step of one request
LEMMA OneRequestMoves ==
    ASSUME NEW f, NEW co, NEW jb \in [Editor -> AJob], NEW b, NEW c, WeeksAreKept(f, co, jb, b, c),
           NEW f2, NEW co2, NEW b2, NEW c2, NEW e \in Editor, NEW j \in AJob,
           \A k \in Coord : Clean(c2[k]) => c2[k] = c[k],
           \A k \in Coord : Clean(b2[k]) => b2[k] = b[k] /\ WeekIn(f2, co2, k) = WeekIn(f, co, k),
           \A k \in Coord : GroupsIn(co2, k) = GroupsIn(co, k),
           \A k \in Coord : (Clean(b2[k]) \/ Clean(c2[k])) /\ Strays(j, co2, k) => Strays(jb[e], co, k),
           \A k \in Coord : Clean(c2[k]) =>
              \/ WillBust(j, k)
              \/ WeekIn(f2, co2, k) = WeekIn(f, co, k) /\ ~WillBust(jb[e], k)
    PROVE  WeeksAreKept(f2, co2, [jb EXCEPT ![e] = j], b2, c2)
  <1>. DEFINE jb2 == [jb EXCEPT ![e] = j]
  <1>1. jb2[e] = j /\ \A x \in Editor \ {e} : jb2[x] = jb[x]  OBVIOUS
  <1>. HIDE DEF jb2
  <1>2. ASSUME NEW k \in Coord, NEW x \in Editor, Clean(b2[k]) \/ Clean(c2[k]), Strays(jb2[x], co2, k)
        PROVE  Strays(jb[x], co, k)
    <2>1. CASE x = e  BY <1>1, <1>2, <2>1
    <2>2. CASE x # e  BY <1>1, <1>2, <2>2 DEF Strays
    <2>. QED BY <2>1, <2>2
  <1>3. ASSUME NEW k \in Coord, Clean(c2[k])
        PROVE  \/ \E x \in Editor : WillBust(jb2[x], k)
               \/ /\ WeekIn(f2, co2, k) = WeekIn(f, co, k)
                  /\ \A x \in Editor : ~WillBust(jb[x], k)
    <2>1. CASE WillBust(j, k)  BY <1>1, <2>1
    <2>2. CASE WeekIn(f2, co2, k) = WeekIn(f, co, k) /\ ~WillBust(jb[e], k)  BY <1>1, <2>2
    <2>. QED BY <1>3, <2>1, <2>2
  <1>4. WeeksAreKept(f2, co2, jb2, b2, c2)  BY <1>2, <1>3, WeeksStayKept
  <1>. QED BY <1>4 DEF jb2

\* A cohort the import makes has no coordinator
LEMMA CohortMadeHasNone ==
    ASSUME NEW c, NEW k \in Coord
    PROVE  GroupsIn(WithCohort(c), k) = GroupsIn(coordOf, k)
  <1>1. NoOne # k  BY TimetableAssumption
  <1>. QED BY <1>1 DEF GroupsIn, WithCohort, PutRow

\* The week of the same cohorts is the same.
LEMMA SameGroupsSameWeek ==
    ASSUME NEW f, NEW co, NEW co2, NEW k, GroupsIn(co2, k) = GroupsIn(co, k)
    PROVE  WeekIn(f, co2, k) = WeekIn(f, co, k)
  BY DEF WeekIn

\* A slot written or dropped in a cohort of somebody else is not in the week
LEMMA PutElsewhere ==
    ASSUME NEW f, NEW co, NEW k, NEW key, key[1] \notin GroupsIn(co, k), NEW r
    PROVE  WeekIn(PutRow(f, key, r), co, k) = WeekIn(f, co, k)
  <1>. DEFINE g == PutRow(f, key, r)
  <1>1. DOMAIN g = DOMAIN f \cup {key} /\ \A s \in DOMAIN f \ {key} : g[s] = f[s]  BY DEF PutRow
  <1>. HIDE DEF g
  <1>2. \A s : s[1] \in GroupsIn(co, k) => (s \in DOMAIN g <=> s \in DOMAIN f)  BY <1>1
  <1>3. \A s \in DOMAIN g : s[1] \in GroupsIn(co, k) => g[s] = f[s]  BY <1>1
  <1>4. WeekIn(g, co, k) = WeekIn(f, co, k)  BY <1>2, <1>3, WeekStays
  <1>. QED BY <1>4 DEF g

\* Nor is one dropped.
LEMMA DropElsewhere ==
    ASSUME NEW f, SlotsAre(f), NEW co, NEW k, NEW ks, \A s \in ks : s[1] \notin GroupsIn(co, k)
    PROVE  WeekIn(Without(f, ks), co, k) = WeekIn(f, co, k)
  <1>. DEFINE g == Without(f, ks)
  <1>1. DOMAIN g = DOMAIN f \ ks /\ \A s \in DOMAIN f \ ks : g[s] = f[s]  BY FewerSlots
  <1>. HIDE DEF g
  <1>2. \A s : s[1] \in GroupsIn(co, k) => (s \in DOMAIN g <=> s \in DOMAIN f)  BY <1>1
  <1>3. \A s \in DOMAIN g : s[1] \in GroupsIn(co, k) => g[s] = f[s]  BY <1>1
  <1>4. WeekIn(g, co, k) = WeekIn(f, co, k)  BY <1>2, <1>3, WeekStays
  <1>. QED BY <1>4 DEF g

\* A request for a slot that goes on, or ends with nothing written
LEMMA SlotRequestAdvances ==
    ASSUME NEW j \in SlotRequest, j.pc \in {"cohort", "room", "write"}, NEW n,
           \/ n = NoJob /\ j.what # "import"
           \/ n \in {[j EXCEPT !.pc = "room"], [j EXCEPT !.pc = "write"]}
           \/ n = [j EXCEPT !.pc = "bust"] /\ j.what = "import"
    PROVE  /\ n \in AJob
           /\ \A co, k : Strays(n, co, k) => Strays(j, co, k)
           /\ \A k : WillBust(n, k) \/ ~WillBust(j, k)
  <1>1. CASE n = NoJob /\ j.what # "import"
    <2>1. n.pc = "none" /\ n \in AJob  BY <1>1 DEF NoJob, AJob
    <2>2. j.what = "grid"  BY <1>1 DEF SlotRequest
    <2>. QED BY <2>1, <2>2 DEF Strays, WillBust
  <1>2. ASSUME NEW p \in {"cohort", "room", "write", "bust"}, n = [j EXCEPT !.pc = p], p = "bust" => j.what = "import"
        PROVE  /\ n \in AJob
               /\ \A co, k : Strays(n, co, k) => Strays(j, co, k)
               /\ \A k : WillBust(n, k) \/ ~WillBust(j, k)
    <2>1. n \in AJob /\ n.pc = p /\ n.what = j.what /\ n.key = j.key /\ n.coord = j.coord
      BY <1>2, SlotRequestMoves DEF SlotRequest
    <2>2. j.what \in {"grid", "import"}  BY DEF SlotRequest
    <2>3. ASSUME NEW co, NEW k, Strays(n, co, k) PROVE Strays(j, co, k)  BY <1>2, <2>1, <2>3 DEF Strays
    <2>4. ASSUME NEW k PROVE WillBust(n, k) \/ ~WillBust(j, k)  BY <1>2, <2>1, <2>2 DEF WillBust
    <2>. QED BY <2>1, <2>3, <2>4
  <1>3. CASE n \in {[j EXCEPT !.pc = "room"], [j EXCEPT !.pc = "write"]}  BY <1>2, <1>3
  <1>4. CASE n = [j EXCEPT !.pc = "bust"] /\ j.what = "import"  BY <1>2, <1>4
  <1>. QED BY <1>1, <1>3, <1>4

\* Every step keeps what is clean right, or is of a request that will bust it.
LEMMA CacheInvStep == GridTyped /\ CacheInv /\ [TimetableNext]_ttVars => CacheInv'
  <1>. SUFFICES ASSUME GridTyped, CacheInv, [TimetableNext]_ttVars PROVE CacheInv'  OBVIOUS
  <1>. USE DEF Goes
  <1>0. /\ SlotsAre(slots) /\ job \in [Editor -> AJob] /\ ManifestsTyped(built) /\ ManifestsTyped(cache)
        /\ WeeksAreKept(slots, coordOf, job, built, cache)
    BY DEF GridTyped, CacheInv
  <1>0a. /\ ManifestsTyped(Overtaken(built)) /\ \A k \in Coord : ~Clean(Overtaken(built)[k])
    BY <1>0, OvertakenIsDirty
  \* Requests
  <1>1. ASSUME NEW e \in Editor, NEW a \in Asked, NextRow(e, a) PROVE CacheInv'
    <2>. DEFINE j == [job[e] EXCEPT !.pc = "cohort", !.key = a.key, !.dur = a.dur, !.room = a.room, !.lect = a.lect]
    <2>1. job[e] \in SlotRequest /\ job[e].what = "import"  BY <1>1, FormOfWhat DEF NextRow, At, GridTyped
    <2>2. j \in SlotRequest /\ j.what = "import" /\ j.pc = "cohort"
      BY <2>1, AskedIsTyped DEF SlotRequest
    <2>3. \A k \in Coord : GroupsIn(coordOf', k) = GroupsIn(coordOf, k)  BY <1>1, CohortMadeHasNone DEF NextRow
    <2>4. job' = [job EXCEPT ![e] = j] /\ UNCHANGED <<slots, built, cache>>  BY <1>1 DEF NextRow
    <2>5. \A k \in Coord : ~Strays(j, coordOf', k) /\ WillBust(j, k)  BY <2>2 DEF Strays, WillBust
    <2>6. j \in AJob  BY <2>2 DEF AJob
    <2>. HIDE DEF j
    <2>7. \A k \in Coord : WeekIn(slots, coordOf', k) = WeekIn(slots, coordOf, k)  BY <2>3, SameGroupsSameWeek
    <2>8. WeeksAreKept(slots, coordOf', [job EXCEPT ![e] = j], built, cache)
      BY <1>0, <2>3, <2>5, <2>6, <2>7, OneRequestMoves
    <2>. QED BY <1>0, <2>4, <2>8 DEF CacheInv
  <1>2. ASSUME NEW e \in Editor, NEW a \in Asked, NEW what \in {"grid", "import"}, BeginSlot(e, what, a) PROVE CacheInv'
    <2>. DEFINE q == IF a.key[1] \in DOMAIN coordOf THEN coordOf[a.key[1]] ELSE NoOne
                j == [what |-> what, pc |-> "cohort", key |-> a.key, dur |-> a.dur, room |-> a.room, lect |-> a.lect,
                      coord |-> q]
    <2>1. q \in CoordOrNone  BY DEF GridTyped, CohortsAre, CoordOrNone
    <2>2. \A k \in Coord : a.key[1] \in GroupsIn(coordOf, k) => q = k  BY DEF GroupsIn
    <2>3. job' = [job EXCEPT ![e] = j] /\ UNCHANGED <<slots, built, cache>> /\ job[e] = NoJob  BY <1>2 DEF BeginSlot
    <2>. HIDE DEF q
    <2>4. j \in SlotRequest  BY <2>1, AskedIsTyped DEF SlotRequest
    <2>5. j.pc = "cohort" /\ j.key = a.key /\ j.coord = q  OBVIOUS
    <2>6. j \in AJob  BY <2>4 DEF AJob
    <2>. HIDE DEF j
    <2>7. \A k \in Coord : GroupsIn(coordOf', k) = GroupsIn(coordOf, k)  BY <1>2, CohortMadeHasNone DEF BeginSlot
    <2>8. \A k \in Coord : WeekIn(slots, coordOf', k) = WeekIn(slots, coordOf, k)  BY <2>7, SameGroupsSameWeek
    <2>9. \A k \in Coord : ~Strays(j, coordOf', k)  BY <2>2, <2>5, <2>7 DEF Strays
    <2>10. \A k \in Coord : ~WillBust(job[e], k)  BY <2>3 DEF WillBust, NoJob
    <2>11. WeeksAreKept(slots, coordOf', [job EXCEPT ![e] = j], built, cache)
      BY <1>0, <2>6, <2>7, <2>8, <2>9, <2>10, OneRequestMoves
    <2>. QED BY <1>0, <2>3, <2>11 DEF CacheInv
  <1>3. ASSUME NEW e \in Editor, NEW n, job' = [job EXCEPT ![e] = n], UNCHANGED <<slots, coordOf, built, cache>>,
               n \in AJob, \A k : Strays(n, coordOf, k) => Strays(job[e], coordOf, k),
               \A k : WillBust(n, k) \/ ~WillBust(job[e], k)
        PROVE  CacheInv'
    <2>1. WeeksAreKept(slots, coordOf, [job EXCEPT ![e] = n], built, cache)
      BY <1>0, <1>3, OneRequestMoves
    <2>. QED BY <1>0, <1>3, <2>1 DEF CacheInv
  <1>4. ASSUME NEW e \in Editor, CheckCohort(e) \/ CheckRoom(e) PROVE CacheInv'
    <2>. DEFINE j == job[e]
    <2>1. j \in SlotRequest /\ j.pc \in {"cohort", "room", "write"}
      BY <1>4, FormOfJob DEF CheckCohort, CheckRoom, GridTyped
    <2>2. PICK n : /\ job' = [job EXCEPT ![e] = n]
                   /\ \/ n = NoJob /\ j.what # "import"
                      \/ n \in {[j EXCEPT !.pc = "room"], [j EXCEPT !.pc = "write"]}
                      \/ n = [j EXCEPT !.pc = "bust"] /\ j.what = "import"
      BY <1>4 DEF CheckCohort, CheckRoom
    <2>3. /\ n \in AJob
          /\ \A co, k : Strays(n, co, k) => Strays(j, co, k)
          /\ \A k : WillBust(n, k) \/ ~WillBust(j, k)
      BY <2>1, <2>2, SlotRequestAdvances
    <2>4. UNCHANGED <<slots, coordOf, built, cache>>  BY <1>4 DEF CheckCohort, CheckRoom, aside
    <2>. QED BY <1>3, <2>2, <2>3, <2>4
  \* A slot put into the table, and the request goes on
  <1>5. ASSUME NEW e \in Editor, NEW n \in AJob, NEW key, NEW row, key = job[e].key, UNCHANGED <<coordOf, cache>>,
               slots' = PutRow(slots, key, row), built' = Overtaken(built), job' = [job EXCEPT ![e] = n],
               job[e].pc \in {"write", "slot"}, job[e].what \in {"grid", "import", "schedule"},
               n.what = job[e].what, n.coord = job[e].coord, n.key = job[e].key,
               IF n.what = "schedule" THEN n.pc = "old" ELSE n.pc = "bust"
        PROVE  CacheInv'
    <2>. DEFINE j == job[e]
    <2>1. \A k \in Coord : Clean(cache[k]) => ~Strays(j, coordOf, k)  BY <1>0 DEF WeeksAreKept
    <2>2. ASSUME NEW k \in Coord, Clean(cache[k])
          PROVE  WillBust(n, k) \/ (WeekIn(slots', coordOf, k) = WeekIn(slots, coordOf, k) /\ ~WillBust(j, k))
      <3>1. CASE j.what = "import" \/ j.coord = k  BY <1>5, <3>1 DEF WillBust
      <3>2. CASE j.what # "import" /\ j.coord # k
        <4>1. key[1] \notin GroupsIn(coordOf, k)  BY <1>5, <2>1, <2>2, <3>2 DEF Strays
        <4>2. WeekIn(slots', coordOf, k) = WeekIn(slots, coordOf, k)  BY <1>5, <4>1, PutElsewhere
        <4>3. ~WillBust(j, k)  BY <1>5, <3>2 DEF WillBust
        <4>. QED BY <4>2, <4>3
      <3>. QED BY <3>1, <3>2
    <2>3. \A k : Strays(n, coordOf, k) => Strays(j, coordOf, k)  BY <1>5 DEF Strays
    <2>4. WeeksAreKept(slots', coordOf, [job EXCEPT ![e] = n], Overtaken(built), cache)
      BY <1>0, <1>0a, <2>2, <2>3, OneRequestMoves
    <2>. QED BY <1>0, <1>0a, <1>5, <2>4 DEF CacheInv
  <1>6. ASSUME NEW e \in Editor, WriteSlot(e) PROVE CacheInv'
    <2>. DEFINE j == job[e]
                n == [j EXCEPT !.pc = "bust"]
                row == Upsert(j.key, j.dur, j.room, j.lect)
    <2>1. j \in SlotRequest /\ j.pc = "write"  BY <1>6, FormOfJob DEF WriteSlot, GridTyped
    <2>2. n \in AJob /\ n.pc = "bust" /\ n.what = j.what /\ n.key = j.key /\ n.coord = j.coord
      BY <2>1, SlotRequestMoves DEF SlotRequest
    <2>3. j.what \in {"grid", "import"}  BY <2>1 DEF SlotRequest
    <2>4. UNCHANGED <<coordOf, cache>>  BY <1>6 DEF WriteSlot, aside
    <2>5. \/ /\ UNCHANGED <<slots, built>>
             /\ job' = [job EXCEPT ![e] = IF j.what = "import" THEN n ELSE NoJob]
          \/ /\ slots' = PutRow(slots, j.key, row) /\ built' = Overtaken(built)
             /\ job' = [job EXCEPT ![e] = n]
      BY <1>6 DEF WriteSlot
    <2>6. CASE UNCHANGED <<slots, built>> /\ job' = [job EXCEPT ![e] = IF j.what = "import" THEN n ELSE NoJob]
      <3>. DEFINE m == IF j.what = "import" THEN n ELSE NoJob
      <3>1. /\ m \in AJob /\ \A co, k : Strays(m, co, k) => Strays(j, co, k)
            /\ \A k : WillBust(m, k) \/ ~WillBust(j, k)
        BY <2>1, SlotRequestAdvances
      <3>. HIDE DEF m
      <3>2. job' = [job EXCEPT ![e] = m]  BY <2>6 DEF m
      <3>. QED BY <1>3, <2>4, <2>6, <3>1, <3>2
    <2>7. CASE slots' = PutRow(slots, j.key, row) /\ built' = Overtaken(built) /\ job' = [job EXCEPT ![e] = n]
      <3>1. IF n.what = "schedule" THEN n.pc = "old" ELSE n.pc = "bust"  BY <2>2, <2>3
      <3>. HIDE DEF n, row
      <3>. QED BY <1>5, <2>1, <2>2, <2>3, <2>4, <2>7, <3>1
    <2>. QED BY <2>5, <2>6, <2>7
  <1>7. ASSUME NEW e \in Editor, BustManifests(e) PROVE CacheInv'
    <2>. DEFINE d == [k \in Coord |-> IF k \in BustScope(job[e]) THEN NoJob ELSE cache[k]]
    <2>1. /\ cache' = d /\ job' = [job EXCEPT ![e] = NoJob] /\ UNCHANGED <<slots, coordOf, built>>
      BY <1>7 DEF BustManifests, Bust, aside
    <2>2. ManifestsTyped(d) /\ \A k \in Coord : Clean(d[k]) => k \notin BustScope(job[e]) /\ d[k] = cache[k]
      BY <1>0, BustedManifests
    <2>. HIDE DEF d
    <2>3. \A k \in Coord : k \notin BustScope(job[e]) => ~WillBust(job[e], k)  BY DEF BustScope, WillBust
    <2>4. \A k : ~Strays(NoJob, coordOf, k)  BY DEF Strays, NoJob
    <2>5. NoJob \in AJob  BY DEF AJob
    <2>6. WeeksAreKept(slots, coordOf, [job EXCEPT ![e] = NoJob], built, d)
      BY <1>0, <2>2, <2>3, <2>4, <2>5, OneRequestMoves
    <2>. QED BY <1>0, <2>1, <2>2, <2>6 DEF CacheInv
  <1>8. ASSUME NEW e \in Editor, ScheduleSlot(e) PROVE CacheInv'
    <2>. DEFINE j == job[e]
                n == [j EXCEPT !.pc = "old"]
    <2>1. j \in Scheduling /\ j.pc = "slot" /\ j.what = "schedule"
      BY <1>8, FormOfJob DEF ScheduleSlot, At, GridTyped
    <2>2. n \in AJob /\ n.pc = "old" /\ n.what = j.what /\ n.key = j.key /\ n.coord = j.coord
      BY <2>1, SchedulingMoves DEF Scheduling
    <2>3. UNCHANGED <<coordOf, cache>>  BY <1>8 DEF ScheduleSlot, aside
    <2>4. PICK row : \/ UNCHANGED <<slots, built>> /\ job' = [job EXCEPT ![e] = n]
                     \/ UNCHANGED <<slots, built>> /\ job' = [job EXCEPT ![e] = NoJob]
                     \/ /\ slots' = PutRow(slots, j.key, row) /\ built' = Overtaken(built)
                        /\ job' = [job EXCEPT ![e] = n]
      BY <1>8 DEF ScheduleSlot
    <2>5. \A k : ~WillBust(j, k)  BY <2>1 DEF WillBust
    <2>6. \A k : (Strays(n, coordOf, k) => Strays(j, coordOf, k)) /\ ~Strays(NoJob, coordOf, k)
      BY <2>1, <2>2 DEF Strays, NoJob
    <2>7. NoJob \in AJob  BY DEF AJob
    <2>. HIDE DEF n
    <2>8. CASE UNCHANGED <<slots, built>> /\ job' = [job EXCEPT ![e] = n]  BY <1>3, <2>2, <2>3, <2>5, <2>6, <2>8
    <2>9. CASE UNCHANGED <<slots, built>> /\ job' = [job EXCEPT ![e] = NoJob]  BY <1>3, <2>3, <2>5, <2>6, <2>7, <2>9
    <2>10. CASE slots' = PutRow(slots, j.key, row) /\ built' = Overtaken(built) /\ job' = [job EXCEPT ![e] = n]
      BY <1>5, <2>1, <2>2, <2>3, <2>10
    <2>. QED BY <2>4, <2>8, <2>9, <2>10
  <1>9. ASSUME NEW e \in Editor, DropOldSlots(e) PROVE CacheInv'
    <2>. DEFINE j == job[e]
                n == [j EXCEPT !.pc = "bust"]
                ks == {k \in DOMAIN slots : k[1] = j.key[1] /\ k[2] = j.key[2] /\ k # j.key}
    <2>1. j \in Scheduling /\ j.pc = "old" /\ j.what = "schedule"
      BY <1>9, FormOfJob DEF DropOldSlots, At, GridTyped
    <2>2. n \in AJob /\ n.pc = "bust" /\ n.what = j.what /\ n.key = j.key /\ n.coord = j.coord
      BY <2>1, SchedulingMoves DEF Scheduling
    <2>3. /\ slots' = Without(slots, ks) /\ built' = Overtaken(built) /\ job' = [job EXCEPT ![e] = n]
          /\ UNCHANGED <<coordOf, cache>>
      BY <1>9 DEF DropOldSlots, aside
    <2>4. \A k \in ks : k[1] = j.key[1]  OBVIOUS
    <2>. HIDE DEF n, ks
    <2>5. ASSUME NEW k \in Coord, Clean(cache[k])
          PROVE  WillBust(n, k) \/ (WeekIn(slots', coordOf, k) = WeekIn(slots, coordOf, k) /\ ~WillBust(j, k))
      <3>1. CASE j.coord = k  BY <2>1, <2>2, <3>1 DEF WillBust
      <3>2. CASE j.coord # k
        <4>1. ~Strays(j, coordOf, k)  BY <1>0, <2>5 DEF WeeksAreKept
        <4>2. j.key[1] \notin GroupsIn(coordOf, k)  BY <2>1, <3>2, <4>1 DEF Strays
        <4>3. WeekIn(slots', coordOf, k) = WeekIn(slots, coordOf, k)  BY <1>0, <2>3, <2>4, <4>2, DropElsewhere
        <4>. QED BY <2>1, <3>2, <4>3 DEF WillBust
      <3>. QED BY <3>1, <3>2
    <2>6. \A k : ~Strays(n, coordOf, k)  BY <2>2 DEF Strays
    <2>7. WeeksAreKept(slots', coordOf, [job EXCEPT ![e] = n], Overtaken(built), cache)
      BY <1>0, <1>0a, <2>2, <2>5, <2>6, OneRequestMoves
    <2>. QED BY <1>0, <1>0a, <2>3, <2>7 DEF CacheInv
  \* A request that begins
  <1>10. ASSUME NEW e \in Editor, NEW n \in AJob, job[e] = NoJob, job' = [job EXCEPT ![e] = n], UNCHANGED <<coordOf, cache>>,
                built' \in {built, Overtaken(built)}, \A k \in Coord : ~Strays(n, coordOf, k),
                UNCHANGED slots \/ (built' = Overtaken(built) /\ \A k \in Coord : WillBust(n, k))
         PROVE  CacheInv'
    <2>1. \A k \in Coord : ~WillBust(job[e], k)  BY <1>10 DEF WillBust, NoJob
    <2>2. CASE built' = Overtaken(built)
      <3>1. ASSUME NEW k \in Coord, Clean(cache[k])
            PROVE  WillBust(n, k) \/ (WeekIn(slots', coordOf, k) = WeekIn(slots, coordOf, k) /\ ~WillBust(job[e], k))
        BY <1>10, <2>1
      <3>2. \A k \in Coord : ~Strays(n, coordOf, k)  BY <1>10
      <3>3. WeeksAreKept(slots', coordOf, [job EXCEPT ![e] = n], Overtaken(built), cache)
        BY <1>0, <1>0a, <3>1, <3>2, OneRequestMoves
      <3>. QED BY <1>0, <1>0a, <1>10, <2>2, <3>3 DEF CacheInv
    <2>3. CASE built' = built /\ UNCHANGED slots
      <3>1. \A k \in Coord : ~Strays(n, coordOf, k)  BY <1>10
      <3>2. WeeksAreKept(slots, coordOf, [job EXCEPT ![e] = n], built, cache)
        BY <1>0, <2>1, <3>1, OneRequestMoves
      <3>. QED BY <1>0, <1>10, <2>3, <3>2 DEF CacheInv
    <2>. QED BY <1>10, <2>2, <2>3
  <1>11. ASSUME NEW e \in Editor, NEW key \in slotKeys, DeleteTimetableSlot(e, key) PROVE CacheInv'
    <2>. DEFINE n == [what |-> "delete", pc |-> "bust"]
    <2>1. n \in AJob  BY DEF AJob, Deletion
    <2>2. \A k \in Coord : ~Strays(n, coordOf, k) /\ WillBust(n, k)  BY DEF Strays, WillBust
    <2>3. job[e] = NoJob /\ job' = [job EXCEPT ![e] = n] /\ UNCHANGED <<coordOf, cache>> /\ built' = Overtaken(built)
      BY <1>11 DEF DeleteTimetableSlot, aside
    <2>. HIDE DEF n
    <2>. QED BY <1>10, <2>1, <2>2, <2>3
  <1>12. ASSUME NEW e \in Editor, NEW c \in Group, NEW u \in CourseUnit, NEW h \in Starts \cup {NoOne}, NEW dur \in {0, 1},
                SetTimetableSchedule(e, c, u, h, dur)
         PROVE  CacheInv'
    <2>. DEFINE n == [what |-> "schedule", pc |-> "slot", key |-> <<c, u, h>>, dur |-> dur, coord |-> coordOf[c]]
    <2>1. coordOf[c] \in CoordOrNone  BY <1>12 DEF SetTimetableSchedule, GridTyped, CohortsAre
    <2>2. n \in AJob  BY <2>1 DEF AJob, Scheduling
    <2>3. \A k \in Coord : ~Strays(n, coordOf, k)  BY DEF Strays, GroupsIn
    <2>4. /\ job[e] = NoJob /\ job' = [job EXCEPT ![e] = n] /\ UNCHANGED <<slots, coordOf, cache>>
          /\ built' = Overtaken(built)
      BY <1>12 DEF SetTimetableSchedule, aside
    <2>. HIDE DEF n
    <2>. QED BY <1>10, <2>2, <2>3, <2>4
  <1>13. ASSUME NEW e \in Editor, NEW c \in Group, NEW u \in CourseUnit, NEW h \in Starts, SetUnitSchedule(e, c, u, h)
         PROVE  CacheInv'
    <2>. DEFINE n == [what |-> "unit", pc |-> "bust", coord |-> coordOf[c]]
    <2>1. coordOf[c] \in CoordOrNone  BY <1>13 DEF SetUnitSchedule, GridTyped, CohortsAre
    <2>2. n \in AJob  BY <2>1 DEF AJob, UnitRequest
    <2>3. \A k \in Coord : ~Strays(n, coordOf, k)  BY DEF Strays
    <2>4. /\ job[e] = NoJob /\ UNCHANGED <<slots, coordOf, cache>>
          /\ \/ UNCHANGED <<job, built>>
             \/ job' = [job EXCEPT ![e] = n] /\ built' = Overtaken(built)
      BY <1>13 DEF SetUnitSchedule, aside
    <2>. HIDE DEF n
    <2>5. CASE UNCHANGED <<job, built>>  BY <2>4, <2>5 DEF CacheInv
    <2>6. CASE job' = [job EXCEPT ![e] = n] /\ built' = Overtaken(built)  BY <1>10, <2>2, <2>3, <2>4, <2>6
    <2>. QED BY <2>4, <2>5, <2>6
  <1>14. ASSUME NEW e \in Editor, NEW r \in Room, CountRoomUse(e, r) PROVE CacheInv'
    <2>. DEFINE n == [what |-> "room", pc |-> "drop", room |-> r]
    <2>1. n \in AJob  BY DEF AJob, RoomRequest
    <2>2. \A k \in Coord : ~Strays(n, coordOf, k)  BY DEF Strays
    <2>3. job[e] = NoJob /\ job' = [job EXCEPT ![e] = n] /\ UNCHANGED <<slots, coordOf, built, cache>>
      BY <1>14 DEF CountRoomUse, aside
    <2>. HIDE DEF n
    <2>. QED BY <1>10, <2>1, <2>2, <2>3
  <1>15. ASSUME NEW e \in Editor, DeleteRoom(e) PROVE CacheInv'
    <2>1. job[e] \in RoomRequest  BY <1>15, FormOfWhat DEF DeleteRoom, At, GridTyped
    <2>2. \A k : ~WillBust(job[e], k)  BY <2>1 DEF WillBust, RoomRequest
    <2>3. \A s \in DOMAIN slots : slots[s] \in ARow  BY <1>0 DEF SlotsAre
    <2>4. /\ DOMAIN slots' = DOMAIN slots
          /\ \A s \in DOMAIN slots : /\ slots'[s].dur = slots[s].dur /\ slots'[s].room = slots[s].room
                                     /\ slots'[s].lect = slots[s].lect
      BY <1>15, <2>3 DEF DeleteRoom, ARow
    <2>5. \A k : WeekIn(slots', coordOf, k) = WeekIn(slots, coordOf, k)  BY <2>4 DEF WeekIn
    <2>6. \A k : ~Strays(NoJob, coordOf, k)  BY DEF Strays, NoJob
    <2>7. NoJob \in AJob  BY DEF AJob
    <2>8. job' = [job EXCEPT ![e] = NoJob] /\ UNCHANGED <<coordOf, built, cache>>  BY <1>15 DEF DeleteRoom
    <2>9. WeeksAreKept(slots', coordOf, [job EXCEPT ![e] = NoJob], built, cache)
      BY <1>0, <2>2, <2>5, <2>6, <2>7, OneRequestMoves
    <2>. QED BY <1>0, <2>8, <2>9 DEF CacheInv
  \* Cohorts: the coordinators concerned have no clean manifest left, the others the cohorts and the slots they had
  <1>16. ASSUME NEW ks, NEW b, ManifestsTyped(b), \A k \in Coord : Clean(b[k]) => b[k] = built[k],
                built' = Unsettled(b, ks), cache' = Unsettled(cache, ks), UNCHANGED job,
                \A k \in Coord \ ks : /\ GroupsIn(coordOf', k) = GroupsIn(coordOf, k)
                                       /\ WeekIn(slots', coordOf', k) = WeekIn(slots, coordOf, k)
         PROVE  CacheInv'
    <2>1. /\ ManifestsTyped(built') /\ ManifestsTyped(cache')
          /\ \A k \in Coord : Clean(built'[k]) => k \notin ks /\ built'[k] = b[k]
          /\ \A k \in Coord : Clean(cache'[k]) => k \notin ks /\ cache'[k] = cache[k]
      BY <1>0, <1>16, UnsettledIsDirty
    <2>2. \A k \in Coord : Clean(built'[k]) => built'[k] = built[k]  BY <1>16, <2>1
    <2>3. \A k \in Coord \ ks, e \in Editor : Strays(job[e], coordOf', k) => Strays(job[e], coordOf, k)
      BY <1>16 DEF Strays
    <2>4. WeeksAreKept(slots', coordOf', job, built', cache')
      BY <1>0, <1>16, <2>1, <2>2, <2>3, WeeksStayKept
    <2>. QED BY <1>16, <2>1, <2>4 DEF CacheInv
  <1>17. ASSUME NEW c \in Group, NEW k \in Coord \cup {NoOne}, SaveOffering(c, k) PROVE CacheInv'
    <2>. DEFINE ks == {k} \cup (IF c \in DOMAIN coordOf THEN {coordOf[c]} ELSE {})
    <2>1. /\ coordOf' = PutRow(coordOf, c, k) /\ built' = Unsettled(built, ks) /\ cache' = Unsettled(cache, ks)
          /\ UNCHANGED <<job, slots>>
      BY <1>17 DEF SaveOffering, registry
    <2>2. ASSUME NEW q \in Coord \ ks PROVE GroupsIn(coordOf', q) = GroupsIn(coordOf, q)
      BY <2>1, <2>2 DEF GroupsIn, PutRow
    <2>3. \A q \in Coord \ ks : WeekIn(slots', coordOf', q) = WeekIn(slots, coordOf, q)
      BY <2>1, <2>2, SameGroupsSameWeek
    <2>. HIDE DEF ks
    <2>. QED BY <1>0, <1>16, <2>1, <2>2, <2>3
  <1>18. ASSUME NEW c \in Group, DeleteOffering(c) PROVE CacheInv'
    <2>. DEFINE ks == {coordOf[c]}
                gone == {s \in DOMAIN slots : s[1] = c}
    <2>1. /\ coordOf' = Without(coordOf, {c}) /\ built' = Unsettled(Overtaken(built), ks)
          /\ cache' = Unsettled(cache, ks) /\ slots' = Without(slots, gone) /\ UNCHANGED job /\ c \in DOMAIN coordOf
      BY <1>18 DEF DeleteOffering, registry
    <2>2. ASSUME NEW q \in Coord \ ks
          PROVE  GroupsIn(coordOf', q) = GroupsIn(coordOf, q) /\ c \notin GroupsIn(coordOf, q)
      BY <2>1, <2>2 DEF GroupsIn, Without, Restrict
    <2>3. \A s \in gone : s[1] = c  OBVIOUS
    <2>. HIDE DEF ks, gone
    <2>4. ASSUME NEW q \in Coord \ ks PROVE WeekIn(slots', coordOf', q) = WeekIn(slots, coordOf, q)
      <3>1. WeekIn(slots', coordOf, q) = WeekIn(slots, coordOf, q)  BY <1>0, <2>1, <2>2, <2>3, DropElsewhere
      <3>2. WeekIn(slots', coordOf', q) = WeekIn(slots', coordOf, q)  BY <2>2, SameGroupsSameWeek
      <3>. QED BY <3>1, <3>2
    <2>. QED BY <1>0, <1>0a, <1>16, <2>1, <2>2, <2>4
  \* Manifests
  <1>19. ASSUME NEW k \in Coord, BuildManifest(k) PROVE CacheInv'
    <2>. DEFINE clean == \A e \in Editor : ~Misdirected(e, k)
                m == [week |-> WeekOf(k), combined |-> CombinedOf(k), clean |-> clean]
    <2>1. /\ cache[k] = NoJob /\ built' = [built EXCEPT ![k] = m] /\ UNCHANGED <<slots, coordOf, job, cache>>
      BY <1>19 DEF BuildManifest, registry
    <2>2. m.week = WeekIn(slots, coordOf, k) /\ m.clean = clean  BY WeeksAreTheSame
    <2>3. AManifest(m)
      <3>1. clean \in BOOLEAN  OBVIOUS
      <3>. HIDE DEF clean
      <3>. QED BY <3>1 DEF AManifest
    <2>4. clean => \A e \in Editor : ~Strays(job[e], coordOf, k)  BY WeeksAreTheSame
    <2>. HIDE DEF m
    <2>5. built'[k] = m /\ \A x \in Coord \ {k} : built'[x] = built[x]  BY <1>0, <2>1 DEF ManifestsTyped
    <2>6. ManifestsTyped(built')  BY <1>0, <2>1, <2>3, <2>5 DEF ManifestsTyped
    <2>7. WeeksAreKept(slots, coordOf, job, built', cache)
      <3>1. Clean(m) => \A e \in Editor : ~Strays(job[e], coordOf, k)  BY <2>2, <2>4 DEF Clean
      <3>2. ~Clean(cache[k])  BY <2>1 DEF Clean
      <3>. QED BY <1>0, <2>2, <2>5, <3>1, <3>2 DEF WeeksAreKept
    <2>. QED BY <1>0, <2>1, <2>6, <2>7 DEF CacheInv
  <1>20. ASSUME NEW k \in Coord, CacheManifest(k) PROVE CacheInv'
    <2>1. /\ cache' = [cache EXCEPT ![k] = built[k]] /\ built' = [built EXCEPT ![k] = NoJob]
          /\ UNCHANGED <<slots, coordOf, job>>
      BY <1>20 DEF CacheManifest, registry
    <2>2. /\ built'[k] = NoJob /\ cache'[k] = built[k]
          /\ \A x \in Coord \ {k} : built'[x] = built[x] /\ cache'[x] = cache[x]
      BY <1>0, <2>1 DEF ManifestsTyped
    <2>3. ManifestsTyped(built') /\ ManifestsTyped(cache')  BY <1>0, <2>1, <2>2 DEF ManifestsTyped, AManifest
    <2>4. ~Clean(built'[k])  BY <2>2 DEF Clean
    <2>5. WeeksAreKept(slots, coordOf, job, built', cache')  BY <1>0, <2>2, <2>4 DEF WeeksAreKept
    <2>. QED BY <2>1, <2>3, <2>5 DEF CacheInv
  <1>21. CASE UNCHANGED <<slots, coordOf, job, built, cache>>  BY <1>21 DEF CacheInv
  <1>22. ASSUME NEW r \in Room, NEW a \in BOOLEAN, CreateRoom(r, a) \/ UpdateRoom(r, a) \/ ImportRoom(r, a) PROVE CacheInv'
    BY <1>21, <1>22 DEF CreateRoom, UpdateRoom, ImportRoom, RegisterRoom, registry
  <1>23. CASE CodeNext  BY <1>21, <1>23 DEF CodeNext, FindCode, ReadCode, InsertCode, codeOnly
  <1>24. CASE UNCHANGED ttVars  BY <1>21, <1>24 DEF ttVars
  <1>25. CASE GridNext
    <2>1. \A e \in Editor, c \in Group, u \in CourseUnit :
             \/ SetTimetableSchedule(e, c, u, NoOne, 1)
             \/ \E h \in Starts, dur \in {0, 1} : SetTimetableSchedule(e, c, u, h, dur)
             => CacheInv'
      BY <1>12
    <2>. QED BY <1>1, <1>2, <1>4, <1>6, <1>7, <1>8, <1>9, <1>11, <1>13, <1>14, <1>15, <1>17, <1>18, <1>19, <1>20, <1>22,
                <1>25, <2>1 DEF GridNext
  <1>. QED BY <1>23, <1>24, <1>25 DEF TimetableNext

\* Of any number of coordinators, cohorts and editors: when no edit is under way, a cached week that was built with
\* nothing going past it is the week of the table (RegenerateManifest, bustManifests).
THEOREM CachedWeekIsCurrentAlways == TimetableSpec => []CachedWeekIsCurrent
  <1>1. CacheInv => CachedWeekIsCurrent
    <2>. SUFFICES ASSUME CacheInv, \A e \in Editor : job[e] = NoJob, NEW k \in Coord, Clean(cache[k])
                  PROVE cache[k].week = WeekOf(k)
      BY DEF CachedWeekIsCurrent, Clean
    <2>1. \A e \in Editor : ~WillBust(job[e], k)  BY DEF WillBust, NoJob
    <2>2. cache[k].week = WeekIn(slots, coordOf, k)  BY <2>1 DEF CacheInv, WeeksAreKept
    <2>. QED BY <2>2, WeeksAreTheSame
  <1>2. TimetableInit => GridTyped /\ CacheInv  BY GridTypedInit, CacheInvInit
  <1>3. GridTyped /\ CacheInv /\ [TimetableNext]_ttVars => (GridTyped /\ CacheInv)'  BY GridTypedStep, CacheInvStep
  <1>. QED BY <1>1, <1>2, <1>3, PTL DEF TimetableSpec

-----------------------------------------------------------------------------
(* Patrol: days and hours *)

\* The clock is a day and an hour.
LEMMA TodayIs ==
    ASSUME pnow \in Nat
    PROVE  today \in Nat /\ hourNow \in 0 .. DayHours - 1 /\ pnow = DayHours * today + hourNow
  <1>1. DayHours \in Nat \ {0}  BY PatrolAssumption
  <1>2. today \in Int /\ hourNow \in 0 .. DayHours - 1 /\ pnow = DayHours * today + hourNow
    BY <1>1, Division DEF today, hourNow
  <1>3. 0 \div DayHours = 0
    <2>1. 0 = DayHours * 0 + 0  BY <1>1
    <2>. QED BY <1>1, <2>1, QuotientIs
  <1>4. 0 \div DayHours <= pnow \div DayHours  BY <1>1, QuotientsGrow
  <1>. QED BY <1>2, <1>3, <1>4 DEF today

\* East of Greenwich a local midnight is of the UTC day before
LEMMA UtcDays ==
    ASSUME pnow \in Nat, NEW d \in Int
    PROVE  utcDay(d * DayHours) = d - 1 /\ utcDay(pnow) \in {today - 1, today}
  <1>. DEFINE D == DayHours  E == EastOfUTC  h == hourNow  t == today
  <1>1. D \in Nat \ {0} /\ E \in Nat \ {0} /\ E < D  BY PatrolAssumption
  <1>2. t \in Int /\ h \in 0 .. D - 1 /\ pnow = D * t + h  BY TodayIs
  <1>. HIDE DEF D, E, h, t
  <1>3. (d * D - E) \div D = d - 1
    <2>1. d * D - E = D * (d - 1) + (D - E)  BY <1>1
    <2>2. D - E \in 0 .. D - 1 /\ d - 1 \in Int /\ d * D - E \in Int  BY <1>1
    <2>. QED BY <1>1, <2>1, <2>2, QuotientIs
  <1>4. (pnow - E) \div D \in {t - 1, t}
    <2>1. pnow - E \in Int  BY <1>1
    <2>2. CASE h >= E
      <3>1. pnow - E = D * t + (h - E) /\ h - E \in 0 .. D - 1  BY <1>1, <1>2, <2>2
      <3>. QED BY <1>1, <1>2, <2>1, <3>1, QuotientIs
    <2>3. CASE h < E
      <3>1. pnow - E = D * (t - 1) + (D + h - E)  BY <1>1, <1>2
      <3>2. D + h - E \in 0 .. D - 1 /\ t - 1 \in Int  BY <1>1, <1>2, <2>3
      <3>3. (pnow - E) \div D = t - 1  BY <1>1, <2>1, <3>1, <3>2, QuotientIs
      <3>. QED BY <3>3
    <2>. QED BY <1>1, <1>2, <2>2, <2>3
  <1>. QED BY <1>3, <1>4 DEF utcDay, D, E, t

\* A typed date is filed near today, whatever was typed.
LEMMA SessionDateIsNear ==
    ASSUME pnow \in Nat, NEW d \in Int
    PROVE  SessionDate(d) \in Int /\ SessionDate(d) \in (today - KeepDays) .. (today + 1)
  <1>1. utcDay(d * DayHours) = d - 1 /\ utcDay(pnow) \in {today - 1, today}  BY UtcDays
  <1>2. today \in Nat /\ KeepDays \in Nat  BY TodayIs, PatrolAssumption
  <1>. DEFINE t == today  u == utcDay(pnow)
  <1>3. DaysSince(d) = u - (d - 1)  BY <1>1 DEF DaysSince
  <1>4. SessionDate(d) = IF u - (d - 1) \in 0 .. KeepDays THEN d ELSE t  BY <1>3 DEF SessionDate
  <1>. HIDE DEF t, u
  <1>5. u \in {t - 1, t} /\ t \in Nat  BY <1>1, <1>2 DEF t, u
  <1>. QED BY <1>2, <1>4, <1>5 DEF t

-----------------------------------------------------------------------------
(* Patrol: the round *)

\* A tick of a batch is handled when it was stored, and told or about to be, or failed
Handled(r, x, rc, td, dn) == x \in dn \/ (x \in rc /\ (x \in td \/ (r.pc = "tell" /\ x = r.tick)))
RoundRequest(r, md, qu, rc, td, dn) ==
    r # Idle =>
        /\ r.batch \subseteq md /\ r.todo \subseteq r.batch
        /\ r.batch \subseteq qu \cup td \cup dn
        /\ \A x \in r.batch \ r.todo : Handled(r, x, rc, td, dn)
        /\ r.pc = "tell" => r.tick \in r.batch
RoundInv ==
    desk = "round" =>
        /\ TickIsKept /\ reached \subseteq told \cup denied \cup queue
        /\ \A q \in PReq : RoundRequest(preq[q], made, queue, reached, told, denied)
        /\ \A t \in made : t.date \in Nat /\ (t.ahead = 0 => t.date <= today)
        /\ \A t \in reached : t.ahead = 0 => <<t.unit, t.date, t.start, t.cohort>> \in DOMAIN log
        /\ \A k \in DOMAIN log : log[k].how = "PATROL"
        /\ filed = noRows /\ subs = {}

OtherDesks ==
    /\ desk \in {"round", "manual", "upload", "claim"} /\ pnow \in Nat
    /\ preq = [q \in PReq |-> preq[q]]

\* A request that is doing something is not idle.
LEMMA IdleIsIdle == \A r : r.pc # "idle" => r # Idle  BY DEF Idle

\* One request moves on.
LEMMA ReqMoves ==
    ASSUME OtherDesks, NEW q \in PReq, NEW r
    PROVE  [preq EXCEPT ![q] = r] = [p \in PReq |-> IF p = q THEN r ELSE preq[p]]
  BY DEF OtherDesks

\* No step changes the desk or the form of the requests.
LEMMA OtherDesksStep == OtherDesks /\ [PatrolNext]_patrolVars => OtherDesks'
  <1>. SUFFICES ASSUME OtherDesks, [PatrolNext]_patrolVars PROVE OtherDesks'  OBVIOUS
  <1>1. UNCHANGED desk /\ (pnow' = pnow \/ pnow' = pnow + 1)
    BY DEF PatrolNext, RoundNext, ManualNext, UploadNext, ClaimNext, patrolVars, TickSlot, GateScan, SendRound, StoreTick,
           TellOfTick, ReplyRound, PatrolManualEntry, StoreManual, ClearExtras, ReplyManual, WriteExtraUnit, QASubmitReport,
           IngestRow, SealSubmission, QADeleteSubmission, CaptureClaim, SendClaim, FileClaim, ReplyClaim, LoseRequest,
           PatrolHour, roundOnly, manualOnly, uploadOnly, claimOnly
  <1>2. preq' = preq \/ \E q \in PReq : \E r : preq' = [preq EXCEPT ![q] = r]
    BY DEF PatrolNext, RoundNext, ManualNext, UploadNext, ClaimNext, patrolVars, TickSlot, GateScan, SendRound, StoreTick,
           TellOfTick, ReplyRound, PatrolManualEntry, StoreManual, ClearExtras, ReplyManual, WriteExtraUnit, QASubmitReport,
           IngestRow, SealSubmission, QADeleteSubmission, CaptureClaim, SendClaim, FileClaim, ReplyClaim, LoseRequest,
           PatrolHour, Begin, Step, End
  <1>3. preq' = [q \in PReq |-> preq'[q]]  BY <1>2, ReqMoves DEF OtherDesks
  <1>. QED BY <1>1, <1>3 DEF OtherDesks

\* What was true of a request of the round stays true while ticks only come and get handled.
LEMMA RequestsStay ==
    ASSUME NEW r, NEW md, NEW qu, NEW rc, NEW td, NEW dn, RoundRequest(r, md, qu, rc, td, dn),
           NEW md2, NEW qu2, NEW rc2, NEW td2, NEW dn2,
           md \subseteq md2, rc \subseteq rc2, td \subseteq td2, dn \subseteq dn2, qu \subseteq qu2 \cup td2 \cup dn2
    PROVE  RoundRequest(r, md2, qu2, rc2, td2, dn2)
  <1>. SUFFICES ASSUME r # Idle
                PROVE  /\ r.batch \subseteq md2 /\ r.todo \subseteq r.batch
                       /\ r.batch \subseteq qu2 \cup td2 \cup dn2
                       /\ \A x \in r.batch \ r.todo : Handled(r, x, rc2, td2, dn2)
                       /\ r.pc = "tell" => r.tick \in r.batch
    BY DEF RoundRequest
  <1>. QED BY DEF RoundRequest, Handled

\* A day that has been stays one.
LEMMA TheDayGoesOn ==
    ASSUME OtherDesks, pnow' = pnow + 1
    PROVE  today' >= today /\ today' \in Nat /\ today \in Nat
  <1>1. DayHours \in Nat \ {0} /\ pnow \in Nat  BY PatrolAssumption DEF OtherDesks
  <1>2. today' = pnow' \div DayHours /\ today = pnow \div DayHours  BY DEF today
  <1>3. pnow \div DayHours <= (pnow + 1) \div DayHours  BY <1>1, QuotientsGrow
  <1>4. today \in Nat  BY <1>1, TodayIs
  <1>5. pnow' \div DayHours \in Int  BY <1>1, Division
  <1>. QED BY <1>2, <1>3, <1>4, <1>5

\* Every step of the round keeps its invariant.
LEMMA RoundInvStep == OtherDesks /\ RoundInv /\ [PatrolNext]_patrolVars => RoundInv'
  <1>. SUFFICES ASSUME OtherDesks, RoundInv, [PatrolNext]_patrolVars, desk' = "round" PROVE RoundInv'
    BY DEF RoundInv
  <1>0. desk = "round"
    BY DEF PatrolNext, RoundNext, ManualNext, UploadNext, ClaimNext, patrolVars, TickSlot, GateScan, SendRound, StoreTick,
           TellOfTick, ReplyRound, PatrolManualEntry, StoreManual, ClearExtras, ReplyManual, WriteExtraUnit, QASubmitReport,
           IngestRow, SealSubmission, QADeleteSubmission, CaptureClaim, SendClaim, FileClaim, ReplyClaim, LoseRequest,
           PatrolHour, roundOnly, manualOnly, uploadOnly, claimOnly
  <1>1. /\ made = queue \cup reached \cup denied /\ reached \subseteq told \cup denied \cup queue
        /\ \A q \in PReq : RoundRequest(preq[q], made, queue, reached, told, denied)
        /\ \A t \in made : t.date \in Nat /\ (t.ahead = 0 => t.date <= today)
        /\ \A t \in reached : t.ahead = 0 => <<t.unit, t.date, t.start, t.cohort>> \in DOMAIN log
        /\ \A k \in DOMAIN log : log[k].how = "PATROL"
        /\ filed = noRows /\ subs = {} /\ pnow \in Nat
    BY <1>0 DEF RoundInv, TickIsKept, OtherDesks
  <1>2. today \in Nat  BY <1>1, TodayIs
  <1>. DEFINE rows == filed' = noRows /\ subs' = {}
  <1>3. CASE UNCHANGED patrolVars
    BY <1>1, <1>3 DEF patrolVars, RoundInv, TickIsKept, today
  \* One request replaced
  <1>4. ASSUME NEW q \in PReq, NEW r, preq' = [preq EXCEPT ![q] = r],
               RoundRequest(r, made', queue', reached', told', denied'),
               made \subseteq made', reached \subseteq reached', told \subseteq told', denied \subseteq denied',
               queue \subseteq queue' \cup told' \cup denied'
        PROVE  \A p \in PReq : RoundRequest(preq'[p], made', queue', reached', told', denied')
    <2>1. preq' = [p \in PReq |-> IF p = q THEN r ELSE preq[p]]  BY <1>4, ReqMoves
    <2>2. ASSUME NEW p \in PReq PROVE RoundRequest(preq'[p], made', queue', reached', told', denied')
      <3>1. CASE p = q  BY <1>4, <2>1, <3>1
      <3>2. CASE p # q
        <4>1. RoundRequest(preq[p], made, queue, reached, told, denied)  BY <1>1
        <4>2. RoundRequest(preq[p], made', queue', reached', told', denied')  BY <1>4, <4>1, RequestsStay
        <4>. QED BY <2>1, <3>2, <4>2
      <3>. QED BY <3>1, <3>2
    <2>. QED BY <2>2
  <1>5. ASSUME NEW s \in Slot, NEW taught \in BOOLEAN, NEW ahead \in 0 .. 1, TickSlot(s, taught, ahead, taught)
        PROVE  RoundInv'
    <2>. DEFINE t == [id |-> Cardinality(made) + 1, unit |-> s.unit, date |-> today + ahead, start |-> s.start,
                      cohort |-> s.cohort, taught |-> taught, change |-> taught, ahead |-> ahead]
    <2>1. t.date \in Nat /\ (t.ahead = 0 => t.date <= today)  BY <1>2
    <2>2. /\ made' = made \cup {t} /\ queue' = queue \cup {t}
          /\ UNCHANGED <<desk, pnow, filed, subs, preq, log, told, reached, denied>>
      BY <1>5 DEF TickSlot, roundOnly
    <2>. HIDE DEF t
    <2>3. \A q \in PReq : RoundRequest(preq[q], made', queue', reached, told, denied)
      BY <1>1, <2>2, RequestsStay
    <2>4. today' = today  BY <2>2 DEF today
    <2>. QED BY <1>1, <2>1, <2>2, <2>3, <2>4 DEF RoundInv, TickIsKept
  <1>6. ASSUME NEW s \in PatrolSearch(today), GateScan(s) PROVE RoundInv'
    BY <1>1, <1>6 DEF GateScan, RoundInv, TickIsKept, today
  <1>7. ASSUME NEW q \in PReq, SendRound(q) PROVE RoundInv'
    <2>. DEFINE r == [pc |-> "store", batch |-> queue, todo |-> queue]
    <2>1. RoundRequest(r, made, queue, reached, told, denied)  BY <1>1 DEF RoundRequest
    <2>2. preq' = [preq EXCEPT ![q] = r] /\ UNCHANGED <<desk, pnow, filed, subs, made, queue, log, told, reached, denied>>
      BY <1>7 DEF SendRound, Begin, roundOnly
    <2>. HIDE DEF r
    <2>3. \A p \in PReq : RoundRequest(preq'[p], made', queue', reached', told', denied')  BY <1>4, <2>1, <2>2
    <2>. QED BY <1>1, <2>2, <2>3 DEF RoundInv, TickIsKept, today
  <1>8. ASSUME NEW q \in PReq, StoreTick(q) PROVE RoundInv'
    <2>1. RoundRequest(preq[q], made, queue, reached, told, denied) /\ preq[q] # Idle
      BY <1>1, <1>8, IdleIsIdle DEF StoreTick
    <2>2. PICK t \in preq[q].todo :
            \/ /\ log' = Put(log, slotKey(t), [id |-> t.id, taught |-> t.taught,
                                               how |-> entryMethod(slotKey(t)), on |-> today])
               /\ reached' = reached \cup {t} /\ denied' = denied
               /\ preq' = [preq EXCEPT ![q] = [pc |-> "tell", batch |-> preq[q].batch, todo |-> preq[q].todo \ {t}, tick |-> t]]
            \/ /\ denied' = denied \cup {t} /\ UNCHANGED <<log, reached>>
               /\ preq' = [preq EXCEPT ![q] = [pc |-> "store", batch |-> preq[q].batch, todo |-> preq[q].todo \ {t}]]
      BY <1>8 DEF StoreTick, Oldest, Step
    <2>3. UNCHANGED <<desk, pnow, filed, subs, made, queue, told>>  BY <1>8 DEF StoreTick, roundOnly
    <2>4. t \in preq[q].batch /\ t \in made  BY <2>1 DEF RoundRequest
    <2>5. today' = today  BY <2>3 DEF today
    <2>6. preq[q].pc = "store"  BY <1>8 DEF StoreTick
    <2>7. CASE /\ log' = Put(log, slotKey(t), [id |-> t.id, taught |-> t.taught,
                                               how |-> entryMethod(slotKey(t)), on |-> today])
               /\ reached' = reached \cup {t} /\ denied' = denied
               /\ preq' = [preq EXCEPT ![q] = [pc |-> "tell", batch |-> preq[q].batch, todo |-> preq[q].todo \ {t}, tick |-> t]]
      <3>. DEFINE r == [pc |-> "tell", batch |-> preq[q].batch, todo |-> preq[q].todo \ {t}, tick |-> t]
      <3>1. RoundRequest(r, made', queue', reached', told', denied')
        BY <2>1, <2>3, <2>4, <2>6, <2>7 DEF RoundRequest, Handled
      <3>. HIDE DEF r
      <3>2. preq' = [preq EXCEPT ![q] = r]  BY <2>7 DEF r
      <3>3. \A p \in PReq : RoundRequest(preq'[p], made', queue', reached', told', denied')
        BY <1>4, <2>3, <2>7, <3>1, <3>2
      <3>4. t \in told \cup denied \cup queue  BY <2>1, <2>4 DEF RoundRequest
      <3>5. DOMAIN log' = DOMAIN log \cup {slotKey(t)}
            /\ \A k \in DOMAIN log' : log'[k].how = "PATROL"
        BY <1>1, <2>7 DEF Put, entryMethod
      <3>6. t.ahead = 0 => slotKey(t) = <<t.unit, t.date, t.start, t.cohort>>
        <4>1. t.ahead = 0 => t.date <= today /\ t.date \in Nat  BY <1>1, <2>4
        <4>. QED BY <1>2, <4>1 DEF slotKey, NotAfterToday
      <3>7. \A x \in reached' : x.ahead = 0 => <<x.unit, x.date, x.start, x.cohort>> \in DOMAIN log'
        BY <1>1, <2>7, <3>5, <3>6
      <3>. QED BY <1>1, <2>3, <2>4, <2>5, <2>7, <3>3, <3>4, <3>5, <3>7 DEF RoundInv, TickIsKept
    <2>8. CASE /\ denied' = denied \cup {t} /\ UNCHANGED <<log, reached>>
               /\ preq' = [preq EXCEPT ![q] = [pc |-> "store", batch |-> preq[q].batch, todo |-> preq[q].todo \ {t}]]
      <3>. DEFINE r == [pc |-> "store", batch |-> preq[q].batch, todo |-> preq[q].todo \ {t}]
      <3>1. RoundRequest(r, made', queue', reached', told', denied')
        BY <2>1, <2>3, <2>4, <2>6, <2>8 DEF RoundRequest, Handled
      <3>. HIDE DEF r
      <3>2. preq' = [preq EXCEPT ![q] = r]  BY <2>8 DEF r
      <3>3. \A p \in PReq : RoundRequest(preq'[p], made', queue', reached', told', denied')
        BY <1>4, <2>3, <2>8, <3>1, <3>2
      <3>. QED BY <1>1, <2>3, <2>4, <2>5, <2>8, <3>3 DEF RoundInv, TickIsKept
    <2>. QED BY <2>2, <2>7, <2>8
  <1>9. ASSUME NEW q \in PReq, TellOfTick(q) PROVE RoundInv'
    <2>. DEFINE t == preq[q].tick
                r == [pc |-> "store", batch |-> preq[q].batch, todo |-> preq[q].todo]
    <2>1. RoundRequest(preq[q], made, queue, reached, told, denied) /\ preq[q] # Idle /\ preq[q].pc = "tell"
      BY <1>1, <1>9, IdleIsIdle DEF TellOfTick
    <2>2. /\ \/ told' = told \cup {t} /\ denied' = denied
             \/ denied' = denied \cup {t} /\ told' = told
          /\ preq' = [preq EXCEPT ![q] = r]
          /\ UNCHANGED <<desk, pnow, filed, subs, made, queue, log, reached>>
      BY <1>9 DEF TellOfTick, TellsOf, Step, roundOnly
    <2>3. t \in preq[q].batch /\ t \in made  BY <2>1 DEF RoundRequest
    <2>4. told \subseteq told' /\ denied \subseteq denied' /\ t \in told' \cup denied' /\ denied' \subseteq denied \cup {t}
      BY <2>2
    <2>5. RoundRequest(r, made', queue', reached', told', denied')
      <3>1. r.batch \subseteq made' /\ r.todo \subseteq r.batch /\ r.batch \subseteq queue' \cup told' \cup denied'
        BY <2>1, <2>2, <2>4 DEF RoundRequest
      <3>2. \A x \in r.batch \ r.todo : Handled(r, x, reached', told', denied')
        BY <2>1, <2>2, <2>4 DEF RoundRequest, Handled
      <3>. QED BY <3>1, <3>2 DEF RoundRequest
    <2>. HIDE DEF r, t
    <2>6. queue \subseteq queue' \cup told' \cup denied'  BY <2>2
    <2>7. \A p \in PReq : RoundRequest(preq'[p], made', queue', reached', told', denied')
      BY <1>4, <2>2, <2>4, <2>5, <2>6
    <2>8. today' = today  BY <2>2 DEF today
    <2>9. t \in queue \cup reached \cup denied  BY <1>1, <2>3 DEF t
    <2>. QED BY <1>1, <2>2, <2>4, <2>7, <2>8, <2>9 DEF RoundInv, TickIsKept
  <1>10. ASSUME NEW q \in PReq, ReplyRound(q) PROVE RoundInv'
    <2>1. RoundRequest(preq[q], made, queue, reached, told, denied) /\ preq[q] # Idle /\ preq[q].pc = "store"
          /\ preq[q].todo = {}
      BY <1>1, <1>10, IdleIsIdle DEF ReplyRound
    <2>2. /\ queue' = queue \ preq[q].batch /\ preq' = [preq EXCEPT ![q] = Idle]
          /\ UNCHANGED <<desk, pnow, filed, subs, made, log, told, reached, denied>>
      BY <1>10 DEF ReplyRound, MarkSynced, End, roundOnly
    <2>3. \A x \in preq[q].batch : x \in denied \/ (x \in reached /\ x \in told)  BY <2>1 DEF RoundRequest, Handled
    <2>4. RoundRequest(Idle, made', queue', reached', told', denied')  BY DEF RoundRequest
    <2>5. \A p \in PReq : RoundRequest(preq'[p], made', queue', reached', told', denied')
      BY <1>4, <2>2, <2>3, <2>4
    <2>6. today' = today  BY <2>2 DEF today
    <2>7. preq[q].batch \subseteq made  BY <2>1 DEF RoundRequest
    <2>. QED BY <1>1, <2>2, <2>3, <2>5, <2>6, <2>7 DEF RoundInv, TickIsKept
  <1>11. ASSUME NEW q \in PReq, LoseRequest(q) PROVE RoundInv'
    <2>1. preq' = [preq EXCEPT ![q] = Idle] /\ UNCHANGED <<desk, pnow, filed, subs, made, queue, log, told, reached, denied>>
      BY <1>11 DEF LoseRequest, End
    <2>2. RoundRequest(Idle, made', queue', reached', told', denied')  BY DEF RoundRequest
    <2>3. \A p \in PReq : RoundRequest(preq'[p], made', queue', reached', told', denied')  BY <1>4, <2>1, <2>2
    <2>. QED BY <1>1, <2>1, <2>3 DEF RoundInv, TickIsKept, today
  <1>12. CASE PatrolHour
    <2>1. pnow' = pnow + 1 /\ UNCHANGED <<desk, preq, filed, subs, made, queue, log, told, reached, denied>>
      BY <1>12 DEF PatrolHour
    <2>2. today' >= today /\ today' \in Nat  BY <2>1, TheDayGoesOn
    <2>3. \A t \in made : t.date \in Nat /\ (t.ahead = 0 => t.date <= today')  BY <1>1, <1>2, <2>2
    <2>. QED BY <1>1, <2>1, <2>3 DEF RoundInv, TickIsKept
  <1>. QED BY <1>0, <1>3, <1>5, <1>6, <1>7, <1>8, <1>9, <1>10, <1>11, <1>12 DEF PatrolNext, RoundNext

-----------------------------------------------------------------------------
(* Patrol: the claims *)

\* A request has a claim that was made; filed claims have been
ClaimRequest(m) == [pc : {"claim", "filed"}, c : m]
ClaimInv ==
    desk = "claim" =>
        /\ TickIsKept
        /\ \A q \in PReq : preq[q] \in {Idle} \cup ClaimRequest(made)
        /\ \A q \in PReq : preq[q].pc = "filed" => preq[q].c \in reached \cup denied
        /\ \A c \in made : c.at \in Int
        /\ \A c \in DOMAIN filed : filed[c] \in Int /\ filed[c] <= pnow
        /\ log = noRows /\ subs = {}

\* A claim under way is a claim.
LEMMA FormOfClaim ==
    ASSUME NEW m, NEW r \in {Idle} \cup ClaimRequest(m)
    PROVE  r.pc \in {"claim", "filed"} => r \in ClaimRequest(m)
  BY DEF Idle, ClaimRequest

\* Every step of a claim keeps its invariant.
LEMMA ClaimInvStep == OtherDesks /\ ClaimInv /\ [PatrolNext]_patrolVars => ClaimInv'
  <1>. SUFFICES ASSUME OtherDesks, ClaimInv, [PatrolNext]_patrolVars, desk' = "claim" PROVE ClaimInv'
    BY DEF ClaimInv
  <1>0. desk = "claim"
    BY DEF PatrolNext, RoundNext, ManualNext, UploadNext, ClaimNext, patrolVars, TickSlot, GateScan, SendRound, StoreTick,
           TellOfTick, ReplyRound, PatrolManualEntry, StoreManual, ClearExtras, ReplyManual, WriteExtraUnit, QASubmitReport,
           IngestRow, SealSubmission, QADeleteSubmission, CaptureClaim, SendClaim, FileClaim, ReplyClaim, LoseRequest,
           PatrolHour, roundOnly, manualOnly, uploadOnly, claimOnly
  <1>1. /\ made = queue \cup reached \cup denied
        /\ \A q \in PReq : preq[q] \in {Idle} \cup ClaimRequest(made)
        /\ \A q \in PReq : preq[q].pc = "filed" => preq[q].c \in reached \cup denied
        /\ \A c \in made : c.at \in Int
        /\ \A c \in DOMAIN filed : filed[c] \in Int /\ filed[c] <= pnow
        /\ log = noRows /\ subs = {} /\ pnow \in Nat
    BY <1>0 DEF ClaimInv, TickIsKept, OtherDesks
  <1>2. CASE UNCHANGED patrolVars  BY <1>1, <1>2 DEF patrolVars, ClaimInv, TickIsKept
  <1>3. ASSUME NEW q \in PReq, NEW r, preq' = [preq EXCEPT ![q] = r], r \in {Idle} \cup ClaimRequest(made),
               r.pc = "filed" => r.c \in reached' \cup denied', UNCHANGED made,
               reached \subseteq reached', denied \subseteq denied'
        PROVE  /\ \A p \in PReq : preq'[p] \in {Idle} \cup ClaimRequest(made')
               /\ \A p \in PReq : preq'[p].pc = "filed" => preq'[p].c \in reached' \cup denied'
    <2>1. preq' = [p \in PReq |-> IF p = q THEN r ELSE preq[p]]  BY <1>3, ReqMoves
    <2>. QED BY <1>1, <1>3, <2>1
  <1>4. ASSUME NEW ahead \in 0 .. 1, CaptureClaim(ahead) PROVE ClaimInv'
    <2>. DEFINE c == [id |-> Cardinality(made) + 1, at |-> pnow + ahead]
    <2>1. c.at \in Int  BY <1>1
    <2>2. made' = made \cup {c} /\ queue' = queue \cup {c} /\ UNCHANGED <<desk, pnow, preq, reached, denied, filed, log, subs>>
      BY <1>4 DEF CaptureClaim, claimOnly
    <2>. HIDE DEF c
    <2>3. ClaimRequest(made) \subseteq ClaimRequest(made')  BY <2>2 DEF ClaimRequest
    <2>. QED BY <1>1, <2>1, <2>2, <2>3 DEF ClaimInv, TickIsKept
  <1>5. ASSUME NEW q \in PReq, NEW c \in queue, SendClaim(q, c) PROVE ClaimInv'
    <2>. DEFINE r == [pc |-> "claim", c |-> c]
    <2>1. r \in ClaimRequest(made) /\ r.pc = "claim"  BY <1>1 DEF ClaimRequest
    <2>2. preq' = [preq EXCEPT ![q] = r] /\ UNCHANGED <<desk, pnow, made, queue, reached, denied, filed, log, subs>>
      BY <1>5 DEF SendClaim, Begin, claimOnly
    <2>. HIDE DEF r
    <2>3. /\ \A p \in PReq : preq'[p] \in {Idle} \cup ClaimRequest(made')
          /\ \A p \in PReq : preq'[p].pc = "filed" => preq'[p].c \in reached' \cup denied'
      BY <1>3, <2>1, <2>2
    <2>. QED BY <1>1, <2>2, <2>3 DEF ClaimInv, TickIsKept
  <1>6. ASSUME NEW q \in PReq, FileClaim(q) PROVE ClaimInv'
    <2>. DEFINE c == preq[q].c
                r == [preq[q] EXCEPT !.pc = "filed"]
    <2>1. preq[q] \in ClaimRequest(made)  BY <1>1, <1>6, FormOfClaim DEF FileClaim
    <2>2. r \in ClaimRequest(made) /\ r.pc = "filed" /\ r.c = c /\ c \in made  BY <2>1 DEF ClaimRequest
    <2>3. /\ \/ /\ filed' = IF c.id \in DOMAIN filed THEN filed ELSE Put(filed, c.id, NotAfterNow(c.at))
                /\ reached' = reached \cup {c} /\ denied' = denied
             \/ denied' = denied \cup {c} /\ UNCHANGED <<filed, reached>>
          /\ preq' = [preq EXCEPT ![q] = r] /\ UNCHANGED <<desk, pnow, made, queue, log, subs>>
      BY <1>6 DEF FileClaim, Step, claimOnly
    <2>. HIDE DEF r, c
    <2>4. /\ \A p \in PReq : preq'[p] \in {Idle} \cup ClaimRequest(made')
          /\ \A p \in PReq : preq'[p].pc = "filed" => preq'[p].c \in reached' \cup denied'
      BY <1>3, <2>2, <2>3
    <2>5. NotAfterNow(c.at) \in Int /\ NotAfterNow(c.at) <= pnow  BY <1>1, <2>2 DEF NotAfterNow
    <2>6. \A x \in DOMAIN filed' : filed'[x] \in Int /\ filed'[x] <= pnow
      BY <1>1, <2>3, <2>5 DEF Put
    <2>. QED BY <1>1, <2>2, <2>3, <2>4, <2>6 DEF ClaimInv, TickIsKept
  <1>7. ASSUME NEW q \in PReq, ReplyClaim(q) PROVE ClaimInv'
    <2>1. preq[q].c \in reached \cup denied  BY <1>1, <1>7 DEF ReplyClaim
    <2>2. /\ queue' = queue \ {preq[q].c} /\ preq' = [preq EXCEPT ![q] = Idle]
          /\ UNCHANGED <<desk, pnow, made, reached, denied, filed, log, subs>>
      BY <1>7 DEF ReplyClaim, End, claimOnly
    <2>3. Idle.pc # "filed"  BY DEF Idle
    <2>4. /\ \A p \in PReq : preq'[p] \in {Idle} \cup ClaimRequest(made')
          /\ \A p \in PReq : preq'[p].pc = "filed" => preq'[p].c \in reached' \cup denied'
      BY <1>3, <2>2, <2>3
    <2>. QED BY <1>1, <2>1, <2>2, <2>4 DEF ClaimInv, TickIsKept
  <1>8. ASSUME NEW q \in PReq, LoseRequest(q) PROVE ClaimInv'
    <2>1. preq' = [preq EXCEPT ![q] = Idle] /\ UNCHANGED <<desk, pnow, made, queue, reached, denied, filed, log, subs>>
      BY <1>8 DEF LoseRequest, End
    <2>2. Idle.pc # "filed"  BY DEF Idle
    <2>3. /\ \A p \in PReq : preq'[p] \in {Idle} \cup ClaimRequest(made')
          /\ \A p \in PReq : preq'[p].pc = "filed" => preq'[p].c \in reached' \cup denied'
      BY <1>3, <2>1, <2>2
    <2>. QED BY <1>1, <2>1, <2>3 DEF ClaimInv, TickIsKept
  <1>9. CASE PatrolHour
    <2>1. pnow' = pnow + 1 /\ UNCHANGED <<desk, preq, filed, subs, made, queue, log, reached, denied>>
      BY <1>9 DEF PatrolHour
    <2>2. \A c \in DOMAIN filed : filed[c] \in Int /\ filed[c] <= pnow'  BY <1>1, <2>1
    <2>. QED BY <1>1, <2>1, <2>2 DEF ClaimInv, TickIsKept
  <1>. QED BY <1>0, <1>2, <1>4, <1>5, <1>6, <1>7, <1>8, <1>9 DEF PatrolNext, ClaimNext

-----------------------------------------------------------------------------
(* Patrol: the typed entries *)

\* An entry is filed near the day it was typed on
ManualRequest == [pc : {"write", "clear", "extra"}, key : Unit \X Int \X Int \X {NoCohort}, taught : BOOLEAN,
                  others : SUBSET Unit, on : Int]
NearTheDay(k, on) == k[2] \in (on - KeepDays) .. (on + 1)
ManualInv ==
    desk = "manual" =>
        /\ made = {} /\ queue = {} /\ reached = {} /\ denied = {} /\ filed = noRows /\ subs = {}
        /\ \A q \in PReq : preq[q] \in {Idle} \cup ManualRequest
        /\ \A q \in PReq : preq[q] # Idle => NearTheDay(preq[q].key, preq[q].on)
        /\ \A k \in DOMAIN log : NearTheDay(k, log[k].on)

\* A typed entry under way is one.
LEMMA FormOfManual ==
    ASSUME NEW r \in {Idle} \cup ManualRequest, r.pc \in {"write", "clear", "extra"}
    PROVE  r \in ManualRequest /\ r # Idle
  BY DEF Idle, ManualRequest

\* Every step of a typed entry keeps its invariant.
LEMMA ManualInvStep == OtherDesks /\ ManualInv /\ [PatrolNext]_patrolVars => ManualInv'
  <1>. SUFFICES ASSUME OtherDesks, ManualInv, [PatrolNext]_patrolVars, desk' = "manual" PROVE ManualInv'
    BY DEF ManualInv
  <1>0. desk = "manual"
    BY DEF PatrolNext, RoundNext, ManualNext, UploadNext, ClaimNext, patrolVars, TickSlot, GateScan, SendRound, StoreTick,
           TellOfTick, ReplyRound, PatrolManualEntry, StoreManual, ClearExtras, ReplyManual, WriteExtraUnit, QASubmitReport,
           IngestRow, SealSubmission, QADeleteSubmission, CaptureClaim, SendClaim, FileClaim, ReplyClaim, LoseRequest,
           PatrolHour, roundOnly, manualOnly, uploadOnly, claimOnly
  <1>1. /\ made = {} /\ queue = {} /\ reached = {} /\ denied = {} /\ filed = noRows /\ subs = {}
        /\ \A q \in PReq : preq[q] \in {Idle} \cup ManualRequest
        /\ \A q \in PReq : preq[q] # Idle => NearTheDay(preq[q].key, preq[q].on)
        /\ \A k \in DOMAIN log : NearTheDay(k, log[k].on)
        /\ pnow \in Nat
    BY <1>0 DEF ManualInv, OtherDesks
  <1>. DEFINE rest == UNCHANGED <<desk, made, queue, reached, denied, filed, subs>>
  <1>2. ASSUME NEW q \in PReq, NEW r, preq' = [preq EXCEPT ![q] = r], r \in {Idle} \cup ManualRequest,
               r # Idle => NearTheDay(r.key, r.on), rest,
               \/ log' = log
               \/ \E k, v : log' = Put(log, k, v) /\ NearTheDay(k, v.on)
        PROVE  ManualInv'
    <2>1. preq' = [p \in PReq |-> IF p = q THEN r ELSE preq[p]]  BY <1>2, ReqMoves
    <2>2. /\ \A p \in PReq : preq'[p] \in {Idle} \cup ManualRequest
          /\ \A p \in PReq : preq'[p] # Idle => NearTheDay(preq'[p].key, preq'[p].on)
      BY <1>1, <1>2, <2>1
    <2>3. \A k \in DOMAIN log' : NearTheDay(k, log'[k].on)  BY <1>1, <1>2 DEF Put
    <2>. QED BY <1>1, <1>2, <2>2, <2>3 DEF ManualInv
  <1>3. ASSUME NEW q \in PReq, NEW u \in Unit, NEW d \in (today - KeepDays - 1) .. (today + 2), NEW h \in 0 .. DayHours - 1,
               NEW taught \in BOOLEAN, NEW others \in {{}, Unit}, NEW g \in {today, today + 1},
               PatrolManualEntry(q, u, d, h, taught, others, g)
        PROVE  ManualInv'
    <2>. DEFINE r == [pc |-> "write", key |-> <<u, SessionDate(d), h, NoCohort>>, taught |-> taught,
                      others |-> others, on |-> today]
    <2>1. today \in Nat /\ d \in Int /\ h \in Int  BY <1>1, TodayIs, PatrolAssumption
    <2>2. SessionDate(d) \in Int /\ SessionDate(d) \in (today - KeepDays) .. (today + 1)  BY <1>1, <2>1, SessionDateIsNear
    <2>3. r \in ManualRequest  BY <2>1, <2>2 DEF ManualRequest
    <2>4. NearTheDay(r.key, r.on)  BY <2>2 DEF NearTheDay
    <2>5. preq' = [preq EXCEPT ![q] = r] /\ log' = log /\ rest  BY <1>3 DEF PatrolManualEntry, Begin, manualOnly
    <2>. HIDE DEF r
    <2>. QED BY <1>2, <2>3, <2>4, <2>5
  <1>4. ASSUME NEW q \in PReq, NEW r, preq[q] \in ManualRequest,
               r \in ManualRequest, r.key = preq[q].key, r.on = preq[q].on, preq' = [preq EXCEPT ![q] = r], rest,
               \/ log' = log
               \/ \E v : log' = Put(log, preq[q].key, v) /\ v.on = preq[q].on
        PROVE  ManualInv'
    <2>1. NearTheDay(preq[q].key, preq[q].on)
      <3>1. preq[q] # Idle  BY <1>4 DEF Idle, ManualRequest
      <3>. QED BY <1>1, <3>1
    <2>. QED BY <1>2, <1>4, <2>1
  <1>5. ASSUME NEW q \in PReq, StoreManual(q) PROVE ManualInv'
    <2>1. preq[q] \in ManualRequest  BY <1>1, <1>5, FormOfManual DEF StoreManual
    <2>. DEFINE r == [preq[q] EXCEPT !.pc = "clear"]
                v == [id |-> 0, taught |-> preq[q].taught, how |-> "MANUAL", on |-> preq[q].on]
    <2>2. r \in ManualRequest /\ r.key = preq[q].key /\ r.on = preq[q].on  BY <2>1 DEF ManualRequest
    <2>3. v.on = preq[q].on  OBVIOUS
    <2>4. preq' = [preq EXCEPT ![q] = r] /\ log' = Put(log, preq[q].key, v) /\ rest
      BY <1>5 DEF StoreManual, Step, manualOnly
    <2>. HIDE DEF r, v
    <2>. QED BY <1>4, <2>1, <2>2, <2>3, <2>4
  <1>6. ASSUME NEW q \in PReq, ClearExtras(q) \/ (\E u \in Unit : WriteExtraUnit(q, u)) PROVE ManualInv'
    <2>1. preq[q] \in ManualRequest  BY <1>1, <1>6, FormOfManual DEF ClearExtras, WriteExtraUnit
    <2>2. PICK p \in {"extra"}, S \in SUBSET Unit : preq' = [preq EXCEPT ![q] = [preq[q] EXCEPT !.pc = p, !.others = S]]
      <3>1. CASE ClearExtras(q)
        <4>1. preq[q].others \ {preq[q].key[1]} \in SUBSET Unit  BY <2>1 DEF ManualRequest
        <4>. QED BY <3>1, <4>1 DEF ClearExtras, Step
      <3>2. ASSUME NEW u \in Unit, WriteExtraUnit(q, u) PROVE \E S \in SUBSET Unit :
                  preq' = [preq EXCEPT ![q] = [preq[q] EXCEPT !.pc = "extra", !.others = S]]
        <4>1. preq[q].others \ {u} \in SUBSET Unit /\ preq[q].pc = "extra"  BY <2>1, <3>2 DEF ManualRequest, WriteExtraUnit
        <4>2. [preq[q] EXCEPT !.others = @ \ {u}] = [preq[q] EXCEPT !.pc = "extra", !.others = preq[q].others \ {u}]
          BY <2>1, <4>1 DEF ManualRequest
        <4>. QED BY <3>2, <4>1, <4>2 DEF WriteExtraUnit, Step
      <3>. QED BY <1>6, <3>1, <3>2
    <2>. DEFINE r == [preq[q] EXCEPT !.pc = p, !.others = S]
    <2>3. r \in ManualRequest /\ r.key = preq[q].key /\ r.on = preq[q].on  BY <2>1 DEF ManualRequest
    <2>4. log' = log /\ rest  BY <1>6 DEF ClearExtras, WriteExtraUnit, manualOnly
    <2>. HIDE DEF r
    <2>5. preq' = [preq EXCEPT ![q] = r]  BY <2>2 DEF r
    <2>. QED BY <1>4, <2>1, <2>3, <2>4, <2>5
  <1>7. ASSUME NEW q \in PReq, ReplyManual(q) \/ LoseRequest(q) PROVE ManualInv'
    <2>1. preq' = [preq EXCEPT ![q] = Idle] /\ log' = log /\ rest
      BY <1>7 DEF ReplyManual, LoseRequest, End, manualOnly
    <2>. QED BY <1>2, <2>1
  <1>8. CASE UNCHANGED <<desk, made, queue, reached, denied, filed, subs, preq, log>>  BY <1>1, <1>8 DEF ManualInv
  <1>9. CASE PatrolHour \/ UNCHANGED patrolVars  BY <1>8, <1>9 DEF PatrolHour, patrolVars
  <1>. QED BY <1>0, <1>3, <1>5, <1>6, <1>7, <1>9 DEF PatrolNext, ManualNext

-----------------------------------------------------------------------------
(* Patrol: the workbooks *)

\* A workbook under way has counted each row it has done with
AnyRow == [unit : {s.unit : s \in Slot}, org : {"home", "away"}, date : Nat, start : {0},
           taught : {TRUE}, readable : BOOLEAN]
Report == [id : Nat, by : Rep, rows : SUBSET AnyRow, total : Nat, parsed : Nat, skipped : Nat, done : BOOLEAN]
IngestRequest == [pc : {"ingest"}, sub : Report, todo : SUBSET AnyRow, parsed : Nat, skipped : Nat]
Counted(r) ==
    /\ IsFiniteSet(r.sub.rows) /\ IsFiniteSet(r.todo)
    /\ r.parsed + r.skipped + Cardinality(r.todo) = Cardinality(r.sub.rows)
UploadInv ==
    desk = "upload" =>
        /\ made = {} /\ queue = {} /\ reached = {} /\ denied = {} /\ filed = noRows
        /\ subs \in SUBSET Report /\ IsFiniteSet(subs)
        /\ WorkbookAddsUp
        /\ \A q \in PReq : preq[q] \in {Idle} \cup IngestRequest
        /\ \A q \in PReq : preq[q] # Idle => Counted(preq[q])
        /\ \A k \in DOMAIN log : log[k].how = "QA_REP_UPLOAD"

\* A workbook under way is one.
LEMMA FormOfIngest ==
    ASSUME NEW r \in {Idle} \cup IngestRequest, r.pc = "ingest"
    PROVE  r \in IngestRequest /\ r # Idle
  BY DEF Idle, IngestRequest

\* The submission as SealSubmission leaves it
WithFigures(x, n, p, k) == [x EXCEPT !.total = n, !.parsed = p, !.skipped = k, !.done = TRUE]
\* A workbook that is sealed with its counts adds up.
LEMMA FiguresFit ==
    ASSUME NEW x \in Report, NEW n \in Nat, NEW p \in Nat, NEW k \in Nat, n = p + k
    PROVE  /\ WithFigures(x, n, p, k) \in Report
           /\ WithFigures(x, n, p, k).total = WithFigures(x, n, p, k).parsed + WithFigures(x, n, p, k).skipped
  BY DEF WithFigures, Report

\* Every step of a workbook keeps its invariant.
LEMMA UploadInvStep == OtherDesks /\ UploadInv /\ [PatrolNext]_patrolVars => UploadInv'
  <1>. SUFFICES ASSUME OtherDesks, UploadInv, [PatrolNext]_patrolVars, desk' = "upload" PROVE UploadInv'
    BY DEF UploadInv
  <1>0. desk = "upload"
    BY DEF PatrolNext, RoundNext, ManualNext, UploadNext, ClaimNext, patrolVars, TickSlot, GateScan, SendRound, StoreTick,
           TellOfTick, ReplyRound, PatrolManualEntry, StoreManual, ClearExtras, ReplyManual, WriteExtraUnit, QASubmitReport,
           IngestRow, SealSubmission, QADeleteSubmission, CaptureClaim, SendClaim, FileClaim, ReplyClaim, LoseRequest,
           PatrolHour, roundOnly, manualOnly, uploadOnly, claimOnly
  <1>1. /\ made = {} /\ queue = {} /\ reached = {} /\ denied = {} /\ filed = noRows
        /\ subs \in SUBSET Report /\ IsFiniteSet(subs)
        /\ \A s \in subs : s.done => s.total = s.parsed + s.skipped
        /\ \A q \in PReq : preq[q] \in {Idle} \cup IngestRequest
        /\ \A q \in PReq : preq[q] # Idle => Counted(preq[q])
        /\ \A k \in DOMAIN log : log[k].how = "QA_REP_UPLOAD"
        /\ pnow \in Nat
    BY <1>0 DEF UploadInv, OtherDesks, WorkbookAddsUp
  <1>. DEFINE rest == UNCHANGED <<desk, made, queue, reached, denied, filed>>
  <1>2. ASSUME NEW q \in PReq, NEW r, preq' = [preq EXCEPT ![q] = r], r \in {Idle} \cup IngestRequest,
               r # Idle => Counted(r), rest,
               subs' \in SUBSET Report, IsFiniteSet(subs'), \A s \in subs' : s.done => s.total = s.parsed + s.skipped,
               \/ log' = log
               \/ \E k, v : log' = Put(log, k, v) /\ v.how = "QA_REP_UPLOAD"
        PROVE  UploadInv'
    <2>1. preq' = [p \in PReq |-> IF p = q THEN r ELSE preq[p]]  BY <1>2, ReqMoves
    <2>2. /\ \A p \in PReq : preq'[p] \in {Idle} \cup IngestRequest
          /\ \A p \in PReq : preq'[p] # Idle => Counted(preq'[p])
      BY <1>1, <1>2, <2>1
    <2>3. \A k \in DOMAIN log' : log'[k].how = "QA_REP_UPLOAD"  BY <1>1, <1>2 DEF Put
    <2>4. WorkbookAddsUp'  BY <1>2 DEF WorkbookAddsUp
    <2>. QED BY <1>1, <1>2, <2>2, <2>3, <2>4 DEF UploadInv
  <1>3. ASSUME NEW q \in PReq, NEW by \in Rep, NEW a \in SheetRow, NEW b \in SheetRow, QASubmitReport(q, by, {a, b})
        PROVE  UploadInv'
    <2>. DEFINE n == Cardinality(subs)
                rows == {a, b}
                s == [id |-> n + 1, by |-> by, rows |-> rows, total |-> 0, parsed |-> 0, skipped |-> 0, done |-> FALSE]
                r == [pc |-> "ingest", sub |-> s, todo |-> rows, parsed |-> 0, skipped |-> 0]
    <2>1. n \in Nat  BY <1>1, FS_CardinalityType
    <2>2. rows \in SUBSET AnyRow
      <3>1. today \in Nat  BY <1>1, TodayIs
      <3>2. a \in AnyRow /\ b \in AnyRow  BY <3>1 DEF AnyRow, SheetRow
      <3>. QED BY <3>2
    <2>3. IsFiniteSet(rows)
      <3>1. IsFiniteSet({a})  BY FS_Singleton
      <3>2. IsFiniteSet({a} \cup {b})  BY <3>1, FS_AddElement
      <3>3. rows = {a} \cup {b}  OBVIOUS
      <3>. QED BY <3>2, <3>3
    <2>4. subs' = subs \cup {s} /\ preq' = [preq EXCEPT ![q] = r] /\ log' = log /\ rest
      BY <1>3 DEF QASubmitReport, Begin, uploadOnly
    <2>. HIDE DEF n, rows
    <2>5. s \in Report /\ ~s.done  BY <2>1, <2>2 DEF Report
    <2>6. r.sub = s /\ r.todo = rows /\ r.parsed = 0 /\ r.skipped = 0 /\ s.rows = rows  OBVIOUS
    <2>. HIDE DEF s
    <2>7. r \in IngestRequest  BY <2>2, <2>5 DEF IngestRequest
    <2>. HIDE DEF r
    <2>8. Counted(r)
      <3>1. Cardinality(rows) \in Nat  BY <2>3, FS_CardinalityType
      <3>. QED BY <2>3, <2>6, <3>1 DEF Counted
    <2>9. IsFiniteSet(subs')  BY <1>1, <2>4, FS_AddElement
    <2>10. subs' \in SUBSET Report /\ \A x \in subs' : x.done => x.total = x.parsed + x.skipped
      BY <1>1, <2>4, <2>5
    <2>. QED BY <1>2, <2>4, <2>7, <2>8, <2>9, <2>10
  <1>4. ASSUME NEW q \in PReq, NEW row \in preq[q].todo, IngestRow(q, row) PROVE UploadInv'
    <2>1. preq[q] \in IngestRequest /\ preq[q] # Idle  BY <1>1, <1>4, FormOfIngest DEF IngestRow
    <2>2. Counted(preq[q])  BY <1>1, <2>1
    <2>. DEFINE o == preq[q]
                out == RowOutcome(o.sub.by, row)
                p == IF out = "skipped" THEN o.parsed ELSE o.parsed + 1
                k == IF out = "skipped" THEN o.skipped + 1 ELSE o.skipped
                T == o.todo \ {row}
                r == [o EXCEPT !.todo = T, !.skipped = k, !.parsed = p]
    <2>3. o.parsed \in Nat /\ o.skipped \in Nat /\ o.todo \in SUBSET AnyRow  BY <2>1 DEF IngestRequest
    <2>4. p \in Nat /\ k \in Nat /\ T \in SUBSET AnyRow /\ p + k = o.parsed + o.skipped + 1  BY <2>3
    <2>5. preq' = [preq EXCEPT ![q] = r] /\ subs' = subs /\ rest
      BY <1>4 DEF IngestRow, Step, CountSkipped, uploadOnly
    <2>6. \/ log' = log
          \/ \E x, v : log' = Put(log, x, v) /\ v.how = "QA_REP_UPLOAD"
      <3>. DEFINE v == [id |-> preq[q].sub.id, taught |-> row.taught, how |-> "QA_REP_UPLOAD", on |-> today]
      <3>1. log' = log \/ log' = Put(log, <<row.unit, row.date, row.start, NoCohort>>, v)  BY <1>4 DEF IngestRow
      <3>2. v.how = "QA_REP_UPLOAD"  OBVIOUS
      <3>. HIDE DEF v
      <3>. QED BY <3>1, <3>2
    <2>7. IsFiniteSet(T) /\ Cardinality(T) = Cardinality(o.todo) - 1 /\ Cardinality(o.todo) \in Nat
      BY <2>2, FS_RemoveElement, FS_CardinalityType DEF Counted
    <2>. HIDE DEF out, p, k, T
    <2>8. r \in IngestRequest /\ r.sub = o.sub /\ r.todo = T /\ r.parsed = p /\ r.skipped = k
      BY <2>1, <2>4 DEF IngestRequest
    <2>. HIDE DEF r
    <2>9. Counted(r)
      <3>1. Cardinality(o.sub.rows) = o.parsed + o.skipped + Cardinality(o.todo) /\ IsFiniteSet(o.sub.rows)
        BY <2>2 DEF Counted
      <3>2. p + k + Cardinality(T) = Cardinality(o.sub.rows)  BY <2>3, <2>4, <2>7, <3>1
      <3>. QED BY <2>7, <2>8, <3>1, <3>2 DEF Counted
    <2>. QED BY <1>1, <1>2, <2>5, <2>6, <2>8, <2>9
  <1>5. ASSUME NEW q \in PReq, SealSubmission(q) PROVE UploadInv'
    <2>1. preq[q] \in IngestRequest /\ preq[q] # Idle  BY <1>1, <1>5, FormOfIngest DEF SealSubmission
    <2>2. Counted(preq[q]) /\ preq[q].todo = {}  BY <1>1, <1>5, <2>1 DEF SealSubmission
    <2>. DEFINE n == Cardinality(preq[q].sub.rows)
                s == [preq[q].sub EXCEPT !.total = n, !.parsed = preq[q].parsed, !.skipped = preq[q].skipped, !.done = TRUE]
    <2>3. n \in Nat /\ n = preq[q].parsed + preq[q].skipped
      <3>1. Cardinality({}) = 0  BY FS_EmptySet
      <3>2. preq[q].parsed \in Nat /\ preq[q].skipped \in Nat  BY <2>1 DEF IngestRequest
      <3>. QED BY <2>2, <3>1, <3>2 DEF Counted
    <2>4. /\ subs' = (subs \ {preq[q].sub}) \cup (IF preq[q].sub \in subs THEN {s} ELSE {})
          /\ preq' = [preq EXCEPT ![q] = Idle] /\ log' = log /\ rest
      BY <1>5 DEF SealSubmission, End, uploadOnly
    <2>. HIDE DEF n
    <2>5. s \in Report /\ s.total = s.parsed + s.skipped
      <3>1. preq[q].sub \in Report /\ preq[q].parsed \in Nat /\ preq[q].skipped \in Nat  BY <2>1 DEF IngestRequest
      <3>2. s = WithFigures(preq[q].sub, n, preq[q].parsed, preq[q].skipped)  BY DEF WithFigures
      <3>3. n \in Nat /\ n = preq[q].parsed + preq[q].skipped  BY <2>3
      <3>. DEFINE x == preq[q].sub  p == preq[q].parsed  k == preq[q].skipped
      <3>4. x \in Report /\ p \in Nat /\ k \in Nat /\ n = p + k /\ s = WithFigures(x, n, p, k)  BY <3>1, <3>2, <3>3
      <3>. HIDE DEF s, x, p, k
      <3>. QED BY <3>3, <3>4, FiguresFit
    <2>. HIDE DEF s
    <2>6. IsFiniteSet(subs')
      <3>1. IsFiniteSet(subs \ {preq[q].sub})  BY <1>1, FS_RemoveElement
      <3>2. IsFiniteSet((subs \ {preq[q].sub}) \cup {s})  BY <3>1, FS_AddElement
      <3>3. CASE preq[q].sub \in subs
        <4>1. subs' = (subs \ {preq[q].sub}) \cup {s}  BY <2>4, <3>3
        <4>. QED BY <3>2, <4>1
      <3>4. CASE preq[q].sub \notin subs
        <4>1. subs' = subs \ {preq[q].sub}  BY <2>4, <3>4
        <4>. QED BY <3>1, <4>1
      <3>. QED BY <3>3, <3>4
    <2>7. subs' \in SUBSET Report /\ \A x \in subs' : x.done => x.total = x.parsed + x.skipped
      BY <1>1, <2>4, <2>5
    <2>. QED BY <1>2, <2>4, <2>6, <2>7
  <1>6. ASSUME NEW by \in Rep, NEW s \in subs, QADeleteSubmission(by, s) PROVE UploadInv'
    <2>1. /\ subs' = subs \ {s} /\ preq' = preq /\ rest
          /\ log' = [k \in {k \in DOMAIN log : ~(log[k].how = "QA_REP_UPLOAD" /\ log[k].id = s.id)} |-> log[k]]
      BY <1>6 DEF QADeleteSubmission, uploadOnly
    <2>2. IsFiniteSet(subs')  BY <1>1, <2>1, FS_RemoveElement
    <2>3. \A k \in DOMAIN log' : log'[k].how = "QA_REP_UPLOAD"  BY <1>1, <2>1
    <2>4. WorkbookAddsUp'  BY <1>1, <2>1 DEF WorkbookAddsUp
    <2>. QED BY <1>1, <2>1, <2>2, <2>3, <2>4 DEF UploadInv
  <1>7. ASSUME NEW q \in PReq, LoseRequest(q) PROVE UploadInv'
    <2>1. preq' = [preq EXCEPT ![q] = Idle] /\ log' = log /\ subs' = subs /\ rest  BY <1>7 DEF LoseRequest, End
    <2>. QED BY <1>1, <1>2, <2>1
  <1>8. CASE UNCHANGED <<desk, made, queue, reached, denied, filed, subs, preq, log>>
    BY <1>1, <1>8 DEF UploadInv, WorkbookAddsUp
  <1>9. CASE PatrolHour \/ UNCHANGED patrolVars  BY <1>8, <1>9 DEF PatrolHour, patrolVars
  <1>. QED BY <1>0, <1>3, <1>4, <1>5, <1>6, <1>7, <1>9 DEF PatrolNext, UploadNext

-----------------------------------------------------------------------------
(* Patrol: what arrives and what is so *)

\* The invariant of all desks
PatrolIInv == OtherDesks /\ RoundInv /\ ClaimInv /\ ManualInv /\ UploadInv

\* At the start nothing is made, sent or recorded.
LEMMA PatrolInvInit == PatrolInit => PatrolIInv
  <1>. SUFFICES ASSUME PatrolInit PROVE PatrolIInv  OBVIOUS
  <1>1. /\ desk \in {"round", "manual", "upload", "claim"} /\ preq = [q \in PReq |-> Idle]
        /\ made = {} /\ queue = {} /\ reached = {} /\ denied = {} /\ told = {}
        /\ log = noRows /\ filed = noRows /\ subs = {} /\ DOMAIN noRows = {}
    BY DEF PatrolInit, noRows
  <1>2. OtherDesks
    <2>1. DayHours - 1 \in Nat  BY PatrolAssumption
    <2>. QED BY <1>1, <2>1 DEF OtherDesks, PatrolInit
  <1>3. RoundInv
    <2>1. \A q \in PReq : RoundRequest(preq[q], made, queue, reached, told, denied)  BY <1>1 DEF RoundRequest
    <2>. QED BY <1>1, <2>1 DEF RoundInv, TickIsKept
  <1>4. \A q \in PReq : preq[q] = Idle /\ preq[q].pc # "filed"  BY <1>1 DEF Idle
  <1>5. ClaimInv  BY <1>1, <1>4 DEF ClaimInv, TickIsKept
  <1>6. ManualInv  BY <1>1, <1>4 DEF ManualInv
  <1>7. UploadInv  BY <1>1, <1>4, FS_EmptySet DEF UploadInv, WorkbookAddsUp
  <1>. QED BY <1>2, <1>3, <1>5, <1>6, <1>7 DEF PatrolIInv

\* The invariant of all four desks holds of every run.
LEMMA PatrolInvAlways == PatrolSpec => []PatrolIInv
  <1>1. PatrolIInv /\ [PatrolNext]_patrolVars => PatrolIInv'
    BY OtherDesksStep, RoundInvStep, ClaimInvStep, ManualInvStep, UploadInvStep DEF PatrolIInv
  <1>. QED BY PatrolInvInit, <1>1, PTL DEF PatrolSpec

\* A lecture a miss is recorded for, that is over and not scanned, is on the lecturer's list.
LEMMA MissedAndOver == PatrolIInv => MissCanBeAnswered
  <1>. SUFFICES ASSUME PatrolIInv, desk = "round", NEW t \in reached, NEW s \in PatrolManifest,
                       t.ahead = 0, <<t.unit, t.date>> \notin scanned, s.unit = t.unit,
                       s.dow = weekday(t.date), t.date * DayHours + s.start + s.len <= pnow, today - t.date < AskDays
                PROVE  <<s, t.date>> \in Unrecorded
    BY DEF MissCanBeAnswered
  <1>1. pnow \in Nat /\ made = queue \cup reached \cup denied /\ \A x \in made : x.date \in Nat /\ (x.ahead = 0 => x.date <= today)
    BY DEF PatrolIInv, OtherDesks, RoundInv, TickIsKept
  <1>2. t.date \in Nat /\ t.date <= today  BY <1>1
  <1>3. s \in Slot /\ ~s.online /\ s.start \in Nat /\ s.len \in Nat  BY PatrolAssumption DEF PatrolManifest
  <1>4. today \in Nat /\ hourNow \in Nat /\ pnow = DayHours * today + hourNow /\ DayHours \in Nat /\ AskDays \in Nat
    <2>1. DayHours \in Nat \ {0} /\ AskDays \in Nat  BY PatrolAssumption
    <2>2. today \in Nat /\ hourNow \in 0 .. DayHours - 1 /\ pnow = DayHours * today + hourNow  BY <1>1, TodayIs
    <2>. QED BY <2>1, <2>2
  <1>5. t.date \in (today - (AskDays - 1)) .. today  BY <1>2, <1>4
  <1>6. IsOver(s, t.date)
    <2>. DEFINE d == t.date  a == s.start  b == s.len  h == hourNow  n == today
    <2>1. d * DayHours + a + b <= DayHours * n + h  BY <1>4
    <2>2. CASE d = n
      <3>. DEFINE x == DayHours * n
      <3>1. x \in Int /\ d * DayHours = x  BY <1>2, <1>4, <2>2
      <3>2. x + a + b <= x + h /\ a \in Nat /\ b \in Nat /\ h \in Nat  BY <1>3, <1>4, <2>1, <3>1
      <3>. HIDE DEF x, a, b, h
      <3>3. a + b <= h  BY <3>1, <3>2
      <3>. QED BY <3>3 DEF IsOver, a, b, h
    <2>3. CASE d < n  BY <2>3 DEF IsOver
    <2>. QED BY <1>2, <1>4, <2>2, <2>3
  <1>. QED BY <1>3, <1>5, <1>6 DEF Unrecorded

\* However many requests of a phone overlap, die or lose their answers: a tick is kept until it is stored, the
\* lecturer is told of a miss, and finds it on the list to answer (patrol.go, lecturer_unrecorded.go).
THEOREM TickArrivesAlways == PatrolSpec => []TickArrives
  <1>1. PatrolIInv => TickArrives
    <2>. SUFFICES ASSUME PatrolIInv PROVE TickArrives  OBVIOUS
    <2>1. TickIsKept
      BY DEF PatrolIInv, OtherDesks, RoundInv, ClaimInv, ManualInv, UploadInv, TickIsKept
    <2>2. MissIsTold  BY DEF PatrolIInv, RoundInv, MissIsTold
    <2>. QED BY <2>1, <2>2, MissedAndOver DEF TickArrives
  <1>. QED BY <1>1, PatrolInvAlways, PTL

\* Of any number of slots, ticks, entries, claims and workbooks: what a monitor reached is no gap, a typed date is near
\* its day, a claim is not of the future and a workbook's figures add up (patrol_coverage.go, patrol_manual.go, qa_rep.go).
THEOREM RecordIsTrueAlways == PatrolSpec => []RecordIsTrue
  <1>1. PatrolIInv => RecordIsTrue
    <2>. SUFFICES ASSUME PatrolIInv PROVE RecordIsTrue  OBVIOUS
    <2>1. VisitedIsNoGap
      <3>. SUFFICES ASSUME desk = "round", NEW t \in reached, NEW i \in NotPatrolled(0),
                           t.ahead = 0, i[1].unit = t.unit, i[1].start = t.start, i[2] = t.date
                    PROVE  FALSE
        BY DEF VisitedIsNoGap
      <3>1. <<t.unit, t.date, t.start, t.cohort>> \in DOMAIN log  BY DEF PatrolIInv, RoundInv
      <3>2. <<t.unit, t.date, t.start, t.cohort>> \in SlotTicks(i[1], i[2])  BY <3>1 DEF SlotTicks
      <3>. QED BY <3>2 DEF NotPatrolled
    <2>2. ManualDateIsNear
      <3>1. desk \in {"round", "manual", "upload", "claim"}  BY DEF PatrolIInv, OtherDesks
      <3>2. CASE desk = "round"  BY <3>2 DEF PatrolIInv, RoundInv, ManualDateIsNear
      <3>3. CASE desk = "manual"  BY <3>3 DEF PatrolIInv, ManualInv, ManualDateIsNear, NearTheDay
      <3>4. CASE desk = "upload"  BY <3>4 DEF PatrolIInv, UploadInv, ManualDateIsNear
      <3>5. CASE desk = "claim"  BY <3>5 DEF PatrolIInv, ClaimInv, ManualDateIsNear, noRows
      <3>. QED BY <3>1, <3>2, <3>3, <3>4, <3>5
    <2>3. ClaimHasHappened
      BY DEF PatrolIInv, OtherDesks, RoundInv, ClaimInv, ManualInv, UploadInv, ClaimHasHappened, noRows
    <2>4. WorkbookAddsUp
      BY DEF PatrolIInv, OtherDesks, RoundInv, ClaimInv, ManualInv, UploadInv, WorkbookAddsUp
    <2>. QED BY <2>1, <2>2, <2>3, <2>4 DEF RecordIsTrue
  <1>. QED BY <1>1, PatrolInvAlways, PTL

-----------------------------------------------------------------------------
(* Eligibility: the inductive invariant *)

FigureRow == [held : Nat, attended : Nat, pct : Int]
Picture == [Examinee -> FigureRow] \cup [{} -> FigureRow]
ASession == [offering : Offering, status : {"CLOSED", "ACTIVE"}]
ARebuild == [pc : {"none", "due"}] \cup [pc : {"deleting"}, saw : Nat] \cup [pc : {"inserted"}, figures : Picture]

ExamTyped ==
    /\ sessions \in Seq(ASession) /\ Len(sessions) <= MaxSessions
    /\ rebuilds \in [Session -> ARebuild] /\ version \in Nat

\* Figures that were computed in one statement: all rows count the same sessions, and nobody attended more
Fair(f) ==
    /\ f \in Picture
    /\ \A a \in DOMAIN f : /\ f[a].held \in 1 .. MaxSessions /\ f[a].attended \in 0 .. f[a].held
                           /\ f[a].pct = Percentage(f[a].held, f[a].attended)
    /\ \A a, b \in DOMAIN f : f[a].held = f[b].held

\* The figures f are no later than g.
Within(f, g) ==
    \A stu \in DOMAIN f : /\ stu \in DOMAIN g
                          /\ g[stu].held >= f[stu].held /\ g[stu].attended >= f[stu].attended

\* A rebuild that has inserted holds the rows, and has counted between what is published and what is true
RebuildInv ==
    /\ Fair(summary) /\ Within(summary, Figures)
    /\ \A r \in Session : rebuilds[r].pc = "inserted" =>
          /\ holder = r /\ Fair(rebuilds[r].figures)
          /\ Within(summary, rebuilds[r].figures) /\ Within(rebuilds[r].figures, Figures)

ExamInv == ExamTyped /\ RebuildInv

\* There are finitely many sessions.
LEMMA ClosedAreFinite ==
    ASSUME NEW ss \in Seq(ASession), NEW C, C \subseteq DOMAIN ss
    PROVE  IsFiniteSet(C) /\ Cardinality(C) \in Nat /\ Cardinality(C) <= Len(ss)
  <1>1. DOMAIN ss = 1 .. Len(ss) /\ Len(ss) \in Nat  OBVIOUS
  <1>2. IsFiniteSet(1 .. Len(ss)) /\ Cardinality(1 .. Len(ss)) = Len(ss)
    <2>1. Cardinality(1 .. Len(ss)) = IF 1 > Len(ss) THEN 0 ELSE Len(ss) - 1 + 1  BY <1>1, FS_Interval
    <2>2. IsFiniteSet(1 .. Len(ss))  BY <1>1, FS_Interval
    <2>. QED BY <1>1, <2>1, <2>2
  <1>3. IsFiniteSet(C) /\ Cardinality(C) <= Cardinality(1 .. Len(ss))
    <2>1. C \in SUBSET (1 .. Len(ss))  BY <1>1
    <2>. QED BY <1>2, <2>1, FS_Subset
  <1>. QED BY <1>2, <1>3, FS_CardinalityType

\* A rate is a whole number of hundredths.
LEMMA PercentageIsInt == ASSUME NEW h \in Nat \ {0}, NEW a \in Nat PROVE Percentage(h, a) \in Int
  BY DEF Percentage

\* Counting in one statement treats everybody alike.
LEMMA FiguresAre == ASSUME ExamTyped PROVE Fair(Figures)
  <1>. DEFINE h == Cardinality(ClosedSessions)  D == {x \in Examinee : HeldFor(x) > 0}
  <1>1. ClosedSessions \subseteq DOMAIN sessions /\ sessions \in Seq(ASession)  BY DEF ClosedSessions, ExamTyped
  <1>2. IsFiniteSet(ClosedSessions) /\ h \in Nat /\ h <= MaxSessions
    <2>1. IsFiniteSet(ClosedSessions) /\ h \in Nat /\ h <= Len(sessions)  BY <1>1, ClosedAreFinite
    <2>. QED BY <2>1, EligibilityAssumption DEF ExamTyped
  <1>3. ASSUME NEW stu \in Examinee PROVE AttendedOf(stu) \in 0 .. h
    <2>. DEFINE A == {s \in ClosedSessions : <<s, stu>> \in present}
    <2>1. A \in SUBSET ClosedSessions  OBVIOUS
    <2>. HIDE DEF A
    <2>2. IsFiniteSet(A) /\ Cardinality(A) <= h  BY <1>2, <2>1, FS_Subset
    <2>3. Cardinality(A) \in Nat  BY <2>2, FS_CardinalityType
    <2>. QED BY <1>2, <2>2, <2>3 DEF AttendedOf, A
  <1>4. \A stu : HeldFor(stu) = h  BY DEF HeldFor
  <1>5. D = IF h > 0 THEN Examinee ELSE {}  BY <1>2, <1>4
  <1>6. Figures = [stu \in D |-> [held |-> h, attended |-> AttendedOf(stu), pct |-> Percentage(h, AttendedOf(stu))]]
    BY <1>4 DEF Figures
  <1>. HIDE DEF h, D
  <1>7. \A stu \in D : h \in Nat \ {0} /\ AttendedOf(stu) \in Nat /\ AttendedOf(stu) \in 0 .. h
    BY <1>2, <1>3, <1>5
  <1>8. \A stu \in D : Percentage(h, AttendedOf(stu)) \in Int  BY <1>7, PercentageIsInt
  <1>9. Figures \in [D -> FigureRow]  BY <1>6, <1>7, <1>8 DEF FigureRow
  <1>10. Figures \in Picture  BY <1>5, <1>9 DEF Picture
  <1>11. MaxSessions \in Nat  BY EligibilityAssumption
  <1>. QED BY <1>2, <1>6, <1>7, <1>10, <1>11 DEF Fair

\* Sessions and rows are only added, so figures counted later are no smaller.
LEMMA FiguresGrow ==
    ASSUME ExamTyped, ExamTyped', ClosedSessions \subseteq ClosedSessions', present \subseteq present'
    PROVE  Within(Figures, Figures')
  <1>. DEFINE C == ClosedSessions  E == ClosedSessions'
  <1>1. IsFiniteSet(E)
    <2>1. E \subseteq DOMAIN sessions' /\ sessions' \in Seq(ASession)  BY DEF ClosedSessions, ExamTyped
    <2>. HIDE DEF E
    <2>. QED BY <2>1, ClosedAreFinite
  <1>2. C \subseteq E  OBVIOUS
  <1>. HIDE DEF C, E
  <1>3. IsFiniteSet(C) /\ Cardinality(C) <= Cardinality(E) /\ Cardinality(C) \in Nat /\ Cardinality(E) \in Nat
    BY <1>1, <1>2, FS_Subset, FS_CardinalityType
  <1>4. ASSUME NEW stu
        PROVE  Cardinality({s \in C : <<s, stu>> \in present}) <= Cardinality({s \in E : <<s, stu>> \in present'})
    <2>. DEFINE A == {s \in C : <<s, stu>> \in present}  B == {s \in E : <<s, stu>> \in present'}
    <2>1. A \in SUBSET B /\ B \in SUBSET E  BY <1>2
    <2>. HIDE DEF A, B
    <2>2. IsFiniteSet(B)  BY <1>1, <2>1, FS_Subset
    <2>3. Cardinality(A) <= Cardinality(B)  BY <2>1, <2>2, FS_Subset
    <2>. QED BY <2>3 DEF A, B
  <1>5. /\ \A stu : HeldFor(stu) = Cardinality(C) /\ HeldFor(stu)' = Cardinality(E)
        /\ \A stu : AttendedOf(stu) = Cardinality({s \in C : <<s, stu>> \in present})
        /\ \A stu : AttendedOf(stu)' = Cardinality({s \in E : <<s, stu>> \in present'})
    BY DEF HeldFor, AttendedOf, C, E
  <1>6. Figures = [stu \in {x \in Examinee : Cardinality(C) > 0} |->
                      [held |-> Cardinality(C), attended |-> Cardinality({s \in C : <<s, stu>> \in present}),
                       pct |-> Percentage(Cardinality(C), Cardinality({s \in C : <<s, stu>> \in present}))]]
    BY <1>5 DEF Figures
  <1>7. Figures' = [stu \in {x \in Examinee : Cardinality(E) > 0} |->
                      [held |-> Cardinality(E), attended |-> Cardinality({s \in E : <<s, stu>> \in present'}),
                       pct |-> Percentage(Cardinality(E), Cardinality({s \in E : <<s, stu>> \in present'}))]]
    BY <1>5 DEF Figures
  <1>8. ASSUME NEW stu \in DOMAIN Figures
        PROVE  /\ stu \in DOMAIN Figures'
               /\ Figures'[stu].held >= Figures[stu].held /\ Figures'[stu].attended >= Figures[stu].attended
    <2>. DEFINE a == Cardinality({s \in C : <<s, stu>> \in present})
                b == Cardinality({s \in E : <<s, stu>> \in present'})
    <2>1. stu \in Examinee /\ Cardinality(C) > 0  BY <1>6
    <2>2. Cardinality(E) > 0  BY <1>3, <2>1
    <2>3. Figures[stu].held = Cardinality(C) /\ Figures[stu].attended = a  BY <1>6, <2>1
    <2>4. stu \in DOMAIN Figures' /\ Figures'[stu].held = Cardinality(E) /\ Figures'[stu].attended = b
      BY <1>7, <2>1, <2>2
    <2>5. a <= b  BY <1>4
    <2>. HIDE DEF a, b
    <2>. QED BY <1>3, <2>3, <2>4, <2>5
  <1>. QED BY <1>8 DEF Within

\* What is no later than an earlier picture is no later than a later one.
LEMMA WithinTrans ==
    ASSUME NEW f \in Picture, NEW g \in Picture, NEW h \in Picture, Within(f, g), Within(g, h)
    PROVE  Within(f, h)
  <1>1. \A p \in {f, g, h} : \A stu \in DOMAIN p : p[stu].held \in Nat /\ p[stu].attended \in Nat
    BY DEF Picture, FigureRow
  <1>. QED BY <1>1 DEF Within

\* A picture is no later than itself.
LEMMA WithinSelf == ASSUME NEW f \in Picture PROVE Within(f, f)
  <1>1. \A stu \in DOMAIN f : f[stu].held \in Nat /\ f[stu].attended \in Nat  BY DEF Picture, FigureRow
  <1>. QED BY <1>1 DEF Within

\* At the start nothing is held, nobody has figures and nothing is rebuilt.
LEMMA ExamInit == EligibilityInit => ExamInv
  <1>. SUFFICES ASSUME EligibilityInit PROVE ExamInv  OBVIOUS
  <1>1. NoRebuild \in ARebuild /\ NoRebuild.pc = "none"  BY DEF NoRebuild, ARebuild
  <1>2. \A r \in Session : rebuilds[r] = NoRebuild  BY DEF EligibilityInit
  <1>3. rebuilds \in [Session -> ARebuild]  BY <1>1 DEF EligibilityInit
  <1>4. DOMAIN summary = {} /\ summary \in [{} -> FigureRow]  BY DEF EligibilityInit
  <1>5. ExamTyped
    <2>1. MaxSessions \in Nat  BY EligibilityAssumption
    <2>2. sessions \in Seq(ASession) /\ Len(sessions) = 0 /\ version = 0  BY DEF EligibilityInit
    <2>. QED BY <1>3, <2>1, <2>2 DEF ExamTyped
  <1>6. Fair(summary) /\ Within(summary, Figures)  BY <1>4 DEF Fair, Within, Picture
  <1>. QED BY <1>1, <1>2, <1>5, <1>6 DEF ExamInv, RebuildInv

\* What adds sessions and rows leaves the rebuilds behind, which stay no later than the truth.
LEMMA AddingKeeps ==
    ASSUME ExamInv, ExamTyped', UNCHANGED <<holder, summary>>,
           ClosedSessions \subseteq ClosedSessions', present \subseteq present',
           \A r \in Session : rebuilds'[r].pc = "inserted" => rebuilds'[r] = rebuilds[r]
    PROVE  ExamInv'
  <1>1. Within(Figures, Figures')  BY FiguresGrow DEF ExamInv
  <1>2. Figures \in Picture /\ Figures' \in Picture
    <2>1. Fair(Figures)  BY FiguresAre DEF ExamInv
    <2>2. Fair(Figures)'  BY FiguresAre, PTL
    <2>. QED BY <2>1, <2>2 DEF Fair
  <1>3. Fair(summary') /\ Within(summary', Figures')
    <2>1. summary \in Picture /\ Within(summary, Figures) /\ Fair(summary)  BY DEF ExamInv, RebuildInv, Fair
    <2>2. Within(summary, Figures')  BY <1>1, <1>2, <2>1, WithinTrans
    <2>. QED BY <2>1, <2>2
  <1>4. ASSUME NEW r \in Session, rebuilds'[r].pc = "inserted"
        PROVE  /\ holder' = r /\ Fair(rebuilds'[r].figures)
               /\ Within(summary', rebuilds'[r].figures) /\ Within(rebuilds'[r].figures, Figures')
    <2>. DEFINE f == rebuilds[r].figures
    <2>1. rebuilds'[r] = rebuilds[r] /\ rebuilds[r].pc = "inserted"  BY <1>4
    <2>2. holder = r /\ Fair(f) /\ Within(summary, f) /\ Within(f, Figures)
      BY <2>1 DEF ExamInv, RebuildInv
    <2>. HIDE DEF f
    <2>3. Within(f, Figures')
      <3>1. f \in Picture  BY <2>2 DEF Fair
      <3>. QED BY <1>1, <1>2, <2>2, <3>1, WithinTrans
    <2>. QED BY <2>1, <2>2, <2>3 DEF f
  <1>. QED BY <1>3, <1>4 DEF ExamInv, RebuildInv, Fair, Within

\* A new session is one more, closed or open.
LEMMA SessionAdded ==
    ASSUME ExamTyped, NEW s \in Session, NEW o \in Offering, NEW st \in {"CLOSED", "ACTIVE"},
           IsNew(s), sessions' = WithSession(o, st)
    PROVE  /\ sessions' \in Seq(ASession) /\ Len(sessions') <= MaxSessions
           /\ ClosedSessions \subseteq ClosedSessions'
  <1>. DEFINE r == [offering |-> o, status |-> st]
  <1>1. r \in ASession /\ sessions' = Append(sessions, r)  BY DEF ASession, WithSession
  <1>. HIDE DEF r
  <1>2. MaxSessions \in Nat /\ sessions \in Seq(ASession)  BY EligibilityAssumption DEF ExamTyped
  <1>3. Len(sessions') = Len(sessions) + 1 /\ sessions' \in Seq(ASession)  BY <1>1, <1>2
  <1>4. Len(sessions') <= MaxSessions  BY <1>2, <1>3 DEF IsNew, Session
  <1>5. \A i \in DOMAIN sessions : i \in DOMAIN sessions' /\ sessions'[i] = sessions[i]  BY <1>1, <1>2
  <1>. QED BY <1>3, <1>4, <1>5 DEF ClosedSessions

\* One rebuild moves on.
LEMMA RebuildMoves ==
    ASSUME rebuilds \in [Session -> ARebuild], NEW r \in Session, NEW b \in ARebuild,
           rebuilds' = [rebuilds EXCEPT ![r] = b]
    PROVE  /\ rebuilds' \in [Session -> ARebuild] /\ rebuilds'[r] = b
           /\ \A q \in Session : q # r => rebuilds'[q] = rebuilds[q]
  OBVIOUS

\* The sync receiver and the gateway only add: a session, a row, the end of a session.
LEMMA WritersKeep ==
    ASSUME ExamInv, NEW s \in Session,
           \/ \E o \in Offering : UploadSession(s, o) \/ OpenOnline(s, o)
           \/ \E stu \in Examinee : \/ UploadLog(s, stu) \/ CheckInOnline(s, stu)
                                    \/ QAManualCorrection(s, stu) \/ QAStudentAttendanceImport(s, stu)
           \/ CloseOnline(s) \/ UNCHANGED eligVars
    PROVE  ExamInv'
  <1>0. ExamTyped  BY DEF ExamInv
  <1>1. UNCHANGED <<rebuilds, holder, summary, version>>
    BY DEF UploadSession, OpenOnline, UploadLog, CheckInOnline, QAManualCorrection, QAStudentAttendanceImport,
           CloseOnline, eligVars
  <1>2. present \subseteq present'
    BY DEF UploadSession, OpenOnline, UploadLog, CheckInOnline, QAManualCorrection, QAStudentAttendanceImport,
           CloseOnline, eligVars, AddRow
  <1>3. sessions' \in Seq(ASession) /\ Len(sessions') <= MaxSessions /\ ClosedSessions \subseteq ClosedSessions'
    <2>1. CASE \E o \in Offering : UploadSession(s, o) \/ OpenOnline(s, o)
      BY <1>0, <2>1, SessionAdded DEF UploadSession, OpenOnline
    <2>2. CASE CloseOnline(s)
      <3>. DEFINE r == [sessions[s] EXCEPT !.status = "CLOSED"]
      <3>1. sessions \in Seq(ASession) /\ s \in DOMAIN sessions /\ sessions' = [sessions EXCEPT ![s] = r]
        BY <1>0, <2>2 DEF ExamTyped, CloseOnline
      <3>2. r \in ASession /\ r.status = "CLOSED"
        <4>1. sessions[s] \in ASession  BY <3>1
        <4>. QED BY <4>1 DEF ASession
      <3>. HIDE DEF r
      <3>3. /\ sessions' \in Seq(ASession) /\ Len(sessions') = Len(sessions) /\ DOMAIN sessions' = DOMAIN sessions
            /\ \A i \in DOMAIN sessions : sessions'[i] = IF i = s THEN r ELSE sessions[i]
        BY <3>1, <3>2
      <3>. QED BY <1>0, <3>2, <3>3 DEF ExamTyped, ClosedSessions
    <2>3. CASE UNCHANGED sessions  BY <1>0, <2>3 DEF ExamTyped, ClosedSessions
    <2>. QED BY <2>1, <2>2, <2>3
         DEF UploadLog, CheckInOnline, QAManualCorrection, QAStudentAttendanceImport, eligVars
  <1>4. ExamTyped'  BY <1>0, <1>1, <1>3 DEF ExamTyped
  <1>. QED BY <1>1, <1>2, <1>3, <1>4, AddingKeeps

\* A rebuild that is asked for, or that starts its DELETE, has computed nothing yet.
LEMMA AskedKeeps ==
    ASSUME ExamInv, NEW r \in Session, UploadDone(r) \/ RebuildStart(r)
    PROVE  ExamInv'
  <1>1. UNCHANGED <<sessions, present, holder, summary, version>>  BY DEF UploadDone, RebuildStart
  <1>2. PICK b \in ARebuild : b.pc \in {"due", "deleting"} /\ rebuilds' = [rebuilds EXCEPT ![r] = b]
    <2>1. CASE UploadDone(r)
      <3>1. [pc |-> "due"] \in ARebuild  BY DEF ARebuild
      <3>. QED BY <2>1, <3>1 DEF UploadDone
    <2>2. CASE RebuildStart(r)
      <3>1. [pc |-> "deleting", saw |-> version] \in ARebuild  BY DEF ARebuild, ExamInv, ExamTyped
      <3>. QED BY <2>2, <3>1 DEF RebuildStart
    <2>. QED BY <2>1, <2>2
  <1>3. /\ rebuilds' \in [Session -> ARebuild] /\ rebuilds'[r] = b
        /\ \A q \in Session : q # r => rebuilds'[q] = rebuilds[q]
    BY <1>2, RebuildMoves DEF ExamInv, ExamTyped
  <1>4. ExamTyped'  BY <1>1, <1>3 DEF ExamInv, ExamTyped
  <1>5. ClosedSessions \subseteq ClosedSessions' /\ present \subseteq present'  BY <1>1 DEF ClosedSessions
  <1>. QED BY <1>1, <1>2, <1>3, <1>4, <1>5, AddingKeeps

\* The INSERT counts while nobody else holds the rows, so it is no earlier than what is published.
LEMMA InsertKeeps ==
    ASSUME ExamInv, NEW r \in Session, RebuildInsert(r)
    PROVE  ExamInv'
  <1>0. ExamTyped /\ Fair(Figures)  BY FiguresAre DEF ExamInv
  <1>1. UNCHANGED <<sessions, present, summary, version>>  BY DEF RebuildInsert
  <1>2. Figures' = Figures  BY <1>1 DEF Figures, HeldFor, AttendedOf, ClosedSessions
  <1>3. \A q \in Session : rebuilds[q].pc # "inserted"
    <2>1. holder = Nobody /\ Nobody \notin Session  BY DEF RebuildInsert, RowsAreFree, Nobody, Session
    <2>. QED BY <2>1 DEF ExamInv, RebuildInv
  <1>4. CASE Clashes(r)
    <2>1. NoRebuild \in ARebuild /\ NoRebuild.pc = "none"  BY DEF NoRebuild, ARebuild
    <2>2. /\ rebuilds' \in [Session -> ARebuild] /\ rebuilds'[r] = NoRebuild
          /\ \A q \in Session : q # r => rebuilds'[q] = rebuilds[q]
      BY <1>0, <1>4, <2>1, RebuildMoves DEF RebuildInsert, ExamTyped
    <2>3. \A q \in Session : rebuilds'[q].pc # "inserted"  BY <1>3, <2>1, <2>2
    <2>. QED BY <1>0, <1>1, <1>2, <2>2, <2>3 DEF ExamInv, ExamTyped, RebuildInv, Fair, Within
  <1>5. CASE ~Clashes(r)
    <2>. DEFINE b == [pc |-> "inserted", figures |-> Figures]
    <2>1. b \in ARebuild /\ b.figures = Figures  BY <1>0 DEF ARebuild, Fair
    <2>2. rebuilds' = [rebuilds EXCEPT ![r] = b] /\ holder' = r  BY <1>5 DEF RebuildInsert
    <2>. HIDE DEF b
    <2>3. /\ rebuilds' \in [Session -> ARebuild] /\ rebuilds'[r] = b
          /\ \A q \in Session : q # r => rebuilds'[q] = rebuilds[q]
      BY <1>0, <2>1, <2>2, RebuildMoves DEF ExamTyped
    <2>4. Within(Figures, Figures) /\ Fair(Figures)  BY <1>0, WithinSelf DEF Fair
    <2>5. Fair(summary) /\ Within(summary, Figures)  BY DEF ExamInv, RebuildInv
    <2>6. RebuildInv'  BY <1>1, <1>2, <1>3, <2>1, <2>2, <2>3, <2>4, <2>5 DEF RebuildInv, Fair, Within
    <2>. QED BY <1>0, <1>1, <2>3, <2>6 DEF ExamInv, ExamTyped
  <1>. QED BY <1>4, <1>5

\* The commit publishes what the one holder counted.
LEMMA CommitKeepsFigures ==
    ASSUME ExamInv, NEW r \in Session, RebuildCommit(r)
    PROVE  ExamInv' /\ Within(summary, summary')
  <1>0. ExamTyped  BY DEF ExamInv
  <1>. DEFINE f == rebuilds[r].figures
  <1>1. UNCHANGED <<sessions, present>> /\ summary' = f /\ version' = version + 1  BY DEF RebuildCommit
  <1>2. rebuilds[r].pc = "inserted"  BY DEF RebuildCommit
  <1>3. holder = r /\ Fair(f) /\ Within(summary, f) /\ Within(f, Figures)  BY <1>2 DEF ExamInv, RebuildInv
  <1>4. Figures' = Figures  BY <1>1 DEF Figures, HeldFor, AttendedOf, ClosedSessions
  <1>5. NoRebuild \in ARebuild /\ NoRebuild.pc = "none"  BY DEF NoRebuild, ARebuild
  <1>6. /\ rebuilds' \in [Session -> ARebuild] /\ rebuilds'[r] = NoRebuild
        /\ \A q \in Session : q # r => rebuilds'[q] = rebuilds[q]
    BY <1>0, <1>5, RebuildMoves DEF RebuildCommit, ExamTyped
  <1>7. \A q \in Session : rebuilds'[q].pc # "inserted"  BY <1>3, <1>5, <1>6 DEF ExamInv, RebuildInv
  <1>8. ExamTyped'  BY <1>0, <1>1, <1>6 DEF ExamTyped
  <1>. HIDE DEF f
  <1>9. Fair(summary)' /\ Within(summary, Figures)'  BY <1>1, <1>3, <1>4 DEF Fair, Within
  <1>. QED BY <1>1, <1>3, <1>7, <1>8, <1>9 DEF ExamInv, RebuildInv

\* Every step keeps the invariant, and publishes no older picture.
LEMMA ExamStep ==
    ASSUME ExamInv, [EligibilityNext]_eligVars
    PROVE  ExamInv' /\ Within(summary, summary')
  <1>1. ASSUME UNCHANGED summary PROVE Within(summary, summary')
    <2>1. summary \in Picture  BY DEF ExamInv, RebuildInv, Fair
    <2>. QED BY <1>1, <2>1, WithinSelf
  <1>2. CASE UNCHANGED eligVars
    <2>1. CASE Session = {}
      <3>1. ExamTyped'  BY <1>2, <2>1 DEF ExamInv, ExamTyped, eligVars
      <3>. QED BY <1>1, <1>2, <2>1, <3>1, AddingKeeps DEF eligVars, ClosedSessions
    <2>2. CASE Session # {}
      <3>1. PICK s \in Session : TRUE  BY <2>2
      <3>. QED BY <1>1, <1>2, WritersKeep DEF eligVars
    <2>. QED BY <2>1, <2>2
  <1>3. ASSUME NEW s \in Session,
               \/ \E o \in Offering : UploadSession(s, o) \/ OpenOnline(s, o)
               \/ \E stu \in Examinee : \/ UploadLog(s, stu) \/ CheckInOnline(s, stu)
                                        \/ QAManualCorrection(s, stu) \/ QAStudentAttendanceImport(s, stu)
               \/ CloseOnline(s)
        PROVE  ExamInv' /\ Within(summary, summary')
    <2>1. UNCHANGED summary
      BY <1>3 DEF UploadSession, OpenOnline, UploadLog, CheckInOnline, QAManualCorrection,
                  QAStudentAttendanceImport, CloseOnline
    <2>. QED BY <1>1, <1>3, <2>1, WritersKeep
  <1>4. ASSUME NEW s \in Session, UploadDone(s) \/ RebuildStart(s) PROVE ExamInv' /\ Within(summary, summary')
    BY <1>1, <1>4, AskedKeeps DEF UploadDone, RebuildStart
  <1>5. ASSUME NEW s \in Session, RebuildInsert(s) PROVE ExamInv' /\ Within(summary, summary')
    BY <1>1, <1>5, InsertKeeps DEF RebuildInsert
  <1>. QED BY <1>2, <1>3, <1>4, <1>5, CommitKeepsFigures DEF EligibilityNext

\* The invariant holds of every run.
LEMMA ExamInvHolds == EligibilitySpec => []ExamInv
  BY ExamInit, ExamStep, PTL DEF EligibilitySpec

\* However many rebuilds overlap, of any number of sessions, rows and students: a commit never puts an older picture
\* over a newer one (refresh_attendance_summary: the DELETE's row locks let one rebuild count at a time).
THEOREM SummaryNeverGoesBackAlways == EligibilitySpec => SummaryNeverGoesBack
  <1>1. ExamInv /\ [EligibilityNext]_eligVars =>
          [\A stu \in DOMAIN summary :
              /\ stu \in DOMAIN summary'
              /\ summary'[stu].held >= summary[stu].held /\ summary'[stu].attended >= summary[stu].attended]_eligVars
    BY ExamStep DEF Within
  <1>. QED BY <1>1, ExamInvHolds, PTL DEF EligibilitySpec, SummaryNeverGoesBack

-----------------------------------------------------------------------------
(* Eligibility: what 75 % is *)

\* Rounded to two decimals a rate reaches 75.00 exactly when it is at least three quarters, as long as a half
\* hundredth of a per cent is less than a session.
LEMMA RoundingIsExact ==
    ASSUME NEW h \in Nat, NEW a \in Nat, h >= 1, h < 5000, a <= h
    PROVE  Percentage(h, a) >= 7500 <=> 4 * a >= 3 * h
  <1>. DEFINE n == 2 * h  x == 20000 * a + h  q == x \div n
  <1>1. n \in Nat \ {0} /\ x \in Int /\ q = Percentage(h, a)  BY DEF Percentage
  <1>2. q \in Int /\ x % n \in 0 .. (n - 1) /\ x = n * q + (x % n)
    <2>1. n \in Nat \ {0} /\ x \in Int  OBVIOUS
    <2>. HIDE DEF n, x
    <2>. QED BY <2>1, Division
  <1>3. CASE q >= 7500
    <2>1. n * 7500 <= n * q
      <3>1. 7500 < q => n * 7500 + n <= n * q  BY <1>1, <1>2, Multiples
      <3>. QED BY <1>1, <1>2, <1>3, <3>1
    <2>. DEFINE y == n * q  r == x % n
    <2>2. y \in Int /\ r \in Int /\ x = y + r /\ r >= 0 /\ n * 7500 <= y  BY <1>1, <1>2, <2>1
    <2>3. 15000 * h <= y
      <3>1. n * 7500 = 15000 * h  OBVIOUS
      <3>. HIDE DEF y, n
      <3>. QED BY <2>2, <3>1
    <2>. HIDE DEF y, r, n, q
    <2>4. 20000 * a + h >= 15000 * h  BY <2>2, <2>3
    <2>5. 4 * a >= 3 * h  BY <2>4
    <2>. QED BY <1>1, <1>3, <2>5
  <1>4. CASE q < 7500
    <2>1. n * q + n <= n * 7500  BY <1>1, <1>2, <1>4, Multiples
    <2>. DEFINE y == n * q  r == x % n
    <2>2. y \in Int /\ x = y + r /\ r < n /\ y + n <= n * 7500  BY <1>1, <1>2, <2>1
    <2>3. y + n <= 15000 * h
      <3>1. n * 7500 = 15000 * h  OBVIOUS
      <3>. HIDE DEF y, n
      <3>. QED BY <2>2, <3>1
    <2>4. r \in Int /\ n \in Int  BY <1>1, <1>2
    <2>. HIDE DEF y, r, n, q
    <2>5. 20000 * a + h < 15000 * h  BY <2>2, <2>3, <2>4
    <2>6. 4 * a < 3 * h  BY <2>5
    <2>. QED BY <1>1, <1>2, <1>4, <2>6
  <1>. QED BY <1>2, <1>3, <1>4

\* Go's int(0.75 h + 0.999) and the database's CEIL(0.75 h) are the same whole number, three quarters rounded up.
LEMMA CeilingsAgree ==
    ASSUME NEW h \in Nat
    PROVE  /\ (750 * h + 999) \div 1000 = -((-75 * h) \div 100)
           /\ 4 * ((750 * h + 999) \div 1000) >= 3 * h
           /\ 4 * ((750 * h + 999) \div 1000) < 3 * h + 4
  OBVIOUS

\* What the pages make of a student's row, whoever the student is.
LEMMA RowIsExact ==
    ASSUME MaxSessions < 5000, NEW row \in FigureRow, row.held \in 1 .. MaxSessions, row.attended \in 0 .. row.held,
           row.pct = Percentage(row.held, row.attended)
    PROVE  /\ Reaches(row) <=> ~(row.pct < 100 * Threshold)
           /\ Reaches(row) <=> 4 * row.attended >= 3 * row.held
           /\ UnitDeficit(row) = CeilDeficit(row)
           /\ 4 * (row.attended + UnitDeficit(row)) >= 3 * row.held
           /\ UnitDeficit(row) > 0 => 4 * (row.attended + UnitDeficit(row) - 1) < 3 * row.held
  <1>. DEFINE h == row.held  a == row.attended  p == row.pct
  <1>1. MaxSessions \in Nat /\ h \in 1 .. MaxSessions /\ a \in 0 .. h /\ p \in Int /\ p = Percentage(h, a)
    BY EligibilityAssumption DEF FigureRow
  <1>2. /\ Reaches(row) <=> p >= 7500
        /\ p < 100 * Threshold <=> p < 7500
    BY DEF Reaches, Threshold
  <1>3. /\ UnitDeficit(row) = IF Reaches(row) \/ (750 * h + 999) \div 1000 - a < 0
                              THEN 0 ELSE (750 * h + 999) \div 1000 - a
        /\ CeilDeficit(row) = IF -((-75 * h) \div 100) - a < 0 THEN 0 ELSE -((-75 * h) \div 100) - a
    BY DEF UnitDeficit, CeilDeficit, Threshold
  <1>4. /\ Reaches(row) <=> ~(p < 100 * Threshold)
        /\ Reaches(row) <=> 4 * a >= 3 * h
        /\ UnitDeficit(row) = CeilDeficit(row)
        /\ 4 * (a + UnitDeficit(row)) >= 3 * h
        /\ UnitDeficit(row) > 0 => 4 * (a + UnitDeficit(row) - 1) < 3 * h
    <2>. HIDE DEF h, a, p
    <2>1. h \in 1 .. 4999 /\ a \in Nat /\ h \in Nat  BY <1>1
    <2>2. Percentage(h, a) >= 7500 <=> 4 * a >= 3 * h
      <3>1. h \in Nat /\ a \in Nat /\ h >= 1 /\ h < 5000 /\ a <= h  BY <1>1, <2>1
      <3>. QED BY ONLY <3>1, RoundingIsExact
    <2>3. p >= 7500 <=> 4 * a >= 3 * h  BY <1>1, <2>2
    <2>. DEFINE c == (750 * h + 999) \div 1000  d == -((-75 * h) \div 100)
    <2>4. c = d /\ 4 * c >= 3 * h /\ 4 * c < 3 * h + 4 /\ c \in Int  BY <2>1, CeilingsAgree
    <2>5. /\ UnitDeficit(row) = IF Reaches(row) \/ c - a < 0 THEN 0 ELSE c - a
          /\ CeilDeficit(row) = IF d - a < 0 THEN 0 ELSE d - a
      BY <1>3
    <2>. HIDE DEF c, d
    <2>6. Reaches(row) <=> ~(p < 100 * Threshold)  BY <1>1, <1>2
    <2>7. Reaches(row) <=> 4 * a >= 3 * h  BY <1>2, <2>3
    <2>8. UnitDeficit(row) = CeilDeficit(row)  BY <2>1, <2>4, <2>5, <2>7
    <2>9. 4 * (a + UnitDeficit(row)) >= 3 * h  BY <2>1, <2>4, <2>5, <2>7
    <2>10. UnitDeficit(row) > 0 => 4 * (a + UnitDeficit(row) - 1) < 3 * h  BY <2>1, <2>4, <2>5, <2>7
    <2>. QED BY <2>6, <2>7, <2>8, <2>9, <2>10
  <1>. QED BY <1>4

\* However uploads, corrections, online check-ins and rebuilds interleave, of any number of students: whoever is in
\* the figures is measured by the same classes as everybody else, the decision and the advice agree, and the counts
\* add up.  Beyond 5000 sessions it is not so: 3752 of 5003 are less than three quarters and are rounded to 75.00
\* (046_fix_attendance_summary.sql; clearance.go, reporting.go, dqa.go).
THEOREM FiguresAreFairAlways == ASSUME MaxSessions < 5000 PROVE EligibilitySpec => []FiguresAreFair
  <1>1. ASSUME ExamInv PROVE EveryoneIsMeasured
    <2>1. Fair(summary)  BY <1>1 DEF ExamInv, RebuildInv
    <2>2. DOMAIN summary # {} => DOMAIN summary = Examinee  BY <2>1 DEF Fair, Picture
    <2>. QED BY <2>1, <2>2 DEF EveryoneIsMeasured, Fair
  <1>2. ASSUME ExamInv PROVE ClearanceIsExact
    <2>1. Fair(summary)  BY <1>2 DEF ExamInv, RebuildInv
    <2>2. \A stu \in DOMAIN summary : summary[stu] \in FigureRow  BY <2>1 DEF Fair, Picture
    <2>3. ASSUME NEW stu \in DOMAIN summary
          PROVE  LET row == summary[stu] IN
                 /\ Reaches(row) <=> ~(row.pct < 100 * Threshold)
                 /\ Reaches(row) <=> 4 * row.attended >= 3 * row.held
                 /\ UnitDeficit(row) = CeilDeficit(row)
                 /\ 4 * (row.attended + UnitDeficit(row)) >= 3 * row.held
                 /\ UnitDeficit(row) > 0 => 4 * (row.attended + UnitDeficit(row) - 1) < 3 * row.held
      <3>. DEFINE row == summary[stu]
      <3>1. /\ row \in FigureRow /\ row.held \in 1 .. MaxSessions /\ row.attended \in 0 .. row.held
            /\ row.pct = Percentage(row.held, row.attended)
        BY <2>1, <2>2 DEF Fair
      <3>. HIDE DEF row
      <3>. QED BY <3>1, RowIsExact DEF row
    <2>4. \A stu \in DOMAIN summary :
            /\ stu \in TokenHolders <=> stu \notin BelowThreshold
            /\ stu \in TokenHolders <=> UnitsAtRisk(stu) = 0
            /\ stu \in TokenHolders <=> Reaches(summary[stu])
      BY <2>3 DEF TokenHolders, BelowThreshold, UnitsAtRisk
    <2>5. EligibleCount = Cardinality(TokenHolders) /\ IneligibleCount = Cardinality(BelowThreshold)
      BY DEF EligibleCount, IneligibleCount, TokenHolders, BelowThreshold
    <2>6. Cardinality(TokenHolders) + Cardinality(BelowThreshold) = Cardinality(DOMAIN summary)
      <3>1. IsFiniteSet(DOMAIN summary)
        <4>1. DOMAIN summary = Examinee \/ DOMAIN summary = {}  BY <2>1 DEF Fair, Picture
        <4>. QED BY <4>1, EligibilityAssumption, FS_EmptySet
      <3>2. /\ TokenHolders \cup BelowThreshold = DOMAIN summary /\ TokenHolders \cap BelowThreshold = {}
            /\ TokenHolders \in SUBSET (DOMAIN summary) /\ BelowThreshold \in SUBSET (DOMAIN summary)
        BY <2>4 DEF TokenHolders, BelowThreshold
      <3>. DEFINE A == TokenHolders  B == BelowThreshold
      <3>. HIDE DEF A, B
      <3>3. IsFiniteSet(A) /\ IsFiniteSet(B)  BY <3>1, <3>2, FS_Subset DEF A, B
      <3>4. Cardinality(A \cup B) = Cardinality(A) + Cardinality(B) - Cardinality(A \cap B)  BY <3>3, FS_Union
      <3>5. Cardinality(A \cap B) = 0  BY <3>2, FS_EmptySet DEF A, B
      <3>6. Cardinality(A) \in Nat /\ Cardinality(B) \in Nat  BY <3>3, FS_CardinalityType
      <3>7. Cardinality(A \cup B) = Cardinality(A) + Cardinality(B)  BY <3>4, <3>5, <3>6
      <3>. QED BY <3>2, <3>7 DEF A, B
    <2>. QED BY <2>3, <2>4, <2>5, <2>6 DEF ClearanceIsExact
  <1>3. ExamInv => FiguresAreFair  BY <1>1, <1>2 DEF FiguresAreFair
  <1>. QED BY <1>3, ExamInvHolds, PTL

=============================================================================
