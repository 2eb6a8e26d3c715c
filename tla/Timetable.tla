------------------------------ MODULE Timetable ------------------------------
(***************************************************************************)
(* The timetable and what is read off it: the grid editor, the schedule    *)
(* editors, the file import, the room registry, the cohorts and their      *)
(* coordinators, the coordinators' cached manifests, the code two          *)
(* coordinators of one lecture share, and the list of free rooms.          *)
(* One weekday of DayLen hours; names, levels, the weekend rule and the    *)
(* department a timetabler is confined to are left out.  A request is      *)
(* several statements and requests overlap; no transaction holds them      *)
(* together.                                                               *)
(***************************************************************************)
EXTENDS Integers, FiniteSets, Functions

CONSTANTS Editor,   \* requests that change the timetable
          Group, CourseUnit, Lecturer, Room, Coord,
          Issuer,   \* requests that ask for the code of a lecture
          Code,     \* four digit codes
          NoOne,    \* no lecturer, no room, no venue, no coordinator
          DayLen,   \* hours of the day
          Starts,   \* bound: hours a lecture starts at
          Asked,    \* bound: the slots requests ask for
          Tries,    \* 40 in getOrCreateDailyCode
          MaxSlotEdits  \* bound: requests made

ASSUME TimetableAssumption ==
    /\ {DayLen, Tries, MaxSlotEdits} \subseteq Nat \ {0} /\ Starts \subseteq 0 .. DayLen - 1
    /\ \A a \in Asked : /\ a.key \in Group \X CourseUnit \X Starts /\ a.dur \in Nat \ {0}
                        /\ a.room \in Room \cup {NoOne} /\ a.lect \in Lecturer \cup {NoOne}
    /\ NoOne \notin Lecturer \cup Room \cup Coord \cup Code

VARIABLES side,    \* "grid" or "code"
          slots,   \* timetable_slots: <<cohort, unit, start>> to its row
          sched,   \* offering_unit_schedules: <<cohort, unit>> to start, and if it is locked
          coordOf, \* course_offerings: a cohort's coordinator; a cohort not offered is missing
          venues,  \* venues: a registered room and if it is active
          job,     \* the request each editor has under way
          slotEdits,   \* requests begun
          built,   \* the manifest a coordinator's request has built and not yet cached
          cache,   \* Redis: the manifest of a coordinator
          codes,   \* lecturer_daily_codes: lecture to code
          issued   \* where a request for a code stands

ttVars == <<side, slots, sched, coordOf, venues, job, slotEdits, built, cache, codes, issued>>

NoJob == [pc |-> "none"]
slotKeys == Group \X CourseUnit \X Starts

TimetableInit ==
    /\ side \in {"grid", "code"}
    /\ slots \in IF side = "grid" THEN {<<>>}
                 ELSE {[k \in slotKeys |-> [dur |-> 1, room |-> NoOne, venue |-> NoOne, lect |-> l]] : l \in Lecturer}
    /\ sched = <<>> /\ venues = <<>>
    \* some cohorts are not offered yet
    /\ \E offered \in IF side = "grid" THEN SUBSET Group ELSE {Group} : coordOf \in [offered -> Coord]
    /\ IsInjective(coordOf)
    /\ job = [e \in Editor |-> NoJob] /\ slotEdits = 0
    /\ built = [k \in Coord |-> NoJob] /\ cache = [k \in Coord |-> NoJob]
    /\ codes = <<>> /\ issued = [i \in Issuer |-> NoJob]

-----------------------------------------------------------------------------
(* Who clashes with whom *)

\* time + interval of Postgres comes round at midnight
WrapEnd(s, d) == (s + d) % DayLen
TimesClash(s, d, k, r) == k[3] < WrapEnd(s, d) /\ s < WrapEnd(k[3], r.dur)
CohortClash(j) ==
    \E k \in DOMAIN slots : k[1] = j.key[1] /\ k # j.key /\ TimesClash(j.key[3], j.dur, k, slots[k])
\* The grid lets two cohorts of one lecturer share a room, the import does not
RoomClash(j) ==
    /\ j.room # NoOne
    /\ \E k \in DOMAIN slots : /\ slots[k].room = j.room /\ k # j.key
                               /\ TimesClash(j.key[3], j.dur, k, slots[k])
                               /\ j.what = "import" \/ slots[k].lect # j.lect
\* The constraint of the table: by lecturer, and not coming round
NoConstraint(k, r) == FALSE
DoubleBooking(k, r) ==
    /\ r.room # NoOne
    /\ \E x \in DOMAIN slots \ {k} : /\ slots[x].room = r.room /\ slots[x].lect # r.lect
                                     /\ x[3] < k[3] + r.dur /\ k[3] < x[3] + slots[x].dur

\* resolveVenueSQL
ResolveVenue(room) == IF room \in DOMAIN venues THEN room ELSE NoOne
\* An omitted lecturer leaves the one there is
Upsert(k, dur, room, lect) ==
    [dur |-> dur, room |-> room, venue |-> ResolveVenue(room),
     lect |-> IF lect = NoOne /\ k \in DOMAIN slots THEN slots[k].lect ELSE lect]
PutRow(f, k, v) == [x \in DOMAIN f \cup {k} |-> IF x = k THEN v ELSE f[x]]
Without(f, ks) == Restrict(f, DOMAIN f \ ks)

-----------------------------------------------------------------------------
(* Requests of the editors *)

Goes(e, j) == job' = [job EXCEPT ![e] = j]
At(e, what, pc) == job[e] # NoJob /\ job[e].what = what /\ job[e].pc = pc
aside == UNCHANGED <<side, coordOf, venues, codes, issued>>
\* A table changed while a manifest is being built
Overtaken(b) == [k \in Coord |-> IF b[k] = NoJob THEN NoJob ELSE [b[k] EXCEPT !.clean = FALSE]]
Bust(ks) == cache' = [k \in Coord |-> IF k \in ks THEN NoJob ELSE cache[k]]

WithCohort(c) == IF c \in DOMAIN coordOf THEN coordOf ELSE PutRow(coordOf, c, NoOne)
\* UpsertTimetableSlot, or a row of processTimetableCSV; what the caller named
BeginSlot(e, what, a) ==
    /\ job[e] = NoJob /\ slotEdits < MaxSlotEdits /\ slotEdits' = slotEdits + 1
    /\ Goes(e, [what |-> what, pc |-> "cohort", key |-> a.key, dur |-> a.dur, room |-> a.room, lect |-> a.lect,
                coord |-> IF a.key[1] \in DOMAIN coordOf THEN coordOf[a.key[1]] ELSE NoOne])
    \* the import makes the cohort it does not find
    /\ coordOf' = IF what = "import" THEN WithCohort(a.key[1]) ELSE coordOf
    /\ UNCHANGED <<side, slots, sched, venues, built, cache, codes, issued>>
CheckCohort(e) ==
    /\ job[e].pc = "cohort"
    /\ Goes(e, IF ~CohortClash(job[e]) THEN [job[e] EXCEPT !.pc = "room"]
               ELSE IF job[e].what = "import" THEN [job[e] EXCEPT !.pc = "bust"] ELSE NoJob)
    /\ UNCHANGED <<slots, sched, slotEdits, built, cache>> /\ aside
CheckRoom(e) ==
    /\ job[e].pc = "room"
    /\ Goes(e, IF ~RoomClash(job[e]) THEN [job[e] EXCEPT !.pc = "write"]
               ELSE IF job[e].what = "import" THEN [job[e] EXCEPT !.pc = "bust"] ELSE NoJob)
    /\ UNCHANGED <<slots, sched, slotEdits, built, cache>> /\ aside
WriteSlot(e) ==
    LET j == job[e]
        row == Upsert(j.key, j.dur, j.room, j.lect) IN
    /\ j.pc = "write"
    /\ IF j.key[1] \notin DOMAIN coordOf \/ DoubleBooking(j.key, row)
       THEN /\ Goes(e, IF j.what = "import" THEN [j EXCEPT !.pc = "bust"] ELSE NoJob)
            /\ UNCHANGED <<slots, built>>
       ELSE /\ slots' = PutRow(slots, j.key, row) /\ built' = Overtaken(built)
            /\ Goes(e, [j EXCEPT !.pc = "bust"])
    /\ UNCHANGED <<sched, slotEdits, cache>> /\ aside
\* A further row of the file
NextRow(e, a) ==
    /\ At(e, "import", "bust") /\ slotEdits < MaxSlotEdits /\ slotEdits' = slotEdits + 1
    /\ Goes(e, [job[e] EXCEPT !.pc = "cohort", !.key = a.key, !.dur = a.dur, !.room = a.room, !.lect = a.lect])
    /\ coordOf' = WithCohort(a.key[1])
    /\ UNCHANGED <<side, slots, sched, venues, built, cache, codes, issued>>
\* bustCoordinatorManifest after one slot, bustTenantManifests after a file or a deletion
EditedOnly(j) == IF j.what \in {"import", "delete"} THEN {} ELSE {j.coord}
BustScope(j) == IF j.what \in {"import", "delete"} THEN Coord ELSE {j.coord}
BustManifests(e) ==
    /\ job[e].pc = "bust" /\ Bust(BustScope(job[e])) /\ Goes(e, NoJob)
    /\ UNCHANGED <<slots, sched, slotEdits, built>> /\ aside

DeleteTimetableSlot(e, key) ==
    /\ job[e] = NoJob /\ slotEdits < MaxSlotEdits /\ slotEdits' = slotEdits + 1 /\ key \in DOMAIN slots
    /\ slots' = Without(slots, {key}) /\ built' = Overtaken(built)
    /\ Goes(e, [what |-> "delete", pc |-> "bust"])
    /\ UNCHANGED <<sched, cache>> /\ aside

\* SetTimetableSchedule: the schedule, the slot, the slots it had, the cache; hour is a
\* start or NoOne, and a duration of 0 is allowed but no row may have it
SetTimetableSchedule(e, c, u, hour, dur) ==
    /\ job[e] = NoJob /\ slotEdits < MaxSlotEdits /\ slotEdits' = slotEdits + 1 /\ c \in DOMAIN coordOf
    /\ sched' = PutRow(sched, <<c, u>>, [start |-> hour, locked |-> TRUE])
    /\ Goes(e, [what |-> "schedule", pc |-> "slot", key |-> <<c, u, hour>>, dur |-> dur, coord |-> coordOf[c]])
    /\ built' = Overtaken(built) /\ UNCHANGED <<slots, cache>> /\ aside
ScheduleSlot(e) ==
    LET j == job[e]
        old == IF j.key \in DOMAIN slots THEN slots[j.key]
               ELSE [dur |-> 0, room |-> NoOne, venue |-> NoOne, lect |-> NoOne]
        row == [old EXCEPT !.dur = j.dur] IN
    /\ At(e, "schedule", "slot")
    /\ IF j.key[3] = NoOne
       THEN Goes(e, [j EXCEPT !.pc = "old"]) /\ UNCHANGED <<slots, built>>
       ELSE IF j.dur = 0 \/ j.key[1] \notin DOMAIN coordOf \/ DoubleBooking(j.key, row)
            THEN Goes(e, NoJob) /\ UNCHANGED <<slots, built>>
            ELSE /\ slots' = PutRow(slots, j.key, row) /\ built' = Overtaken(built)
                 /\ Goes(e, [j EXCEPT !.pc = "old"])
    /\ UNCHANGED <<sched, slotEdits, cache>> /\ aside
DropOldSlots(e) ==
    LET j == job[e] IN
    /\ At(e, "schedule", "old")
    /\ slots' = Without(slots, {k \in DOMAIN slots : k[1] = j.key[1] /\ k[2] = j.key[2] /\ k # j.key})
    /\ built' = Overtaken(built) /\ Goes(e, [j EXCEPT !.pc = "bust"])
    /\ UNCHANGED <<sched, slotEdits, cache>> /\ aside

\* SetUnitSchedule: the coordinator sets a schedule once
SetUnitSchedule(e, c, u, hour) ==
    /\ job[e] = NoJob /\ slotEdits < MaxSlotEdits /\ slotEdits' = slotEdits + 1
    /\ c \in DOMAIN coordOf /\ coordOf[c] # NoOne
    /\ IF <<c, u>> \in DOMAIN sched /\ sched[<<c, u>>].locked
       THEN UNCHANGED <<sched, job, built>>
       ELSE /\ sched' = PutRow(sched, <<c, u>>, [start |-> hour, locked |-> TRUE]) /\ built' = Overtaken(built)
            /\ Goes(e, [what |-> "unit", pc |-> "bust", coord |-> coordOf[c]])
    /\ UNCHANGED <<slots, cache>> /\ aside

-----------------------------------------------------------------------------
(* Cohorts and rooms; none of these busts a manifest *)

\* the manifests of coordinators whose cohort was changed under them
Unsettled(m, ks) == [k \in Coord |-> IF k \in ks /\ m[k] # NoJob THEN [m[k] EXCEPT !.clean = FALSE] ELSE m[k]]
registry == UNCHANGED <<side, job, codes, issued>>

\* CreateOffering, UpdateOffering: a coordinator has one cohort
SaveOffering(c, k) ==
    /\ slotEdits < MaxSlotEdits /\ slotEdits' = slotEdits + 1
    /\ k = NoOne \/ \A x \in DOMAIN coordOf \ {c} : coordOf[x] # k
    /\ coordOf' = PutRow(coordOf, c, k)
    /\ LET moved == {k} \cup (IF c \in DOMAIN coordOf THEN {coordOf[c]} ELSE {}) IN
       built' = Unsettled(built, moved) /\ cache' = Unsettled(cache, moved)
    /\ UNCHANGED <<slots, sched, venues>> /\ registry
DeleteOffering(c) ==
    /\ slotEdits < MaxSlotEdits /\ slotEdits' = slotEdits + 1 /\ c \in DOMAIN coordOf
    /\ coordOf' = Without(coordOf, {c})
    /\ slots' = Without(slots, {k \in DOMAIN slots : k[1] = c})
    /\ sched' = Without(sched, {k \in DOMAIN sched : k[1] = c})
    /\ built' = Unsettled(Overtaken(built), {coordOf[c]}) /\ cache' = Unsettled(cache, {coordOf[c]})
    /\ UNCHANGED venues /\ registry

RegisterRoom(r, active) ==
    /\ slotEdits < MaxSlotEdits /\ slotEdits' = slotEdits + 1 /\ venues' = PutRow(venues, r, active)
    /\ UNCHANGED <<slots, sched, coordOf, built, cache>> /\ registry
CreateRoom(r, active) == r \notin DOMAIN venues /\ RegisterRoom(r, active)
UpdateRoom(r, active) == r \in DOMAIN venues /\ RegisterRoom(r, active)
\* processRoomsUpload: a row makes the room or changes it
ImportRoom(r, active) == RegisterRoom(r, active)
\* DeleteRoom counts, then deletes; a slot booked in between loses its venue
CountRoomUse(e, r) ==
    /\ job[e] = NoJob /\ slotEdits < MaxSlotEdits /\ slotEdits' = slotEdits + 1 /\ r \in DOMAIN venues
    /\ \A k \in DOMAIN slots : slots[k].venue # r
    /\ Goes(e, [what |-> "room", pc |-> "drop", room |-> r])
    /\ UNCHANGED <<slots, sched, built, cache>> /\ aside
DeleteRoom(e) ==
    /\ At(e, "room", "drop") /\ Goes(e, NoJob)
    /\ venues' = Without(venues, {job[e].room})
    /\ slots' = [k \in DOMAIN slots |-> IF slots[k].venue = job[e].room
                                        THEN [slots[k] EXCEPT !.venue = NoOne] ELSE slots[k]]
    /\ UNCHANGED <<side, sched, coordOf, slotEdits, built, cache, codes, issued>>

-----------------------------------------------------------------------------
(* ManifestDaily *)

GroupsOf(k) == {c \in DOMAIN coordOf : coordOf[c] = k}
WeekOf(k) == {<<s, slots[s].dur, slots[s].room, slots[s].lect>> : s \in {s \in DOMAIN slots : s[1] \in GroupsOf(k)}}
\* manifestSlotsQuery, scanManifestSlots: one lecturer, one room, one hour, another slot
CombinedOf(k) ==
    {s \in DOMAIN slots : /\ s[1] \in GroupsOf(k) /\ slots[s].room # NoOne /\ slots[s].lect # NoOne
                          /\ \E o \in DOMAIN slots \ {s} : /\ o[3] = s[3] /\ slots[o].lect = slots[s].lect
                                                           /\ slots[o].room = slots[s].room}
\* A request that has yet to write, and will bust the coordinator its cohort had when it began
Misdirected(e, k) ==
    /\ job[e].pc \in {"cohort", "room", "write", "slot", "old"} /\ job[e].what # "import"
    /\ job[e].key[1] \in GroupsOf(k) /\ job[e].coord # k
\* buildManifest, its queries taken together
BuildManifest(k) ==
    /\ cache[k] = NoJob /\ built[k] = NoJob
    /\ built' = [built EXCEPT ![k] = [week |-> WeekOf(k), combined |-> CombinedOf(k),
                                       clean |-> \A e \in Editor : ~Misdirected(e, k)]]
    /\ UNCHANGED <<slots, sched, coordOf, venues, slotEdits, cache>> /\ registry
CacheManifest(k) ==
    /\ built[k] # NoJob
    /\ cache' = [cache EXCEPT ![k] = built[k]] /\ built' = [built EXCEPT ![k] = NoJob]
    /\ UNCHANGED <<slots, sched, coordOf, venues, slotEdits>> /\ registry

-----------------------------------------------------------------------------
(* lectureShareCode, getOrCreateDailyCode; a lecture is a lecturer and an hour *)

LectureIsShared(l, h) ==
    Cardinality({k[1] : k \in {k \in DOMAIN slots : k[3] = h /\ slots[k].lect = l}}) >= 2
Issues(i, r) == issued' = [issued EXCEPT ![i] = r]
codeOnly == UNCHANGED <<side, slots, sched, coordOf, venues, job, slotEdits, built, cache>>
FindCode(i, l, h) ==
    /\ issued[i] = NoJob /\ LectureIsShared(l, h)
    /\ Issues(i, IF <<l, h>> \in DOMAIN codes THEN [pc |-> "told", lec |-> <<l, h>>, code |-> codes[<<l, h>>]]
                 ELSE [pc |-> "insert", lec |-> <<l, h>>, left |-> Tries])
    /\ UNCHANGED codes /\ codeOnly
\* Neither index lets a second code of the lecture or a second owner of the code in
OnlyOwnerIndex(lec, c) == \E x \in DOMAIN codes : codes[x] = c
CodeConflict(lec, c) == lec \in DOMAIN codes \/ \E x \in DOMAIN codes : codes[x] = c
InsertCode(i, c) ==
    /\ issued[i].pc = "insert"
    /\ codes' = IF CodeConflict(issued[i].lec, c) THEN codes ELSE PutRow(codes, issued[i].lec, c)
    /\ Issues(i, [issued[i] EXCEPT !.pc = "again", !.left = @ - 1]) /\ codeOnly
ReadCode(i) ==
    LET j == issued[i] IN
    /\ j.pc = "again"
    /\ Issues(i, IF j.lec \in DOMAIN codes THEN [pc |-> "told", lec |-> j.lec, code |-> codes[j.lec]]
                 ELSE IF j.left > 0 THEN [j EXCEPT !.pc = "insert"]
                 ELSE [pc |-> "told", lec |-> j.lec, code |-> NoOne])
    /\ UNCHANGED codes /\ codeOnly

-----------------------------------------------------------------------------
GridNext ==
    \/ \E e \in Editor :
          \/ \E a \in Asked : NextRow(e, a) \/ \E what \in {"grid", "import"} : BeginSlot(e, what, a)
          \/ CheckCohort(e) \/ CheckRoom(e) \/ WriteSlot(e) \/ BustManifests(e)
          \/ ScheduleSlot(e) \/ DropOldSlots(e) \/ DeleteRoom(e)
          \/ \E key \in slotKeys : DeleteTimetableSlot(e, key)
          \/ \E c \in Group, u \in CourseUnit, h \in Starts :
                SetUnitSchedule(e, c, u, h) \/ SetTimetableSchedule(e, c, u, NoOne, 1)
                \/ \E dur \in {0, 1} : SetTimetableSchedule(e, c, u, h, dur)
          \/ \E r \in Room : CountRoomUse(e, r)
    \/ \E c \in Group : DeleteOffering(c) \/ \E k \in Coord \cup {NoOne} : SaveOffering(c, k)
    \/ \E r \in Room, a \in BOOLEAN : CreateRoom(r, a) \/ UpdateRoom(r, a) \/ ImportRoom(r, a)
    \/ \E k \in Coord : BuildManifest(k) \/ CacheManifest(k)
CodeNext ==
    \E i \in Issuer : \/ \E l \in Lecturer, h \in Starts : FindCode(i, l, h)
                      \/ ReadCode(i) \/ \E c \in Code : InsertCode(i, c)
TimetableNext ==
    \/ side = "grid" /\ GridNext
    \/ side = "code" /\ CodeNext

TimetableSpec == TimetableInit /\ [][TimetableNext]_ttVars

-----------------------------------------------------------------------------
\* Two lecturers are never booked into one room for overlapping times, whichever of the
\* editors booked them and however their requests overlapped (the read before the write
\* cannot see the other request; an omitted lecturer is checked as nobody and kept).
RoomHasOneLecturer ==
    \A a, b \in DOMAIN slots :
        a # b /\ slots[a].room = slots[b].room /\ slots[a].room # NoOne /\ slots[a].lect # slots[b].lect
        => a[3] + slots[a].dur <= b[3] \/ b[3] + slots[b].dur <= a[3]

\* With no request under way, a manifest in the cache shows its coordinator's week as the
\* timetable has it, unless it was being built while the timetable changed, or the cohort
\* was given to its coordinator after the manifest was built or after an edit had begun.
CachedWeekIsCurrent ==
    (\A e \in Editor : job[e] = NoJob) =>
        \A k \in Coord : cache[k] # NoJob /\ cache[k].clean => cache[k].week = WeekOf(k)

\* FreeRooms: minutes since midnight, the end of a lecture cut at the end of the day
WrapsRound(k) == WrapEnd(k[3], slots[k].dur)
LectureEnds(k) == IF k[3] + slots[k].dur > DayLen THEN DayLen ELSE k[3] + slots[k].dur
FreeRoom(r, at, hours) ==
    r \in DOMAIN venues /\ venues[r]
    /\ ~ \E k \in DOMAIN slots : slots[k].venue = r /\ k[3] < at + hours /\ at < LectureEnds(k)

\* A room offered as free has no lecture in it at any hour that was asked about, also
\* where the lecture goes on past midnight.
FreeRoomHasNoLecture ==
    \A r \in Room, at \in 0 .. DayLen - 1, hours \in 1 .. 2 :
        FreeRoom(r, at, hours) =>
            ~ \E k \in DOMAIN slots : slots[k].venue = r /\
                  (k[3] .. k[3] + slots[k].dur - 1) \cap (at .. at + hours - 1) # {}

\* Requests for the code of a lecture that race each other are all told the same code, and
\* two lectures never have the same one.
LectureHasOneCode ==
    \A i, j \in Issuer :
        issued[i] # NoJob /\ issued[j] # NoJob /\ issued[i].pc = "told" /\ issued[j].pc = "told"
        /\ issued[i].code # NoOne /\ issued[j].code # NoOne
        => (issued[i].lec = issued[j].lec <=> issued[i].code = issued[j].code)

\* A room has one lecture at a time, is free only when it has none, and a lecture one code.
TimetableIsSound == RoomHasOneLecturer /\ FreeRoomHasNoLecture /\ LectureHasOneCode

\* "so a schedule change (timetable edit) shows up immediately rather than at the next
\* midnight cache rollover" (manifest.go:279): with no request under way, which lectures
\* of a cached manifest are combined classes is what the timetable says.
CombinedKeyIsCurrent ==
    (\A e \in Editor : job[e] = NoJob) =>
        \A k \in Coord : cache[k] # NoJob /\ cache[k].clean => cache[k].combined = CombinedOf(k)

\* "no two units in the SAME cohort may occupy overlapping time" (timetable_slots.go:191)
CohortHasOneClass ==
    \A a, b \in DOMAIN slots :
        a # b /\ a[1] = b[1] => a[3] + slots[a].dur <= b[3] \/ b[3] + slots[b].dur <= a[3]

\* timetable.go:186: one timetable behind two tables; a schedule that is set is on the round.
ScheduleIsOnTheRound ==
    (\A e \in Editor : job[e] = NoJob) =>
        \A s \in DOMAIN sched : sched[s].start # NoOne => <<s[1], s[2], sched[s].start>> \in DOMAIN slots
=============================================================================
