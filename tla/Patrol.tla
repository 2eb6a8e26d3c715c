------------------------------- MODULE Patrol -------------------------------
(***************************************************************************)
(* The monitors' record of teaching: lecturer_patrol_logs and its writers, *)
(* the offline round (patrol.go), the typed entry (patrol_manual.go) and   *)
(* the QA representative's workbook (qa_rep.go), with the lecturers' own   *)
(* presence claims beside it.  A phone keeps what it has until the server  *)
(* answers; the server may die between two statements and the answer may   *)
(* be lost.  A behaviour follows one of the four desks.  Names, wording    *)
(* and rooms are left out; a notice is the tick it is about.               *)
(***************************************************************************)
EXTENDS Integers, FiniteSets

CONSTANTS PReq,      \* requests in flight at the gateway
          Slot,      \* timetable_slots
          Unit,      \* course_units
          Rep,       \* who files workbooks
          NoCohort,  \* the offering of a record that names none
          Week,      \* days in a week
          DayHours,  \* hours in a day
          EastOfUTC, \* hours local time is ahead of UTC
          KeepDays,  \* how far back a typed date is kept (7)
          AskDays,   \* how far back a lecturer is asked (2)
          MaxTick,   \* bound: ticks and claims made
          MaxEntry,  \* bound: typed entries and workbooks
          LastHourP  \* bound: how long the clock runs

ASSUME PatrolAssumption ==
    /\ {Week, DayHours, EastOfUTC, KeepDays, AskDays, MaxTick, MaxEntry, LastHourP} \subseteq Nat \ {0}
    /\ EastOfUTC < DayHours /\ IsFiniteSet(Slot)
    /\ \A s \in Slot : s.unit \in Unit /\ s.dow \in 0 .. Week - 1 /\ {s.start, s.len} \subseteq Nat

VARIABLES desk,    \* "round", "manual", "upload" or "claim"
          pnow,    \* hours since some midnight, local time
          made,    \* every tick or claim made on a phone
          queue,   \* those the phone still keeps as unsynced
          preq,    \* the requests
          log,     \* lecturer_patrol_logs, by slot, day, time and cohort
          also,    \* monitor_log_units, by the same key
          told,    \* ticks the lecturer was told of
          moved,   \* changes of room announced, and to whom
          reached, \* history: ticks and claims some request stored
          denied,  \* history: ones a statement failed for, silently
          scanned, \* lectures the lecturer scanned the gate for
          filed,   \* lecturer_presence_claims: when they say they were there
          subs     \* qa_rep_submissions

patrolVars == <<desk, pnow, made, queue, preq, log, also, told, moved, reached, denied,
                scanned, filed, subs>>

Idle == [pc |-> "idle"]
today == pnow \div DayHours
hourNow == pnow % DayHours
weekday(d) == d % Week
Put(f, k, v) == [x \in DOMAIN f \cup {k} |-> IF x = k THEN v ELSE f[x]]
Drop(f, k) == [x \in DOMAIN f \ {k} |-> f[x]]
noRows == [k \in {} |-> {}]

PatrolInit ==
    /\ desk \in {"round", "manual", "upload", "claim"}
    /\ pnow = DayHours - 1 \* the hour before a midnight
    /\ made = {} /\ queue = {}
    /\ preq = [q \in PReq |-> Idle]
    /\ log = noRows /\ also = noRows
    /\ told = {} /\ moved = {} /\ reached = {} /\ denied = {} /\ scanned = {}
    /\ filed = noRows /\ subs = {}

Begin(q, rec) == preq[q] = Idle /\ preq' = [preq EXCEPT ![q] = rec]
Step(q, rec) == preq' = [preq EXCEPT ![q] = rec]
End(q) == preq' = [preq EXCEPT ![q] = Idle]
roundOnly == UNCHANGED <<desk, pnow, also, scanned, filed, subs>>
manualOnly == UNCHANGED <<desk, pnow, made, queue, told, moved, reached, denied, scanned, filed, subs>>
uploadOnly == UNCHANGED <<desk, pnow, made, queue, also, told, moved, reached, denied, scanned, filed>>
claimOnly == UNCHANGED <<desk, pnow, log, also, told, moved, scanned, subs>>

-----------------------------------------------------------------------------
(* What a monitor may tick *)

\* PatrolManifest: every slot with a room to walk to
PatrolManifest == {s \in Slot : ~s.online}

\* PatrolSearch, and the cached week narrowed to a weekday: one day of it
PatrolSearch(d) == {s \in PatrolManifest : s.dow = weekday(d)}

-----------------------------------------------------------------------------
(* The round: ticked offline, sent in batches, each tick a statement of its own *)

\* tick(): a new row of its own, whatever was ticked before
TickSlot(s, taught, ahead, change) ==
    LET d == today + ahead IN
    /\ Cardinality(made) < MaxTick
    /\ s \in PatrolSearch(d)
    /\ LET t == [id |-> Cardinality(made) + 1, unit |-> s.unit, date |-> d, start |-> s.start,
                 cohort |-> s.cohort, taught |-> taught, change |-> change, ahead |-> ahead]
       IN made' = made \cup {t} /\ queue' = queue \cup {t}
    /\ UNCHANGED <<preq, log, told, moved, reached, denied>> /\ roundOnly

\* syncPending: the queue, oldest first; requests of one phone may overlap
SendRound(q) ==
    /\ queue # {}
    /\ Begin(q, [pc |-> "store", batch |-> queue, todo |-> queue])
    /\ UNCHANGED <<made, queue, log, told, moved, reached, denied>> /\ roundOnly

\* LEAST(date, CURRENT_DATE)
NotAfterToday(d) == IF d > today THEN today ELSE d
slotKey(t) == <<t.unit, NotAfterToday(t.date), t.start, t.cohort>>

\* One upsert of the batch, the oldest tick left.  It overwrites whatever is there and leaves entry_method
\* alone; an error skips the tick.
entryMethod(k) == IF k \in DOMAIN log THEN log[k].how ELSE "PATROL"
Oldest(ticks) == {t \in ticks : \A x \in ticks : t.id <= x.id}
StoreTick(q) ==
    /\ preq[q].pc = "store"
    /\ \E t \in Oldest(preq[q].todo) :
       \/ /\ log' = Put(log, slotKey(t), [id |-> t.id, taught |-> t.taught,
                                          how |-> entryMethod(slotKey(t)), on |-> today])
          /\ reached' = reached \cup {t}
          /\ Step(q, [pc |-> "tell", batch |-> preq[q].batch, todo |-> preq[q].todo \ {t}, tick |-> t])
          /\ UNCHANGED denied
       \/ /\ denied' = denied \cup {t}
          /\ Step(q, [pc |-> "store", batch |-> preq[q].batch, todo |-> preq[q].todo \ {t}])
          /\ UNCHANGED <<log, reached>>
    /\ UNCHANGED <<made, queue, told, moved>> /\ roundOnly

\* The lecturer is told, with an appeal when the verdict is "not taught"; a lecturer with
\* no account, or a failing insert, is passed over
TellsOfTaughtOnly(t) == t.taught
TellsOf(t) == TRUE

\* venueChangeRecipients: the lecturer, the unit's head and dean, and all of QA
VenueChangeRecipients(t) == {"lecturer", "head", "dean", "qa"}

TellOfTick(q) ==
    LET t == preq[q].tick IN
    /\ preq[q].pc = "tell"
    /\ \/ told' = (IF TellsOf(t) THEN told \cup {t} ELSE told) /\ UNCHANGED denied
       \/ denied' = denied \cup {t} /\ UNCHANGED told
    /\ moved' = IF t.change THEN moved \cup {<<t, VenueChangeRecipients(t)>>} ELSE moved
    /\ Step(q, [pc |-> "store", batch |-> preq[q].batch, todo |-> preq[q].todo])
    /\ UNCHANGED <<made, queue, log, reached>> /\ roundOnly

\* "SYNCED": the phone marks the ticks of that batch, by id
MarkAll(q) == queue
MarkSynced(q) == preq[q].batch
ReplyRound(q) ==
    /\ preq[q].pc = "store" /\ preq[q].todo = {}
    /\ queue' = queue \ MarkSynced(q)
    /\ End(q) /\ UNCHANGED <<made, log, told, moved, reached, denied>> /\ roundOnly

\* The gateway dies, the answer is lost, or the phone stops waiting
LoseRequest(q) ==
    /\ preq[q] # Idle /\ End(q)
    /\ UNCHANGED <<desk, pnow, made, queue, log, also, told, moved, reached, denied, scanned,
                   filed, subs>>

\* The lecturer's gate scan, of another component
GateScan(s) ==
    /\ scanned' = scanned \cup {<<s.unit, today>>}
    /\ UNCHANGED <<desk, pnow, made, queue, preq, log, also, told, moved, reached, denied, filed, subs>>

-----------------------------------------------------------------------------
(* The typed entry *)

\* Truncate works in UTC: a local midnight belongs to the day before
utcDay(h) == (h - EastOfUTC) \div DayHours
DaysSince(d) == utcDay(pnow) - utcDay(d * DayHours)
AnyPastDay(d) == IF DaysSince(d) >= 0 THEN d ELSE today
SessionDate(d) == IF DaysSince(d) \in 0 .. KeepDays THEN d ELSE today

\* ON_THE_ROUND: a slot of the unit on today's weekday that covers the observed hour
OnTheRound(u, h) ==
    \E s \in Slot : s.unit = u /\ s.dow = weekday(today) /\ s.start <= h /\ h < s.start + s.len

\* PatrolManualEntry, to the last check; a compensation names a day that has been
PatrolManualEntry(q, u, d, h, taught, others, madeGood) ==
    /\ Cardinality(DOMAIN log) < MaxEntry
    /\ ~OnTheRound(u, h)
    /\ madeGood <= today
    /\ Begin(q, [pc |-> "write", key |-> <<u, SessionDate(d), h, NoCohort>>, taught |-> taught,
                 others |-> others, on |-> today])
    /\ UNCHANGED <<log, also>> /\ manualOnly

\* The upsert: it takes over a tick of the same unit, day and time as well
StoreManual(q) ==
    /\ preq[q].pc = "write"
    /\ log' = Put(log, preq[q].key, [id |-> 0, taught |-> preq[q].taught,
                                      how |-> "MANUAL", on |-> preq[q].on])
    /\ Step(q, [preq[q] EXCEPT !.pc = "clear"])
    /\ UNCHANGED also /\ manualOnly

\* DELETE FROM monitor_log_units, then writeExtraUnits, one insert each, errors skipped
ClearExtras(q) ==
    /\ preq[q].pc = "clear"
    /\ also' = Put(also, preq[q].key, {})
    /\ Step(q, [preq[q] EXCEPT !.pc = "extra", !.others = @ \ {preq[q].key[1]}])
    /\ UNCHANGED log /\ manualOnly
WriteExtraUnit(q, u) ==
    /\ preq[q].pc = "extra" /\ u \in preq[q].others
    /\ also' = [also EXCEPT ![preq[q].key] = @ \cup {u}]
    /\ Step(q, [preq[q] EXCEPT !.others = @ \ {u}])
    /\ UNCHANGED log /\ manualOnly
ReplyManual(q) ==
    /\ preq[q].pc = "extra" /\ preq[q].others = {}
    /\ End(q) /\ UNCHANGED <<log, also>> /\ manualOnly

-----------------------------------------------------------------------------
(* The workbook *)

\* resolveQAScope and noScopeMessage: a handler with no school of their own cannot file,
\* whatever schools they were given besides
CanFile(r) == r.kind # "ALL" /\ r.home # ""

\* ON CONFLICT names an index by its columns, and there must be one
slotIndex == {"unit", "date", "time", "cohort"}
qaConflictTarget == {"unit", "date", "time"}

\* loadQAUnits: a unit of the institution, and of the submitter's own department or school
RowIsOurs(r, row) == row.unit \in Unit /\ row.org = r.home
\* parseTaught, parseSheetDate and parseSheetTime understood the cells
RowIsReadable(row) == row.readable

\* One row of the sheet: what ingestQAObservations makes of it
RowOutcome(r, row) ==
    LET k == <<row.unit, row.date, row.start, NoCohort>> IN
    IF ~RowIsOurs(r, row) \/ ~RowIsReadable(row) \/ qaConflictTarget # slotIndex THEN "skipped"
    ELSE IF k \notin DOMAIN log THEN "recorded"
    ELSE IF log[k].how = "QA_REP_UPLOAD" THEN "updated" ELSE "skipped"

\* QASubmitReport: the file is kept first
QASubmitReport(q, r, rows) ==
    /\ CanFile(r) /\ Cardinality(subs) < MaxEntry
    /\ LET s == [id |-> Cardinality(subs) + 1, by |-> r, rows |-> rows, total |-> 0, parsed |-> 0,
                 skipped |-> 0, done |-> FALSE] IN
       /\ subs' = subs \cup {s}
       /\ Begin(q, [pc |-> "ingest", sub |-> s, todo |-> rows, parsed |-> 0, skipped |-> 0])
    /\ UNCHANGED log /\ uploadOnly

SkipSilently(out, n) == n
CountSkipped(out, n) == IF out = "skipped" THEN n + 1 ELSE n
IngestRow(q, row) ==
    LET r == preq[q].sub.by  out == RowOutcome(r, row) IN
    /\ preq[q].pc = "ingest" /\ row \in preq[q].todo
    /\ Step(q, [preq[q] EXCEPT !.todo = @ \ {row}, !.skipped = CountSkipped(out, @),
                               !.parsed = IF out = "skipped" THEN @ ELSE @ + 1])
    /\ log' = IF out = "skipped" THEN log
              ELSE Put(log, <<row.unit, row.date, row.start, NoCohort>>,
                       [id |-> preq[q].sub.id, taught |-> row.taught, how |-> "QA_REP_UPLOAD",
                        on |-> today])
    /\ UNCHANGED subs /\ uploadOnly

\* The counts are written when every row was tried
SealSubmission(q) ==
    /\ preq[q].pc = "ingest" /\ preq[q].todo = {}
    /\ subs' = (subs \ {preq[q].sub}) \cup
               (IF preq[q].sub \in subs
                THEN {[preq[q].sub EXCEPT !.total = Cardinality(preq[q].sub.rows), !.parsed = preq[q].parsed,
                                          !.skipped = preq[q].skipped, !.done = TRUE]} ELSE {})
    /\ End(q) /\ UNCHANGED log /\ uploadOnly

\* QADeleteSubmission: one's own, or anybody's for a role that is not bounded; the
\* observations go with it
QADeleteSubmission(r, s) ==
    /\ s \in subs /\ (r.kind # "ALL" => s.by = r)
    /\ subs' = subs \ {s}
    /\ log' = [k \in {k \in DOMAIN log : ~(log[k].how = "QA_REP_UPLOAD" /\ log[k].id = s.id)} |-> log[k]]
    /\ UNCHANGED preq /\ uploadOnly

-----------------------------------------------------------------------------
(* The lecturer's claim *)

\* Captured offline; the phone's clock may be ahead
CaptureClaim(ahead) ==
    /\ Cardinality(made) < MaxTick
    /\ LET c == [id |-> Cardinality(made) + 1, at |-> pnow + ahead] IN
       made' = made \cup {c} /\ queue' = queue \cup {c}
    /\ UNCHANGED <<preq, reached, denied, filed>> /\ claimOnly

\* PresenceSync: one claim to a request
SendClaim(q, c) ==
    /\ c \in queue
    /\ Begin(q, [pc |-> "claim", c |-> c])
    /\ UNCHANGED <<made, queue, reached, denied, filed>> /\ claimOnly

\* SubmitPresenceClaims: the first filing of a claim stands
AsCaptured(h) == h
NotAfterNow(h) == IF h > pnow THEN pnow ELSE h
FileClaim(q) ==
    LET c == preq[q].c IN
    /\ preq[q].pc = "claim"
    /\ \/ /\ filed' = IF c.id \in DOMAIN filed THEN filed ELSE Put(filed, c.id, NotAfterNow(c.at))
          /\ reached' = reached \cup {c} /\ UNCHANGED denied
       \/ denied' = denied \cup {c} /\ UNCHANGED <<filed, reached>>
    /\ Step(q, [preq[q] EXCEPT !.pc = "filed"])
    /\ UNCHANGED <<made, queue>> /\ claimOnly
ReplyClaim(q) ==
    /\ preq[q].pc = "filed"
    /\ queue' = queue \ {preq[q].c}
    /\ End(q) /\ UNCHANGED <<made, reached, denied, filed>> /\ claimOnly

PatrolHour ==
    /\ desk # "upload" /\ pnow < LastHourP /\ pnow' = pnow + 1
    /\ UNCHANGED <<desk, made, queue, preq, log, also, told, moved, reached, denied, scanned, filed, subs>>

-----------------------------------------------------------------------------
(* What the record is read as *)

\* PatrolCoverage: the timetable crossed with the days, each instance joined to the log
\* by unit, day and time; what finds nothing is a gap
SlotInstances(from) == {i \in Slot \X (from .. today) : i[1].dow = weekday(i[2])}
UncohortedTicks(s, d) == {k \in DOMAIN log : k[1] = s.unit /\ k[2] = d /\ k[3] = s.start /\ k[4] = NoCohort}
SlotTicks(s, d) == {k \in DOMAIN log : k[1] = s.unit /\ k[2] = d /\ k[3] = s.start}
NotPatrolled(from) == {i \in SlotInstances(from) : SlotTicks(i[1], i[2]) = {}}

\* LecturerUnrecorded: the lectures that count as over
OverToday(s, d) == d = today /\ s.start + s.len <= hourNow
IsOver(s, d) == d < today \/ s.start + s.len <= hourNow

\* LecturerUnrecorded: in-person lectures that are over with no gate scan
Unrecorded == {i \in Slot \X ((today - (AskDays - 1)) .. today) :
                  /\ ~i[1].online /\ i[1].dow = weekday(i[2])
                  /\ IsOver(i[1], i[2])
                  /\ <<i[1].unit, i[2]>> \notin scanned}

RoundNext ==
    \/ \E s \in Slot, taught \in BOOLEAN, ahead \in 0 .. 1 : TickSlot(s, taught, ahead, taught)
    \/ \E s \in PatrolSearch(today) : GateScan(s)
    \/ \E q \in PReq : SendRound(q) \/ StoreTick(q) \/ TellOfTick(q) \/ ReplyRound(q)

ManualNext ==
    \E q \in PReq :
        \/ \E u \in Unit, d \in (today - KeepDays - 1) .. (today + 2), h \in 0 .. DayHours - 1,
              taught \in BOOLEAN, others \in {{}, Unit}, g \in {today, today + 1} :
             PatrolManualEntry(q, u, d, h, taught, others, g)
        \/ StoreManual(q) \/ ClearExtras(q) \/ ReplyManual(q)
        \/ \E u \in Unit : WriteExtraUnit(q, u)

SheetRow == [unit : {s.unit : s \in Slot}, org : {"home", "away"}, date : {today}, start : {0},
             taught : {TRUE}, readable : BOOLEAN]
UploadNext ==
    \/ \E q \in PReq :
          \/ \E r \in Rep, a, b \in SheetRow : QASubmitReport(q, r, {a, b})
          \/ (preq[q].pc = "ingest" /\ \E row \in preq[q].todo : IngestRow(q, row))
          \/ SealSubmission(q)
    \/ \E r \in Rep, s \in subs : QADeleteSubmission(r, s)

ClaimNext ==
    \/ \E ahead \in 0 .. 1 : CaptureClaim(ahead)
    \/ \E q \in PReq : (\E c \in queue : SendClaim(q, c)) \/ FileClaim(q) \/ ReplyClaim(q)

PatrolNext ==
    \/ desk = "round" /\ RoundNext
    \/ desk = "manual" /\ ManualNext
    \/ desk = "upload" /\ UploadNext
    \/ desk = "claim" /\ ClaimNext
    \/ \E q \in PReq : LoseRequest(q)
    \/ PatrolHour

PatrolSpec == PatrolInit /\ [][PatrolNext]_patrolVars

-----------------------------------------------------------------------------
\* Nothing a monitor ticked or a lecturer claimed is lost on the way: until a statement of
\* the server stored it, or failed on it, the phone still has it, although requests
\* overlap, die and lose their answers.
TickIsKept == made = queue \cup reached \cup denied

\* A lecturer recorded as not teaching hears of it: the notice is filed, or about to be,
\* or the phone will send the tick again.
MissIsTold ==
    desk = "round" =>
    \A t \in reached : ~t.taught =>
        \/ t \in told \cup denied \cup queue
        \/ \E q \in PReq : preq[q].pc = "tell" /\ preq[q].tick = t

\* "So the lecturer is asked FIRST" (lecturer_unrecorded.go): a miss a monitor recorded
\* with the right date is on the lecturer's own list from the end of the lecture for as
\* long as the list goes back, unless the lecturer scanned the gate.
MissCanBeAnswered ==
    desk = "round" =>
    \A t \in reached, s \in PatrolManifest :
        /\ ~t.taught /\ t.ahead = 0 /\ <<t.unit, t.date>> \notin scanned
        /\ s.unit = t.unit /\ s.start = t.start /\ s.dow = weekday(t.date)
        /\ t.date * DayHours + s.start + s.len <= pnow /\ today - t.date < AskDays
        => <<s, t.date>> \in Unrecorded

\* A tick goes all the way: from the phone to the log, to the lecturer's notices and to
\* the list on which the lecturer answers it.
TickArrives == TickIsKept /\ MissIsTold /\ MissCanBeAnswered

\* "Conflating the last two is the specific mistake this page exists to prevent"
\* (patrol_coverage.go): a lecture a monitor reached, and whose tick arrived, is never
\* reported as one nobody came to.
VisitedIsNoGap ==
    desk = "round" =>
    \A t \in reached, i \in NotPatrolled(0) :
        ~(t.ahead = 0 /\ i[1].unit = t.unit /\ i[1].start = t.start /\ i[2] = t.date)

\* A typed entry is filed under a day near the one it was typed on: never further back
\* than is kept, and at most a day ahead.
ManualDateIsNear ==
    \A k \in DOMAIN log : log[k].how = "MANUAL" =>
        k[2] \in (log[k].on - KeepDays) .. (log[k].on + 1)

\* A claim is filed under a time that has been, and counted from its first filing.
ClaimHasHappened == \A c \in DOMAIN filed : filed[c] <= pnow

\* The figures of a finished workbook account for each of its rows.
WorkbookAddsUp == \A s \in subs : s.done => s.total = s.parsed + s.skipped

\* What the record says of a lecture, a day, a claim or a workbook is so.
RecordIsTrue == VisitedIsNoGap /\ ManualDateIsNear /\ ClaimHasHappened /\ WorkbookAddsUp

\* "Recognised rows are written to lecturer_patrol_logs" (docs/API.md:202).
RecognisedRowsAreWritten ==
    \A s \in subs : s.done /\ (\A row \in s.rows : RowIsOurs(s.by, row) /\ RowIsReadable(row))
                  => s.parsed > 0

\* A re-tick corrects: when the phone has nothing left to send, the last tick stands.
LastTickStands ==
    desk = "round" /\ queue = {} /\ (\A q \in PReq : preq[q] = Idle) =>
    \A t \in reached : \A k \in DOMAIN log :
        slotKey(t) = k /\ t.ahead = 0 => log[k].id >= t.id

\* "same unit, same weekday": a typed entry is never of a lecture that is on the round.
ManualIsOffTimetable ==
    \A k \in DOMAIN log : log[k].how = "MANUAL" =>
        ~\E s \in Slot : /\ s.unit = k[1] /\ s.dow = weekday(k[2])
                         /\ s.start <= k[3] /\ k[3] < s.start + s.len

=============================================================================
