--------------------------------- MODULE Jobs ---------------------------------
(***************************************************************************)
(* The gateway's timed jobs: the catch-up scheduler with its watermark in  *)
(* scheduled_job_runs, and the jobs it runs over windows of time (lecture  *)
(* reminder, attendance chase, staff exceptions, check-out reminder).  A   *)
(* gateway sleeps and is redeployed at will, so two of them may sweep at   *)
(* once; each statement is a step.  The jobs share nothing but the loop    *)
(* that runs them, so a behaviour follows one of them, with the inputs     *)
(* that one reads.  Minutes are integers, DayMinutes to a day; the wording *)
(* of a notice is left out.  Badge is the staff with an e-mail or a phone  *)
(* on file: the others are in no batch.                                    *)
(***************************************************************************)
EXTENDS Integers, FiniteSets, FiniteSetsExt

CONSTANTS Gateway, Slot, Badge,
          SlotStart,    \* minute of the day each slot starts (all on day 0)
          Offset,       \* remindBeforeMinutes and chaseAfterMinutes
          Every,        \* window length
          MaxCatchUp,   \* older windows are dropped
          BatchSize,    \* employeeAlertBatchSize
          CheckoutAt,   \* 17:00, as a minute of the day
          DayMinutes,
          LastMinute,   \* bound: how long the clock runs
          MaxFaults     \* bound: statements that fail, processes that die

ASSUME JobsAssumption ==
    /\ SlotStart \in [Slot -> 0..DayMinutes]
    /\ Every \in Nat \ {0} /\ MaxCatchUp \in Nat /\ MaxCatchUp >= Every
    /\ Offset \in Nat /\ BatchSize \in Nat \ {0} /\ DayMinutes \in Nat \ {0}
    /\ CheckoutAt \in Nat /\ LastMinute \in Nat /\ MaxFaults \in Nat

VARIABLES job,        \* the registered job this behaviour follows
          minute,     \* the institution's clock
          mark,       \* scheduled_job_runs.last_run_at
          seen,       \* history: minutes handed to the job, or dropped as too old
          sweeper,    \* what each gateway's scheduler goroutine is doing
          claimed,    \* notification_log
          sent,       \* how often each notice went out
          recorded,   \* slots a session or a patrol has recorded
          sheet,      \* employee_attendance_days: when imported, and what the day looked like
          faults

jobsVars == <<job, minute, mark, seen, sweeper, claimed, sent, recorded, sheet, faults>>

Job == {"remind", "chase", "exceptions", "checkout"}
Never == -Every - 1   \* no row yet: below every watermark, a first one may be Every before minute 0
DayOf(m) == m \div DayMinutes
Notice == Job \X (Slot \cup Badge) \X (0..DayOf(LastMinute))
Asleep == [pc |-> "idle"]

-----------------------------------------------------------------------------
\* Plan: where catching up starts; what is older than MaxCatchUp is dropped
CutOff(last, now) == IF last < now - MaxCatchUp THEN now - MaxCatchUp ELSE last

\* watermark: a new job starts one window back
Watermark == IF mark = Never THEN minute - Every ELSE mark

\* querySlots: the window moved by the offset, as minutes of the day of its start
QuerySlots(from, offset) ==
    LET lo == (from % DayMinutes) + offset
        hi == ((from + Every) % DayMinutes) + offset
    IN  IF hi < 0 \/ lo > DayMinutes \/ DayOf(from) # 0 THEN {}
        ELSE {s \in Slot : lo <= SlotStart[s] /\ SlotStart[s] < hi}

\* employeeExceptions: rows imported in the window
Exceptions(from) ==
    {b \in Badge : /\ sheet[b].imported \in from..(from + Every - 1)
                     /\ sheet[b].day = "exception"}

\* hhmmWithin and checkoutReminder: clocked in today, not out
HhmmWithin(from) == DayOf(from) * DayMinutes + CheckoutAt \in from..(from + Every - 1)
NotOut(from) == IF ~HhmmWithin(from) THEN {}
                ELSE {b \in Badge : /\ sheet[b].day = "clockedIn"
                                   /\ DayOf(sheet[b].imported) = DayOf(minute)}

\* What one window of a job returns; LIMIT keeps any BatchSize of the staff rows
Limited(rows) == {b \in SUBSET rows : Cardinality(b) = IF Cardinality(rows) < BatchSize
                                                       THEN Cardinality(rows) ELSE BatchSize}
Due(from) == CASE job = "remind"     -> {QuerySlots(from, Offset)}
               [] job = "chase"      -> {QuerySlots(from, -Offset)}
               [] job = "exceptions" -> Limited(Exceptions(from))
               [] job = "checkout"   -> Limited(NotOut(from))

\* attendanceRecorded: only the chase asks
AttendanceRecorded(x) == job = "chase" /\ x \in recorded

\* The date a notice is logged under: today for a lecture, the row's day for staff
SubjectDay(x) == IF job \in {"remind", "chase"} THEN DayOf(minute)
                 ELSE DayOf(sheet[x].imported)

\* AlreadySent: INSERT ... ON CONFLICT DO NOTHING RETURNING
ResentOnReplay(n) == FALSE
AlreadySent(n) == n \in claimed

\* The watermark a sweep leaves: at the window that failed, or past the last one
PastFailure(s) == s.cursor + Every
ErrorMark(s) == s.cursor
StuckMark(s) == mark
OKMark(s) == s.cursor

-----------------------------------------------------------------------------
JobsInit ==
    /\ job \in Job
    /\ minute = 0 /\ mark = Never /\ seen = {}
    /\ sweeper = [g \in Gateway |-> Asleep]
    /\ claimed = {} /\ sent = [n \in Notice |-> 0]
    /\ recorded = {}
    /\ sheet = [b \in Badge |-> [imported |-> Never, day |-> "normal"]]
    /\ faults = 0

unchangedWorld == UNCHANGED <<job, minute, recorded, sheet>>
unchangedRunner == UNCHANGED <<job, mark, seen, sweeper, claimed, sent, faults>>

MinutePasses ==
    /\ minute < LastMinute
    /\ minute' = minute + 1
    /\ UNCHANGED <<recorded, sheet>> /\ unchangedRunner

\* A coordinator's session or a patroller records the lecture
RecordLecture(x) ==
    /\ job = "chase"
    /\ x \notin recorded
    /\ recorded' = recorded \cup {x}
    /\ UNCHANGED <<minute, sheet>> /\ unchangedRunner

\* ImportEmployeeSheet: one upserted row, imported_at = now(); late, early and absent
\* days are exceptions, a clock-in without a clock-out is still open
ImportEmployeeSheet(b, day) ==
    /\ job \in {"exceptions", "checkout"}
    /\ sheet' = [sheet EXCEPT ![b] = [imported |-> minute, day |-> day]]
    /\ UNCHANGED <<minute, recorded>> /\ unchangedRunner

\* sweep begins: watermark and Plan
Sweep(g) ==
    LET last  == Watermark
        start == CutOff(last, minute)
    IN
    /\ sweeper[g] = Asleep
    /\ mark' = last
    /\ seen' = seen \cup (last..(start - 1)) \cup
               (IF mark = Never THEN 0..(last - 1) ELSE {})
    /\ sweeper' = [sweeper EXCEPT ![g] = [pc |-> "window", cursor |-> start, now |-> minute]]
    /\ UNCHANGED <<claimed, sent, faults>> /\ unchangedWorld

\* The next window's rows
RunWindow(g) ==
    LET s == sweeper[g] IN
    /\ s.pc = "window" /\ s.cursor + Every <= s.now
    /\ \E rows \in Due(s.cursor) :
        sweeper' = [sweeper EXCEPT ![g] = [pc |-> "rows", cursor |-> s.cursor,
                                           now |-> s.now, rows |-> rows]]
    /\ UNCHANGED <<mark, seen, claimed, sent, faults>> /\ unchangedWorld

\* notifyLecturer, alertEmployee: the claim ...
ClaimNotice(g, x) ==
    LET s == sweeper[g]
        n == <<job, x, SubjectDay(x)>>
    IN
    /\ s.pc = "rows" /\ x \in s.rows
    /\ IF AttendanceRecorded(x) \/ AlreadySent(n)
       THEN /\ sweeper' = [sweeper EXCEPT ![g].rows = @ \ {x}]
            /\ UNCHANGED claimed
       ELSE /\ claimed' = claimed \cup {n}
            /\ sweeper' = [sweeper EXCEPT ![g] =
                            [pc |-> "send", cursor |-> s.cursor, now |-> s.now,
                             rows |-> s.rows \ {x}, notice |-> n]]
    /\ UNCHANGED <<mark, seen, sent, faults>> /\ unchangedWorld

\* ... then the inbox row or the POST to the notification service
SendNotice(g) ==
    LET s == sweeper[g] IN
    /\ s.pc = "send"
    /\ sent' = [sent EXCEPT ![s.notice] = @ + 1]
    /\ sweeper' = [sweeper EXCEPT ![g] = [pc |-> "rows", cursor |-> s.cursor,
                                          now |-> s.now, rows |-> s.rows]]
    /\ UNCHANGED <<mark, seen, claimed, faults>> /\ unchangedWorld

WindowDone(g) ==
    LET s == sweeper[g] IN
    /\ s.pc = "rows" /\ s.rows = {}
    /\ seen' = seen \cup (s.cursor..(s.cursor + Every - 1))
    /\ sweeper' = [sweeper EXCEPT ![g] = [pc |-> "window", cursor |-> s.cursor + Every,
                                          now |-> s.now]]
    /\ UNCHANGED <<mark, claimed, sent, faults>> /\ unchangedWorld

\* record(OK): a plain UPDATE, whatever another gateway has recorded meanwhile
SweepDone(g) ==
    LET s == sweeper[g] IN
    /\ s.pc = "window" /\ s.cursor + Every > s.now
    /\ mark' = OKMark(s)
    /\ sweeper' = [sweeper EXCEPT ![g] = Asleep]
    /\ UNCHANGED <<seen, claimed, sent, faults>> /\ unchangedWorld

\* A statement of the job fails: record(ERROR)
JobFails(g) ==
    /\ sweeper[g].pc \in {"rows", "send"} /\ faults < MaxFaults
    /\ faults' = faults + 1
    /\ mark' = ErrorMark(sweeper[g])
    /\ sweeper' = [sweeper EXCEPT ![g] = Asleep]
    /\ UNCHANGED <<seen, claimed, sent>> /\ unchangedWorld

\* The process dies or is put to sleep in the middle of a sweep
GatewayDies(g) ==
    /\ sweeper[g].pc # "idle" /\ faults < MaxFaults
    /\ faults' = faults + 1
    /\ sweeper' = [sweeper EXCEPT ![g] = Asleep]
    /\ UNCHANGED <<mark, seen, claimed, sent>> /\ unchangedWorld

\* The goroutine of Start: SweepAll on boot and on every tick
GatewayStep(g) ==
    \/ Sweep(g) \/ RunWindow(g) \/ SendNotice(g) \/ WindowDone(g) \/ SweepDone(g)
    \/ \E x \in Slot \cup Badge : ClaimNotice(g, x)

JobsNext ==
    \/ MinutePasses
    \/ \E x \in Slot : RecordLecture(x)
    \/ \E b \in Badge, d \in {"normal", "exception", "clockedIn"} : ImportEmployeeSheet(b, d)
    \/ \E g \in Gateway : GatewayStep(g) \/ JobFails(g) \/ GatewayDies(g)

JobsFairness == WF_jobsVars(MinutePasses) /\ \A g \in Gateway : WF_jobsVars(GatewayStep(g))

JobsSpec == JobsInit /\ [][JobsNext]_jobsVars /\ JobsFairness

-----------------------------------------------------------------------------
\* "Never silently skip": every minute below a job's watermark was handed to the job
\* to the end, or dropped as older than MaxCatchUp, through failures, crashes and two
\* gateways that write the same watermark (scheduler.go, sweep).
NoMinuteSkipped == \A m \in 0..(mark - 1) : m \in seen

\* However often a window is replayed, a notice goes out at most once, and one that
\* was claimed but never sent is accounted for by a fault (AlreadySent, claim first).
SentOnceOrLostToAFault ==
    /\ \A n \in Notice : sent[n] <= 1
    /\ Cardinality({n \in claimed : /\ sent[n] = 0
                                    /\ \A g \in Gateway : ~(sweeper[g].pc = "send"
                                                            /\ sweeper[g].notice = n)})
         <= faults

\* Every minute is gone through, and what falls due in it is sent once.
JobsAreThorough == NoMinuteSkipped /\ SentOnceOrLostToAFault

\* The job catches up with the clock and stays there, whatever failed before.
JobsCatchUp == <>[](mark + Every > LastMinute)

\* Everybody whose exceptional day was imported below the watermark has been told:
\* the contract "never silently skip" at the level of the rows.
NoStaffRowSkipped ==
    job = "exceptions" =>
        \A b \in Badge :
            sheet[b].day = "exception" /\ sheet[b].imported \in 0..(mark - 1)
                => <<job, b, DayOf(sheet[b].imported)>> \in claimed
=============================================================================
