------------------------------ MODULE RoomClock ------------------------------
(***************************************************************************)
(* What the gateway decides by the clock: the rotating digit code and its  *)
(* acceptance window, the daily window in which a session may be opened,   *)
(* the day a session is filed under, and the combined-class code, which    *)
(* lives one civil day.  The HMAC truncated to six (or three) digits is    *)
(* abstracted to the message it authenticates: equal codes are equal       *)
(* messages.  Time is in seconds of UTC; the institution is TZ ahead.      *)
(***************************************************************************)
EXTENDS Integers

CONSTANTS StepSeconds,    \* 10 in roomcode.go
          SkewSteps,      \* 1 in roomcode.go
          HourSeconds,    \* 3600; smaller in a model
          TZ,             \* hours the institution is ahead of UTC
          Start, End,     \* the daily window, in local hours
          ActiveDays,     \* ISO weekdays of the daily window
          AskedDays,      \* the days a phone asks for, relative to today
          LastSecond      \* bound: how long the clock runs

ASSUME RoomClockAssumption ==
    /\ StepSeconds \in Nat \ {0} /\ SkewSteps \in Nat /\ HourSeconds \in Nat \ {0}
    /\ TZ \in 0..23 /\ Start \in 0..24 /\ End \in 0..24 /\ ActiveDays \subseteq 1..7
    /\ LastSecond \in Nat /\ AskedDays \subseteq Int

VARIABLES utc,     \* the server's clock
          read,    \* the codes somebody read off the screen, and when
          filed    \* the last session opened: the day asked for, filed under, and today

clockVars == <<utc, read, filed>>

DaySeconds == 24 * HourSeconds

\* Derive: one code per step; SecondsRemaining: the countdown shown with it
Derive(t) == t \div StepSeconds
SecondsRemaining(t) == StepSeconds - (t % StepSeconds)

\* Validate: the current step and SkewSteps on each side
ValidateThisStep(code, t) == code = t \div StepSeconds
Validate(code, t) == \E d \in -SkewSteps..SkewSteps : code = (t \div StepSeconds) + d

\* clock.Today, clock.ISOWeekday, clock.HHMM: civil time of the institution
Today(t) == (t + TZ * HourSeconds) \div DaySeconds
ISOWeekday(t) == IF Today(t) % 7 = 0 THEN 7 ELSE Today(t) % 7
LocalHour(t) == ((t + TZ * HourSeconds) % DaySeconds) \div HourSeconds

\* withinSessionWindow: End is exclusive
WithinSessionWindow(t) ==
    /\ ISOWeekday(t) \in ActiveDays
    /\ ~(LocalHour(t) < Start) /\ ~(LocalHour(t) >= End)

\* time.Truncate(24h) rounds down to a UTC day whatever the time's own zone is
Truncate24h(t) == t \div DaySeconds

\* OpenSession: the day asked for counts when 0 <= days <= 7, else it is today
DaysAgo(asked, t) == Truncate24h(t) - Truncate24h(asked * DaySeconds - TZ * HourSeconds)
SessionDate(asked, t) == IF DaysAgo(asked, t) \in 0..7 THEN asked ELSE Today(t)

\* CombinedClassCode: lecturer, class and civil date; here only the date varies
CombinedClassCode(t) == Today(t)
ValidateUTCDate(code, t) == code = t \div DaySeconds
ValidateCombinedClassCode(code, t) == code = CombinedClassCode(t)

ClockInit ==
    /\ utc = 0
    /\ read = [at |-> 0, code |-> Derive(0), day |-> CombinedClassCode(0)]
    /\ filed = [asked |-> Today(0), day |-> Today(0), today |-> Today(0)]

Tick == utc < LastSecond /\ utc' = utc + 1 /\ UNCHANGED <<read, filed>>

\* Somebody reads the codes (CheckinCode, LecturerCombinedClassCode)
ReadCode ==
    /\ read' = [at |-> utc, code |-> Derive(utc), day |-> CombinedClassCode(utc)]
    /\ UNCHANGED <<utc, filed>>

\* A session is opened with a date the phone asks for
FileSession(asked) ==
    /\ WithinSessionWindow(utc)
    /\ filed' = [asked |-> asked, day |-> SessionDate(asked, utc), today |-> Today(utc)]
    /\ UNCHANGED <<utc, read>>

ClockNext == Tick \/ ReadCode \/ \E d \in AskedDays : FileSession(Today(utc) + d)
ClockSpec == ClockInit /\ [][ClockNext]_clockVars

-----------------------------------------------------------------------------
\* A code typed within SkewSteps whole steps of being read is accepted, also across
\* a rotation; SkewSteps + 1 steps after it left the screen it is dead.
CodeLifetime ==
    LET age == utc - read.at IN
    /\ age <= SkewSteps * StepSeconds => Validate(read.code, utc)
    /\ age >= SecondsRemaining(read.at) + SkewSteps * StepSeconds
            => ~Validate(read.code, utc)

\* The combined-class code works for the civil day it was read out on, and for no
\* other, at whatever hour the UTC date changes.
ClassCodeIsForOneDay ==
    ValidateCombinedClassCode(read.day, utc) <=> Today(read.at) = Today(utc)

\* A code lives exactly as long as its room or its day.
CodesAreTimely == CodeLifetime /\ ClassCodeIsForOneDay

\* "Anything outside [today-7, today] is ignored": sessions.go on the session date
FiledInLastWeek == filed.day - filed.today \in -7..0
=============================================================================
