------------------------------ MODULE Enrolment ------------------------------
(***************************************************************************)
(* What a person binds to themselves once: the student's phone, the        *)
(* patroller's PIN, the lecturer's passkey and the warden's link.  Each is *)
(* a table of its own and a check followed, statements later, by a write;  *)
(* requests overlap in between.  The parts share nothing, so a behaviour   *)
(* follows one of them.  Hashes, QR images and e-mail texts are left out.  *)
(***************************************************************************)
EXTENDS Integers, FiniteSets

CONSTANTS Call,        \* requests in flight
          Pupil, Phone,
          RebindLimit, \* 2 in student_device.go
          PinLimit,    \* patrolPINMaxAttempts
          PinLockout,  \* patrolPINLockout
          LinkLife,    \* 24 hours for a passkey link
          WindowEnd,   \* end of a warden's window
          WardenGrace, \* 5 minutes
          WardenLate,  \* 2 h 35 for a window already over
          MaxPasskey,  \* bound: authenticators enrolled
          LastHour     \* bound: how long the clock runs

ASSUME EnrolmentAssumption ==
    /\ {RebindLimit, PinLimit, PinLockout, LinkLife, WardenGrace, WardenLate,
        MaxPasskey, LastHour} \subseteq Nat \ {0}
    /\ WindowEnd \in Nat /\ IsFiniteSet(Call) /\ Call # {}

VARIABLES part,      \* which of the four this behaviour follows
          call,      \* what each request has read
          binding,   \* student_device_bindings
          rebinds,   \* students_extended.rebind_count
          pin,       \* patroller_pins, or NoPin
          pinSpill,  \* history: wrong PINs counted while the lock was in force
          link,      \* wa:enroll in Redis: until when, or 0
          ceremony,  \* wa:reg in Redis: a registration was begun
          passkeys,  \* authenticators enrolled from the link
          wardenLink,    \* the warden link: until when, and its window
          hour

enrolVars == <<part, call, binding, rebinds, pin, pinSpill, link, ceremony, passkeys, wardenLink, hour>>

Unbound == "no phone"
NoPin == [failed |-> -1]
NoCall == [pc |-> "none"]
NoWarden == [until |-> 0, made |-> 0]

EnrolInit ==
    /\ part \in {"device", "pin", "passkey", "warden"}
    /\ call = [c \in Call |-> NoCall]
    /\ binding = [s \in Pupil |-> Unbound] /\ rebinds = [s \in Pupil |-> 0]
    /\ pin = NoPin /\ pinSpill = 0
    /\ link = 0 /\ ceremony = FALSE /\ passkeys = 0
    /\ wardenLink = NoWarden /\ hour = 0

Enter(c, rec) == call[c] = NoCall /\ call' = [call EXCEPT ![c] = rec]
Leave(c) == call' = [call EXCEPT ![c] = NoCall]
deviceOnly == UNCHANGED <<part, pin, pinSpill, link, ceremony, passkeys, wardenLink, hour>>
pinOnly == UNCHANGED <<part, binding, rebinds, link, ceremony, passkeys, wardenLink, hour>>
linkOnly == UNCHANGED <<part, binding, rebinds, pin, pinSpill, wardenLink, hour>>

-----------------------------------------------------------------------------
(* The student's phone *)

\* RegisterDevice, its three reads: the phone's owner, the student's phone, the count
OwnedByOther(s, p) == \E o \in Pupil \ {s} : binding[o] = p
RegisterDevice(c, s, p) ==
    LET isRebind == binding[s] \notin {Unbound, p} IN
    /\ part = "device" /\ ~OwnedByOther(s, p)
    /\ isRebind => rebinds[s] < RebindLimit
    /\ Enter(c, [pc |-> IF isRebind THEN "count" ELSE "bind", s |-> s, p |-> p])
    /\ UNCHANGED <<binding, rebinds>> /\ deviceOnly

\* rebind_count + 1, a statement of its own
CountRebind(c) ==
    /\ call[c].pc = "count"
    /\ rebinds' = [rebinds EXCEPT ![call[c].s] = @ + 1]
    /\ call' = [call EXCEPT ![c].pc = "bind"]
    /\ UNCHANGED binding /\ deviceOnly

\* The upsert; a phone bound to somebody meanwhile is a duplicate key
BindAnyPhone(s, p) == TRUE
PhoneIsFree(s, p) == ~OwnedByOther(s, p)
BindPhone(c) ==
    LET s == call[c].s  p == call[c].p IN
    /\ call[c].pc = "bind"
    /\ binding' = IF PhoneIsFree(s, p) THEN [binding EXCEPT ![s] = p] ELSE binding
    /\ Leave(c) /\ UNCHANGED rebinds /\ deviceOnly

\* QADeviceReset: the count only; the old binding is overwritten by the next phone
QADeviceReset(s) ==
    /\ part = "device" /\ rebinds[s] > 0
    /\ rebinds' = [rebinds EXCEPT ![s] = 0]
    /\ UNCHANGED <<call, binding>> /\ deviceOnly

-----------------------------------------------------------------------------
(* The patroller's PIN *)

\* loadPatrolPIN: set, locked, and the attempts it reports
PinSet == pin # NoPin
PinLockIgnored == FALSE
PinLocked == hour < pin.lockedUntil
AttemptsLeft == PinLimit - (IF PinLocked THEN pin.failed ELSE 0)

\* VerifyPatrolPIN: the row is read and the PIN compared ...
VerifyPatrolPIN(c, right) ==
    /\ part = "pin" /\ PinSet /\ ~PinLocked
    /\ Enter(c, [pc |-> IF right THEN "right" ELSE "wrong"])
    /\ UNCHANGED <<pin, pinSpill>> /\ pinOnly

\* ... and the outcome is written in one UPDATE
LocksNow(row) == row.failed + 1 >= PinLimit
WrongPIN(c) ==
    /\ call[c].pc = "wrong"
    /\ pin' = IF ~PinSet THEN pin
              ELSE [failed |-> pin.failed + 1,
                    lockedUntil |-> IF LocksNow(pin) THEN hour + PinLockout ELSE pin.lockedUntil]
    /\ pinSpill' = IF PinSet /\ hour < pin.lockedUntil THEN pinSpill + 1 ELSE 0
    /\ Leave(c) /\ pinOnly
RightPIN(c) ==
    /\ call[c].pc = "right"
    /\ pin' = IF PinSet THEN [failed |-> 0, lockedUntil |-> 0] ELSE pin
    /\ Leave(c) /\ UNCHANGED pinSpill /\ pinOnly

\* SetPatrolPIN: the first PIN, or a new one against the old; refused while locked
SetPatrolPIN(c) ==
    /\ part = "pin" /\ (PinSet => ~PinLocked)
    /\ Enter(c, [pc |-> "set"])
    /\ UNCHANGED <<pin, pinSpill>> /\ pinOnly
StorePIN(c) ==
    /\ call[c].pc = "set"
    /\ pin' = [failed |-> 0, lockedUntil |-> 0]
    /\ Leave(c) /\ UNCHANGED pinSpill /\ pinOnly
ResetPatrolPIN ==
    /\ PinSet /\ pin' = NoPin
    /\ UNCHANGED <<call, pinSpill>> /\ pinOnly

-----------------------------------------------------------------------------
(* The lecturer's passkey *)

LinkIsLive == hour < link

\* AdminLecturerEnrollLink
EnrollLink ==
    /\ part = "passkey" /\ link = 0
    /\ link' = hour + LinkLife
    /\ UNCHANGED <<call, ceremony, passkeys>> /\ linkOnly

\* LecturerEnrollBegin
EnrollBegin ==
    /\ LinkIsLive /\ ceremony' = TRUE
    /\ UNCHANGED <<call, link, passkeys>> /\ linkOnly

\* LecturerEnrollFinish: the link and the ceremony are read, the credential saved, and
\* only then both keys deleted
FinishRead(c) ==
    /\ part = "passkey" /\ LinkIsLive /\ ceremony /\ Enter(c, [pc |-> "save"])
    /\ UNCHANGED <<link, ceremony, passkeys>> /\ linkOnly
SaveCred(c) ==
    /\ call[c].pc = "save" /\ passkeys < MaxPasskey
    /\ passkeys' = passkeys + 1
    /\ call' = [call EXCEPT ![c].pc = "consume"]
    /\ UNCHANGED <<link, ceremony>> /\ linkOnly
KeepLink == link
UsedLink == -1
ConsumeLink(c) ==
    /\ call[c].pc = "consume"
    /\ link' = UsedLink /\ ceremony' = FALSE
    /\ Leave(c) /\ UNCHANGED passkeys /\ linkOnly

-----------------------------------------------------------------------------
(* The warden's link *)

\* WardenLink: five minutes past the window, or a default when that is over already
WardenNoGrace(now) == IF WindowEnd - now <= 0 THEN WardenLate ELSE WindowEnd - now - 1
WardenTTL(now) == IF WindowEnd + WardenGrace - now <= 0 THEN WardenLate
                  ELSE WindowEnd + WardenGrace - now
WardenLink ==
    /\ part = "warden"
    /\ wardenLink' = [until |-> hour + WardenTTL(hour), made |-> hour]
    /\ UNCHANGED <<part, call, binding, rebinds, pin, pinSpill, link, ceremony, passkeys, hour>>
WardenValidate == hour < wardenLink.until

Hour ==
    /\ part # "device" /\ hour < LastHour
    /\ hour' = hour + 1
    /\ UNCHANGED <<part, call, binding, rebinds, pin, pinSpill, link, ceremony, passkeys, wardenLink>>

EnrolNext ==
    \/ \E c \in Call : \/ \E s \in Pupil, p \in Phone : RegisterDevice(c, s, p)
                       \/ CountRebind(c) \/ BindPhone(c)
                       \/ \E right \in BOOLEAN : VerifyPatrolPIN(c, right)
                       \/ WrongPIN(c) \/ RightPIN(c) \/ SetPatrolPIN(c) \/ StorePIN(c)
                       \/ FinishRead(c) \/ SaveCred(c) \/ ConsumeLink(c)
    \/ \E s \in Pupil : QADeviceReset(s)
    \/ ResetPatrolPIN \/ EnrollLink \/ EnrollBegin \/ WardenLink \/ Hour

EnrolSpec == EnrolInit /\ [][EnrolNext]_enrolVars

-----------------------------------------------------------------------------
\* No two students end up on one phone, although the owner is looked up two statements
\* before the phone is bound.
OnePhoneOneStudent ==
    \A s, o \in Pupil : s # o /\ binding[s] # Unbound => binding[s] # binding[o]

\* Once a PIN is locked, the only wrong PINs still counted are of requests already past
\* the check; a lock is never taken before the allowance is used up.
PinLockIsFirm ==
    /\ pinSpill < Cardinality(Call)
    /\ PinSet /\ PinLocked => pin.failed >= PinLimit

\* A link enrols no more authenticators than requests were finishing at once.
LinkIsSpent == passkeys <= Cardinality(Call)

\* A warden's link works to the end of the window it was made for.
WardenLinkLasts ==
    wardenLink # NoWarden /\ wardenLink.made < WindowEnd /\ hour <= WindowEnd => WardenValidate

\* Phones, PINs, passkeys and wardens' links are bound, locked, spent and alive as their
\* handlers say, however their requests overlap.
EnrolmentIsFirm == OnePhoneOneStudent /\ PinLockIsFirm /\ LinkIsSpent /\ WardenLinkLasts

\* "so every caller sees the same truth": when more than one attempt is reported left,
\* one more wrong PIN does not lock the account.
AttemptsLeftIsTrue == PinSet /\ ~PinLocked /\ AttemptsLeft > 1 => ~LocksNow(pin)
=============================================================================
