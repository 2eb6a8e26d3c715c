----------------------------- MODULE SlotWarden -----------------------------
(***************************************************************************)
(* Who holds a Wi-Fi slot of the lecture room's hotspot and who is told to *)
(* give it up (engine/SlotWarden.kt).  Every method of the class is        *)
(* @Synchronized, so one call is one action.  Clients are known by their   *)
(* DHCP address; a student is known by the registration number they typed, *)
(* which the warden normalises (trim, lower case) before it uses it.       *)
(*                                                                         *)
(* The clock is the phone's, in units chosen so that HoldMillis,           *)
(* STUCK_GRACE_MILLIS and STALL_MILLIS are small; it is bounded by MaxTime.*)
(***************************************************************************)
EXTENDS Integers, FiniteSets

CONSTANTS
    Clients,        \* client addresses
    Typed,          \* registration numbers as typed
    Regs,           \* registration numbers, normalised
    Normalise,      \* Normalise[t]: the number typed as t; Blank if t is blank
    Blank,          \* the empty string
    Hold, Grace, Stall, AssumedCap,
    MaxTime, MaxCount

ASSUME WardenAssumption ==
    /\ Blank \notin Regs
    /\ Normalise \in [Typed -> Regs \cup {Blank}]
    /\ {Hold, Grace, Stall, AssumedCap, MaxTime, MaxCount} \subseteq Nat
    /\ Hold > 0

VARIABLES
    now,            \* nowMillis()
    leases,         \* clients believed to be associated
    doneRegs,       \* students who have finished
    seen, settled,  \* the coordinator's counters
    lastSettleAt,
    offered,        \* AppState.slotsJammed: is "Free all slots" offered
    kept,           \* history: when each client was answered KEEP, since it came
    told            \* history: when each client was first told to go, since it came

warden == <<leases, doneRegs, seen, settled, lastSettleAt>>
vars == <<now, warden, offered, kept, told>>

Time == 0 .. MaxTime
Never == -1

Lease == [grantedAt : Time, reg : Regs \cup {Blank}, done : BOOLEAN,
          evictedAt : Time \cup {Never}]

TypeOK ==
    /\ now \in Time
    /\ DOMAIN leases \subseteq Clients
    /\ leases \in [DOMAIN leases -> Lease]
    /\ doneRegs \subseteq Regs
    /\ {seen, settled} \subseteq 0 .. MaxCount
    /\ lastSettleAt \in Time
    /\ offered \in BOOLEAN
    /\ kept \in [Clients -> SUBSET Time]
    /\ told \in [Clients -> Time \cup {Never}]

-----------------------------------------------------------------------------
(* Helpers of the class.                                                   *)

NewLease == [grantedAt |-> now, reg |-> Blank, done |-> FALSE, evictedAt |-> Never]

\* sweep: forget the leases old enough that the client is certainly gone.
Sweep(ls) ==
    [c \in {d \in DOMAIN ls : now - ls[d].grantedAt <= 5 * Hold} |-> ls[c]]

\* leases[key] ?: Lease(now)
LeaseOf(ls, c) == IF c \in DOMAIN ls THEN ls[c] ELSE NewLease

WithLease(ls, c, l) == [d \in DOMAIN ls \cup {c} |-> IF d = c THEN l ELSE ls[d]]

SeenAfter(ls, c) == IF c \in DOMAIN ls THEN seen ELSE seen + 1

KnownAs(l, r) == IF r = Blank THEN l.reg ELSE r

\* Faulty variants of Verdict: a turn one instant too long, and a finished
\* student remembered by address only.
VerdictLate(l, r) ==
    IF l.done \/ r \in doneRegs THEN "EVICT_DONE"
    ELSE IF now - l.grantedAt > Hold THEN "EVICT_EXPIRED"
    ELSE "KEEP"

VerdictByAddress(l, r) ==
    IF l.done THEN "EVICT_DONE"
    ELSE IF now - l.grantedAt >= Hold THEN "EVICT_EXPIRED"
    ELSE "KEEP"

\* The verdict on a client with lease l who gave the number r.
Verdict(l, r) ==
    IF l.done \/ r \in doneRegs THEN "EVICT_DONE"
    ELSE IF now - l.grantedAt >= Hold THEN "EVICT_EXPIRED"
    ELSE "KEEP"

\* jammed, on swept leases.
Jammed(ls) ==
    /\ Cardinality(DOMAIN ls) >= AssumedCap
    /\ \E c \in DOMAIN ls : ls[c].evictedAt # Never /\ now - ls[c].evictedAt > Grace
    /\ now - lastSettleAt > Stall

-----------------------------------------------------------------------------
Init ==
    /\ now = 0
    /\ leases = [c \in {} |-> NewLease]
    /\ doneRegs = {}
    /\ seen = 0
    /\ settled = 0
    /\ lastSettleAt = 0
    /\ offered = FALSE
    /\ kept = [c \in Clients |-> {}]
    /\ told = [c \in Clients |-> Never]

Tick ==
    /\ now < MaxTime
    /\ now' = now + 1
    /\ UNCHANGED <<warden, offered, kept, told>>

\* touch: every request of the hub is answered with a verdict.
Touch(c, t) ==
    LET r == Normalise[t]
        ls == Sweep(leases)
        l == LeaseOf(ls, c)
        verdict == Verdict(l, r)
        evictedAt == IF verdict # "KEEP" /\ l.evictedAt = Never THEN now ELSE l.evictedAt
    IN  /\ SeenAfter(ls, c) <= MaxCount
        /\ leases' = WithLease(ls, c, [l EXCEPT !.reg = KnownAs(l, r), !.evictedAt = evictedAt])
        /\ seen' = SeenAfter(ls, c)
        /\ kept' = IF verdict = "KEEP" THEN [kept EXCEPT ![c] = @ \cup {now}] ELSE kept
        /\ told' = IF verdict # "KEEP" /\ told[c] = Never THEN [told EXCEPT ![c] = now] ELSE told
        /\ UNCHANGED <<now, doneRegs, settled, lastSettleAt, offered>>

\* A faulty variant of Settle: the stuck-clock is not started.
SettleUntimed(c, t) ==
    LET r == Normalise[t]
        l == LeaseOf(leases, c)
    IN  /\ r # Blank
        /\ SeenAfter(leases, c) <= MaxCount
        /\ settled < MaxCount
        /\ doneRegs' = doneRegs \cup {r}
        /\ leases' = WithLease(leases, c, [l EXCEPT !.done = TRUE, !.reg = KnownAs(l, r)])
        /\ seen' = SeenAfter(leases, c)
        /\ settled' = IF l.done THEN settled ELSE settled + 1
        /\ lastSettleAt' = IF l.done THEN lastSettleAt ELSE now
        /\ told' = IF told[c] = Never THEN [told EXCEPT ![c] = now] ELSE told
        /\ UNCHANGED <<now, offered, kept>>

\* settle: a check-in answered PRESENT or DUPLICATE_SCAN, so never one with
\* a blank number.
Settle(c, t) ==
    LET r == Normalise[t]
        l == LeaseOf(leases, c)
        evictedAt == IF ~l.done /\ l.evictedAt = Never THEN now ELSE l.evictedAt
    IN  /\ r # Blank
        /\ SeenAfter(leases, c) <= MaxCount
        /\ settled < MaxCount
        /\ doneRegs' = doneRegs \cup {r}
        /\ leases' = WithLease(leases, c, [l EXCEPT !.done = TRUE, !.reg = KnownAs(l, r),
                                                    !.evictedAt = evictedAt])
        /\ seen' = SeenAfter(leases, c)
        /\ settled' = IF l.done THEN settled ELSE settled + 1
        /\ lastSettleAt' = IF l.done THEN lastSettleAt ELSE now
        /\ told' = IF told[c] = Never THEN [told EXCEPT ![c] = now] ELSE told
        /\ UNCHANGED <<now, offered, kept>>

\* release: the client reports that it has dropped the connection (/leave).
Release(c) ==
    /\ leases' = [d \in DOMAIN leases \ {c} |-> leases[d]]
    /\ kept' = [kept EXCEPT ![c] = {}]
    /\ told' = [told EXCEPT ![c] = Never]
    /\ UNCHANGED <<now, doneRegs, seen, settled, lastSettleAt, offered>>

\* The slot mirror of SessionService polls occupancy() and jammed(), which
\* both sweep, and shows the button accordingly.
Mirror ==
    /\ leases' = Sweep(leases)
    /\ offered' = Jammed(Sweep(leases))
    /\ UNCHANGED <<now, doneRegs, seen, settled, lastSettleAt, kept, told>>

\* reset: a clean slate.
Reset ==
    /\ leases' = [c \in {} |-> NewLease]
    /\ doneRegs' = {}
    /\ seen' = 0
    /\ settled' = 0
    /\ lastSettleAt' = now
    /\ kept' = [c \in Clients |-> {}]
    /\ told' = [c \in Clients |-> Never]
    /\ UNCHANGED now

\* setLive and clear: the live session changes.  The button stays as it is
\* until the mirror's next poll.
NewSession == Reset /\ UNCHANGED offered

\* The coordinator uses the button: the hotspot is restarted.
ForceFreeSlots == offered /\ Reset /\ offered' = FALSE

Next ==
    \/ Tick
    \/ \E c \in Clients, t \in Typed : Touch(c, t)
    \/ \E c \in Clients, t \in Typed : Settle(c, t)
    \/ \E c \in Clients : Release(c)
    \/ Mirror
    \/ NewSession
    \/ ForceFreeSlots

Spec == Init /\ [][Next]_vars

-----------------------------------------------------------------------------
(* Properties.                                                             *)

\* "A client that keeps polling cannot hold a slot indefinitely by looking
\* busy": a client that never reports leaving is answered KEEP only within
\* one hold of its first KEEP, and then not again until sweep has forgotten
\* it, more than four holds later.
TurnsAreShort ==
    \A c \in Clients : \A t, u \in kept[c] : t <= u => u - t < Hold \/ u - t > 4 * Hold

\* "The one thing that must not be forgettable is having already attended":
\* within a session no release, sweep, change of address or other spelling
\* of the number gets a finished student answered KEEP again.
FinishedIsNotKept ==
    [][\A c \in Clients, t \in Typed :
          Normalise[t] \in doneRegs /\ kept'[c] # kept[c] => ~Touch(c, t)]_vars

\* What the warden holds of a client agrees with what the client was told:
\* while a lease lives, its stuck-clock started no earlier than the first
\* time the client was told to go, and runs if the lease is finished.
StuckClockIsHonest ==
    \A c \in DOMAIN leases :
        /\ leases[c].evictedAt # Never => told[c] \in 0 .. leases[c].evictedAt
        /\ leases[c].done => leases[c].evictedAt # Never

\* A slot rotates and the warden's own record of it is true.
WardenIsFair == TypeOK /\ TurnsAreShort /\ StuckClockIsHonest

=============================================================================
