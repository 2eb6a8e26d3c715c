---------------------------- MODULE AccessProofs ----------------------------
(***************************************************************************)
(* Machine-checked proofs about the doors: SlotWarden, Accounts and        *)
(* Enrolment, for any number of clients, requests, pupils and phones, any  *)
(* limits and any length of time.                                          *)
(*                                                                         *)
(* In all three a decision is taken on what was read earlier.  The         *)
(* argument is the same each time: count what is still in flight.  A lock  *)
(* is taken by a request that is then in flight no more, and nothing new   *)
(* starts while it holds, so what it lets through is bounded by the others *)
(* (GuessInv, PinInv); a link is deleted after it was used, so it enrols   *)
(* no more than were using it at once (LinkInv); a turn belongs to a lease *)
(* or was over long before it (TurnOf).                                    *)
(***************************************************************************)
EXTENDS SlotWarden, Accounts, Enrolment, FiniteSetTheorems, TLAPS

-----------------------------------------------------------------------------
(* The slot warden.                                                        *)

\* No record of the past is ahead of the clock.
ClocksInv ==
    /\ lastSettleAt <= now
    /\ \A c \in Clients : told[c] <= now /\ \A t \in kept[c] : t <= now

\* A KEEP belongs to the turn of the lease the client holds, or to a turn that
\* was over more than four holds before that lease was granted; of a client
\* without a lease, all turns have been over for that long.
TurnOf(ls, c, t) ==
    IF c \in DOMAIN ls
    THEN \/ ls[c].grantedAt <= t /\ t < ls[c].grantedAt + Hold
         \/ t + 4 * Hold < ls[c].grantedAt
    ELSE t + 4 * Hold < now

\* What holds of the warden's leases, before and after they are swept.
LeasesInv(ls) ==
    /\ DOMAIN ls \subseteq Clients /\ ls \in [DOMAIN ls -> Lease]
    /\ \A c \in DOMAIN ls : /\ ls[c].grantedAt <= now
                            /\ ls[c].evictedAt # Never => told[c] \in 0 .. ls[c].evictedAt
                            /\ ls[c].done => ls[c].evictedAt # Never
    /\ \A c \in Clients : \A t \in kept[c] : TurnOf(ls, c, t)

WardenInv == TypeOK /\ ClocksInv /\ LeasesInv(leases) /\ TurnsAreShort

\* The constants as numbers.
LEMMA WardenNumbers == /\ Hold \in Nat /\ Hold > 0 /\ MaxTime \in Nat /\ MaxCount \in Nat
                       /\ 0 \in Time /\ Time \subseteq Nat
BY WardenAssumption DEF Time

\* An instant, or none yet.
LEMMA InstantType == \A x \in Time \cup {Never} : x \in Int /\ (x # Never => x >= 0)
BY WardenNumbers DEF Never

\* Sweeping forgets only clients whose turn is long over.
LEMMA SweepKeeps ==
    ASSUME TypeOK, ClocksInv, NEW ls, LeasesInv(ls)
    PROVE  /\ LeasesInv(Sweep(ls))
           /\ DOMAIN Sweep(ls) \subseteq DOMAIN ls
           /\ \A d \in DOMAIN Sweep(ls) : Sweep(ls)[d] = ls[d]
<1> DEFINE sw == Sweep(ls)
<1>1. /\ DOMAIN sw = {d \in DOMAIN ls : now - ls[d].grantedAt <= 5 * Hold}
      /\ \A d \in DOMAIN sw : sw[d] = ls[d]
      /\ sw \in [DOMAIN sw -> Lease]
  BY DEF Sweep, LeasesInv
<1> HIDE DEF sw
<1>2. ASSUME NEW c \in Clients, NEW t \in kept[c]
      PROVE  TurnOf(sw, c, t)
  <2>1. TurnOf(ls, c, t) /\ t \in Nat /\ now \in Nat
    BY WardenNumbers DEF LeasesInv, TypeOK
  <2>2. CASE c \in DOMAIN sw \/ c \notin DOMAIN ls
    BY <1>1, <2>1, <2>2 DEF TurnOf
  <2>3. CASE c \in DOMAIN ls \ DOMAIN sw
    <3>1. ls[c].grantedAt \in Nat /\ ~(now - ls[c].grantedAt <= 5 * Hold) /\ ls[c].grantedAt <= now
      BY <1>1, <2>3, WardenNumbers DEF LeasesInv, Lease
    <3>2. \/ ls[c].grantedAt <= t /\ t < ls[c].grantedAt + Hold
          \/ t + 4 * Hold < ls[c].grantedAt
      BY <2>1, <2>3 DEF TurnOf
    <3>3. t + 4 * Hold < now
      BY <2>1, <3>1, <3>2, WardenNumbers
    <3> QED
      BY <2>3, <3>3 DEF TurnOf
  <2> QED
    BY <2>2, <2>3
<1>3. LeasesInv(sw)
  BY <1>1, <1>2 DEF LeasesInv
<1> QED
  BY <1>1, <1>3 DEF sw

\* The lease a request is judged by.
LEMMA LeaseTyped ==
    ASSUME TypeOK, ClocksInv, NEW ls, LeasesInv(ls), NEW c \in Clients
    PROVE  /\ LeaseOf(ls, c) \in Lease /\ LeaseOf(ls, c).grantedAt <= now
           /\ LeaseOf(ls, c).evictedAt # Never => told[c] \in 0 .. LeaseOf(ls, c).evictedAt
           /\ LeaseOf(ls, c).done => LeaseOf(ls, c).evictedAt # Never
           /\ \A t \in kept[c] : \/ LeaseOf(ls, c).grantedAt <= t /\ t < LeaseOf(ls, c).grantedAt + Hold
                                 \/ t + 4 * Hold < LeaseOf(ls, c).grantedAt
<1>1. CASE c \in DOMAIN ls
  BY <1>1 DEF LeasesInv, LeaseOf, TurnOf
<1>2. CASE c \notin DOMAIN ls
  <2>1. LeaseOf(ls, c) = NewLease /\ now \in Time
    BY <1>2 DEF LeaseOf, TypeOK
  <2>2. NewLease \in Lease /\ NewLease.grantedAt = now /\ NewLease.evictedAt = Never /\ NewLease.done = FALSE
    BY <2>1 DEF NewLease, Lease
  <2>3. now <= now
    BY <2>1, WardenNumbers
  <2>4. \A t \in kept[c] : t + 4 * Hold < now
    BY <1>2 DEF LeasesInv, TurnOf
  <2> QED
    BY <2>1, <2>2, <2>3, <2>4
<1> QED
  BY <1>1, <1>2

\* A lease that keeps its grant keeps the client's turns in order.
LEMMA StoreLease ==
    ASSUME WardenInv, NEW ls, LeasesInv(ls), NEW c \in Clients, NEW l \in Lease,
           l.grantedAt = LeaseOf(ls, c).grantedAt,
           leases' = WithLease(ls, c, l), now' = now,
           l.evictedAt # Never => told'[c] \in 0 .. l.evictedAt,
           l.done => l.evictedAt # Never,
           \A d \in Clients \ {c} : told'[d] = told[d] /\ kept'[d] = kept[d],
           \/ kept'[c] = kept[c]
           \/ kept'[c] = kept[c] \cup {now} /\ now - l.grantedAt < Hold
    PROVE  LeasesInv(leases)' /\ \A d \in Clients : \A t \in kept'[d] : t <= now
<1>a. TypeOK /\ ClocksInv /\ now \in Nat /\ now' = now
  BY WardenNumbers DEF WardenInv, TypeOK
<1>b. /\ DOMAIN leases' = DOMAIN ls \cup {c} /\ leases'[c] = l
      /\ \A d \in DOMAIN ls \ {c} : leases'[d] = ls[d]
      /\ leases' \in [DOMAIN leases' -> Lease] /\ DOMAIN leases' \subseteq Clients
  BY DEF WithLease, LeasesInv
<1>c. /\ l.grantedAt \in Nat /\ l.grantedAt <= now
      /\ \A t \in kept[c] : \/ l.grantedAt <= t /\ t < l.grantedAt + Hold
                            \/ t + 4 * Hold < l.grantedAt
  BY <1>a, LeaseTyped, WardenNumbers DEF Lease
<1>d. \A d \in Clients : \A t \in kept[d] : t <= now /\ t \in Nat
  BY <1>a, WardenNumbers DEF ClocksInv, TypeOK
<1>1. ASSUME NEW d \in DOMAIN leases'
      PROVE  /\ leases'[d].grantedAt <= now'
             /\ leases'[d].evictedAt # Never => told'[d] \in 0 .. leases'[d].evictedAt
             /\ leases'[d].done => leases'[d].evictedAt # Never
  <2>1. CASE d = c
    BY <1>a, <1>b, <1>c, <2>1
  <2>2. CASE d # c
    BY <1>a, <1>b, <1>1, <2>2 DEF LeasesInv
  <2> QED
    BY <2>1, <2>2
<1>2. ASSUME NEW d \in Clients, NEW t \in kept'[d]
      PROVE  /\ t <= now
             /\ IF d \in DOMAIN leases'
                THEN \/ leases'[d].grantedAt <= t /\ t < leases'[d].grantedAt + Hold
                     \/ t + 4 * Hold < leases'[d].grantedAt
                ELSE t + 4 * Hold < now'
  <2>1. CASE d = c /\ t \in kept[c]
    BY <1>b, <1>c, <1>d, <2>1
  <2>2. CASE d = c /\ t \notin kept[c]
    <3>1. t = now /\ now - l.grantedAt < Hold
      BY <1>2, <2>2
    <3>2. l.grantedAt <= t /\ t < l.grantedAt + Hold /\ t <= now
      BY <1>a, <1>c, <3>1, WardenNumbers
    <3> QED
      BY <1>b, <2>2, <3>2
  <2>3. CASE d # c
    <3>1. t \in kept[d] /\ TurnOf(ls, d, t)
      BY <1>2, <2>3 DEF LeasesInv
    <3> QED
      BY <1>a, <1>b, <1>d, <2>3, <3>1 DEF TurnOf
  <2> QED
    BY <2>1, <2>2, <2>3
<1> QED
  BY <1>b, <1>1, <1>2 DEF LeasesInv, TurnOf

\* Every call, every tick and every restart of the hotspot preserve the invariant.
LEMMA NextWarden == WardenInv /\ [Next]_vars => WardenInv'
<1> SUFFICES ASSUME WardenInv, [Next]_vars
             PROVE  WardenInv'
  OBVIOUS
<1>a. TypeOK /\ ClocksInv /\ LeasesInv(leases) /\ TurnsAreShort /\ now \in Nat /\ now <= MaxTime
  BY WardenNumbers DEF WardenInv, TypeOK, Time
<1>b. \A d \in Clients : kept[d] \subseteq Time /\ told[d] \in Time \cup {Never}
  BY <1>a DEF TypeOK
<1>1. CASE Tick
  <2>1. /\ now' = now + 1 /\ now' \in Time /\ UNCHANGED <<warden, offered, kept, told>>
        /\ UNCHANGED <<leases, doneRegs, seen, settled, lastSettleAt>>
    BY <1>1, <1>a, WardenNumbers DEF Tick, Time, warden
  <2>2. TypeOK'
    BY <1>a, <2>1 DEF TypeOK
  <2>3. ClocksInv'
    <3>1. lastSettleAt \in Nat /\ \A d \in Clients : told[d] \in Int /\ \A u \in kept[d] : u \in Nat
      BY <1>a, <1>b, WardenNumbers DEF TypeOK, Never
    <3> QED
      BY <1>a, <2>1, <3>1 DEF ClocksInv
  <2>4. LeasesInv(leases)'
    <3>1. \A d \in DOMAIN leases : leases[d].grantedAt \in Nat
      BY <1>a, WardenNumbers DEF LeasesInv, Lease
    <3>2. ASSUME NEW d \in Clients, NEW u \in kept[d]
          PROVE  TurnOf(leases, d, u)'
      <4>1. TurnOf(leases, d, u) /\ u \in Nat
        BY <1>a, <1>b, WardenNumbers DEF LeasesInv
      <4> QED
        BY <1>a, <2>1, <4>1, WardenNumbers DEF TurnOf
    <3> QED
      BY <1>a, <2>1, <3>1, <3>2 DEF LeasesInv
  <2>5. TurnsAreShort'
    BY <1>a, <2>1 DEF TurnsAreShort
  <2> QED
    BY <2>2, <2>3, <2>4, <2>5 DEF WardenInv
<1>2. ASSUME NEW c \in Clients, NEW t \in Typed, Touch(c, t)
      PROVE  WardenInv'
  <2> DEFINE r == Normalise[t]
             ls == Sweep(leases)
             l == LeaseOf(ls, c)
             verdict == Verdict(l, r)
             at == IF verdict # "KEEP" /\ l.evictedAt = Never THEN now ELSE l.evictedAt
             m == [l EXCEPT !.reg = KnownAs(l, r), !.evictedAt = at]
  <2>1. LeasesInv(ls)
    BY <1>a, SweepKeeps
  <2>2. /\ SeenAfter(ls, c) <= MaxCount /\ leases' = WithLease(ls, c, m) /\ seen' = SeenAfter(ls, c)
        /\ kept' = IF verdict = "KEEP" THEN [kept EXCEPT ![c] = @ \cup {now}] ELSE kept
        /\ told' = IF verdict # "KEEP" /\ told[c] = Never THEN [told EXCEPT ![c] = now] ELSE told
        /\ UNCHANGED <<now, doneRegs, settled, lastSettleAt, offered>>
    BY <1>2 DEF Touch
  <2> HIDE DEF ls
  <2>3. /\ l \in Lease /\ l.grantedAt <= now
        /\ l.evictedAt # Never => told[c] \in 0 .. l.evictedAt
        /\ l.done => l.evictedAt # Never
        /\ \A u \in kept[c] : \/ l.grantedAt <= u /\ u < l.grantedAt + Hold
                              \/ u + 4 * Hold < l.grantedAt
    BY <1>a, <2>1, LeaseTyped
  <2>4. r \in Regs \cup {Blank} /\ KnownAs(l, r) \in Regs \cup {Blank}
    BY <2>3, WardenAssumption DEF KnownAs, Lease
  <2> HIDE DEF l, r
  <2>5. verdict = "KEEP" => now - l.grantedAt < Hold
    BY <1>a, <2>3, WardenNumbers DEF Verdict, Lease
  <2> HIDE DEF verdict
  <2>6. at \in Time \cup {Never}
    BY <1>a, <2>3 DEF Lease, TypeOK
  <2>7. m \in Lease /\ m.grantedAt = l.grantedAt /\ m.evictedAt = at /\ m.done = l.done
    <3> HIDE DEF at
    <3> QED
      BY <2>3, <2>4, <2>6 DEF Lease
  <2> HIDE DEF m
  <2>8. /\ kept' \in [Clients -> SUBSET Time] /\ told' \in [Clients -> Time \cup {Never}]
        /\ \A d \in Clients \ {c} : told'[d] = told[d] /\ kept'[d] = kept[d]
        /\ kept'[c] = (IF verdict = "KEEP" THEN kept[c] \cup {now} ELSE kept[c])
        /\ told'[c] = (IF verdict # "KEEP" /\ told[c] = Never THEN now ELSE told[c])
    <3>1. /\ kept \in [Clients -> SUBSET Time] /\ told \in [Clients -> Time \cup {Never}]
          /\ now \in Time
      BY <1>a DEF TypeOK
    <3> QED
      BY <2>2, <3>1
  <2>9. at # Never => told'[c] \in 0 .. at
    <3>1. told[c] \in Int /\ told[c] <= now /\ (told[c] # Never => told[c] >= 0)
      BY <1>a, <1>b, InstantType DEF ClocksInv
    <3>2. l.evictedAt \in Int
      BY <2>3, InstantType DEF Lease
    <3>3. CASE verdict # "KEEP" /\ l.evictedAt = Never
      BY <1>a, <2>8, <3>1, <3>3
    <3>4. CASE ~(verdict # "KEEP" /\ l.evictedAt = Never)
      <4>1. at = l.evictedAt
        BY <3>4
      <4>2. CASE l.evictedAt # Never
        BY <2>3, <2>8, <4>1, <4>2 DEF Never
      <4> QED
        BY <4>1, <4>2
    <3> QED
      BY <3>3, <3>4
  <2>10. m.done => m.evictedAt # Never
    BY <2>3, <2>7, <1>a, WardenNumbers DEF Never
  <2>11. LeasesInv(leases)' /\ \A d \in Clients : \A u \in kept'[d] : u <= now
    <3> HIDE DEF at
    <3>1. l = LeaseOf(ls, c) /\ m \in Lease /\ leases' = WithLease(ls, c, m) /\ now' = now
      BY <2>2, <2>7 DEF l
    <3>2. m.grantedAt = LeaseOf(ls, c).grantedAt
      BY <2>7, <3>1
    <3>3. m.evictedAt # Never => told'[c] \in 0 .. m.evictedAt
      BY <2>7, <2>9
    <3>4. \/ kept'[c] = kept[c]
          \/ kept'[c] = kept[c] \cup {now} /\ now - m.grantedAt < Hold
      BY <2>5, <2>7, <2>8
    <3> QED
      BY <2>1, <2>8, <2>10, <3>1, <3>2, <3>3, <3>4, StoreLease
  <2>12. ClocksInv'
    <3>1. \A d \in Clients : told'[d] <= now
      BY <1>a, <2>8 DEF ClocksInv
    <3> QED
      BY <1>a, <2>2, <2>11, <3>1 DEF ClocksInv
  <2>13. TypeOK'
    <3>1. SeenAfter(ls, c) \in 0 .. MaxCount
      BY <1>a, <2>2, WardenNumbers DEF SeenAfter, TypeOK
    <3> QED
      BY <1>a, <2>2, <2>8, <2>11, <3>1 DEF TypeOK, LeasesInv
  <2>14. TurnsAreShort'
    <3> SUFFICES ASSUME NEW d \in Clients, NEW u \in kept'[d], NEW v \in kept'[d], u <= v
                 PROVE  v - u < Hold \/ v - u > 4 * Hold
      BY DEF TurnsAreShort
    <3>1. CASE u \in kept[d] /\ v \in kept[d]
      BY <1>a, <3>1 DEF TurnsAreShort
    <3>2. CASE d = c /\ verdict = "KEEP" /\ u = now
      <4>1. v <= now /\ now <= v /\ v \in Nat
        BY <1>a, <1>b, <2>8, <2>11, <3>2, WardenNumbers
      <4> QED
        BY <1>a, <3>2, <4>1, WardenNumbers
    <3>3. CASE d = c /\ verdict = "KEEP" /\ v = now /\ u \in kept[c]
      <4>1. u \in Nat /\ l.grantedAt \in Nat
        BY <1>b, <2>3, <3>3, WardenNumbers DEF Lease
      <4>2. (l.grantedAt <= u /\ u < l.grantedAt + Hold) \/ u + 4 * Hold < l.grantedAt
        BY <2>3, <3>3
      <4> QED
        BY <1>a, <2>3, <2>5, <3>3, <4>1, <4>2, WardenNumbers
    <3> QED
      BY <2>8, <3>1, <3>2, <3>3
  <2> QED
    BY <2>11, <2>12, <2>13, <2>14 DEF WardenInv
<1>3. ASSUME NEW c \in Clients, NEW t \in Typed, Settle(c, t)
      PROVE  WardenInv'
  <2> DEFINE r == Normalise[t]
             l == LeaseOf(leases, c)
             at == IF ~l.done /\ l.evictedAt = Never THEN now ELSE l.evictedAt
             m == [l EXCEPT !.done = TRUE, !.reg = KnownAs(l, r), !.evictedAt = at]
  <2>1. /\ r # Blank /\ SeenAfter(leases, c) <= MaxCount /\ settled < MaxCount
        /\ doneRegs' = doneRegs \cup {r} /\ leases' = WithLease(leases, c, m)
        /\ seen' = SeenAfter(leases, c)
        /\ settled' = IF l.done THEN settled ELSE settled + 1
        /\ lastSettleAt' = IF l.done THEN lastSettleAt ELSE now
        /\ told' = IF told[c] = Never THEN [told EXCEPT ![c] = now] ELSE told
        /\ UNCHANGED <<now, offered, kept>>
    BY <1>3 DEF Settle
  <2>2. /\ l \in Lease /\ l.grantedAt <= now
        /\ l.evictedAt # Never => told[c] \in 0 .. l.evictedAt
        /\ l.done => l.evictedAt # Never
    BY <1>a, LeaseTyped
  <2>3. r \in Regs /\ KnownAs(l, r) \in Regs \cup {Blank}
    BY <2>1, <2>2, WardenAssumption DEF KnownAs, Lease
  <2> HIDE DEF l, r
  <2>4. at \in Time /\ at # Never
    BY <1>a, <2>2, WardenNumbers DEF Lease, TypeOK, Never
  <2>5. m \in Lease /\ m.grantedAt = l.grantedAt /\ m.evictedAt = at /\ m.done = TRUE
    <3> HIDE DEF at
    <3> QED
      BY <2>2, <2>3, <2>4 DEF Lease
  <2> HIDE DEF m
  <2>6. /\ told' \in [Clients -> Time \cup {Never}] /\ kept' = kept
        /\ \A d \in Clients \ {c} : told'[d] = told[d]
        /\ told'[c] = (IF told[c] = Never THEN now ELSE told[c])
    <3>1. told \in [Clients -> Time \cup {Never}] /\ now \in Time
      BY <1>a DEF TypeOK
    <3> QED
      BY <2>1, <3>1
  <2>7. told'[c] \in 0 .. at
    <3>1. told[c] \in Int /\ told[c] <= now /\ (told[c] # Never => told[c] >= 0)
      BY <1>a, <1>b, InstantType DEF ClocksInv
    <3>2. CASE ~l.done /\ l.evictedAt = Never
      BY <1>a, <2>6, <3>1, <3>2
    <3>3. CASE l.evictedAt # Never
      BY <2>2, <2>6, <3>3 DEF Never
    <3> QED
      BY <2>2, <3>2, <3>3
  <2>8. LeasesInv(leases)' /\ \A d \in Clients : \A u \in kept'[d] : u <= now
    <3> HIDE DEF at
    <3>1. m.grantedAt = LeaseOf(leases, c).grantedAt /\ leases' = WithLease(leases, c, m) /\ now' = now
      BY <2>1, <2>5 DEF l
    <3>2. m.evictedAt # Never => told'[c] \in 0 .. m.evictedAt
      BY <2>5, <2>7
    <3>3. m.done => m.evictedAt # Never
      BY <2>4, <2>5
    <3>4. /\ \A d \in Clients \ {c} : told'[d] = told[d] /\ kept'[d] = kept[d]
          /\ kept'[c] = kept[c]
      BY <2>6
    <3> QED
      BY <1>a, <2>5, <3>1, <3>2, <3>3, <3>4, StoreLease
  <2>9. ClocksInv'
    <3>1. \A d \in Clients : told'[d] <= now
      BY <1>a, <2>6 DEF ClocksInv
    <3>2. lastSettleAt' <= now
      BY <1>a, <2>1 DEF ClocksInv
    <3> QED
      BY <2>1, <2>8, <3>1, <3>2 DEF ClocksInv
  <2>10. TypeOK'
    <3>1. SeenAfter(leases, c) \in 0 .. MaxCount /\ settled' \in 0 .. MaxCount
      BY <1>a, <2>1, WardenNumbers DEF SeenAfter, TypeOK
    <3>2. lastSettleAt' \in Time /\ doneRegs' \subseteq Regs
      BY <1>a, <2>1, <2>3 DEF TypeOK
    <3> QED
      BY <1>a, <2>1, <2>6, <2>8, <3>1, <3>2 DEF TypeOK, LeasesInv
  <2>11. TurnsAreShort'
    BY <1>a, <2>6 DEF TurnsAreShort
  <2> QED
    BY <2>8, <2>9, <2>10, <2>11 DEF WardenInv
<1>4. ASSUME NEW c \in Clients, Release(c)
      PROVE  WardenInv'
  <2>1. /\ leases' = [d \in DOMAIN leases \ {c} |-> leases[d]]
        /\ kept' = [kept EXCEPT ![c] = {}] /\ told' = [told EXCEPT ![c] = Never]
        /\ UNCHANGED <<now, doneRegs, seen, settled, lastSettleAt, offered>>
    BY <1>4 DEF Release
  <2>2. /\ kept' \in [Clients -> SUBSET Time] /\ told' \in [Clients -> Time \cup {Never}]
        /\ kept'[c] = {} /\ told'[c] = Never
        /\ \A d \in Clients \ {c} : kept'[d] = kept[d] /\ told'[d] = told[d]
    BY <1>a, <2>1 DEF TypeOK
  <2>3. /\ DOMAIN leases' = DOMAIN leases \ {c}
        /\ \A d \in DOMAIN leases' : leases'[d] = leases[d]
        /\ leases' \in [DOMAIN leases' -> Lease] /\ DOMAIN leases' \subseteq Clients
    BY <1>a, <2>1 DEF LeasesInv
  <2>4. TypeOK'
    BY <1>a, <2>1, <2>2, <2>3 DEF TypeOK
  <2>5. ClocksInv'
    BY <1>a, <2>1, <2>2 DEF ClocksInv, Never
  <2>6. LeasesInv(leases)'
    <3>1. ASSUME NEW d \in Clients, NEW u \in kept'[d]
          PROVE  TurnOf(leases, d, u)'
      <4>1. d # c /\ TurnOf(leases, d, u)
        BY <1>a, <2>2, <3>1 DEF LeasesInv
      <4> QED
        BY <2>1, <2>3, <4>1 DEF TurnOf
    <3> QED
      BY <1>a, <2>1, <2>2, <2>3, <3>1 DEF LeasesInv
  <2>7. TurnsAreShort'
    BY <1>a, <2>2 DEF TurnsAreShort
  <2> QED
    BY <2>4, <2>5, <2>6, <2>7 DEF WardenInv
<1>5. CASE Mirror
  <2>1. /\ leases' = Sweep(leases) /\ offered' \in BOOLEAN
        /\ UNCHANGED <<now, doneRegs, seen, settled, lastSettleAt, kept, told>>
    BY <1>5 DEF Mirror, Jammed
  <2>2. LeasesInv(Sweep(leases))
    BY <1>a, SweepKeeps
  <2>3. LeasesInv(leases)'
    BY <2>1, <2>2 DEF LeasesInv, TurnOf
  <2> QED
    BY <1>a, <2>1, <2>3 DEF WardenInv, TypeOK, ClocksInv, TurnsAreShort, LeasesInv
<1>6. CASE Reset /\ offered' \in BOOLEAN
  <2>1. /\ DOMAIN leases' = {} /\ leases' \in [{} -> Lease] /\ doneRegs' = {}
        /\ seen' = 0 /\ settled' = 0 /\ lastSettleAt' = now /\ now' = now
        /\ kept' = [d \in Clients |-> {}] /\ told' = [d \in Clients |-> Never]
    BY <1>6 DEF Reset
  <2>2. TypeOK'
    BY <1>6, <1>a, <2>1, WardenNumbers DEF TypeOK
  <2>3. ClocksInv'
    BY <1>a, <2>1 DEF ClocksInv, Never
  <2>4. LeasesInv(leases)' /\ TurnsAreShort'
    BY <2>1 DEF LeasesInv, TurnsAreShort
  <2> QED
    BY <2>2, <2>3, <2>4 DEF WardenInv
<1>7. CASE UNCHANGED vars
  BY <1>7 DEF vars, warden, WardenInv, TypeOK, ClocksInv, LeasesInv, TurnOf, TurnsAreShort
<1> QED
  BY <1>1, <1>2, <1>3, <1>4, <1>5, <1>6, <1>7, <1>a DEF Next, NewSession, ForceFreeSlots, TypeOK

\* A warden that has seen nobody.
LEMMA InitWarden == Init => WardenInv
<1> SUFFICES ASSUME Init
             PROVE  WardenInv
  OBVIOUS
<1>1. /\ DOMAIN leases = {} /\ leases \in [{} -> Lease] /\ doneRegs = {} /\ now = 0
      /\ seen = 0 /\ settled = 0 /\ lastSettleAt = 0 /\ offered = FALSE
      /\ kept = [c \in Clients |-> {}] /\ told = [c \in Clients |-> Never]
  BY DEF Init
<1>2. TypeOK
  <2>1. 0 \in 0 .. MaxCount
    BY WardenNumbers
  <2>2. kept \in [Clients -> SUBSET Time] /\ told \in [Clients -> Time \cup {Never}]
    BY <1>1
  <2>3. DOMAIN leases \subseteq Clients /\ leases \in [DOMAIN leases -> Lease]
    BY <1>1
  <2> QED
    BY <1>1, <2>1, <2>2, <2>3, WardenNumbers DEF TypeOK
<1>3. ClocksInv
  BY <1>1 DEF ClocksInv, Never
<1>4. LeasesInv(leases) /\ TurnsAreShort
  BY <1>1 DEF LeasesInv, TurnsAreShort
<1> QED
  BY <1>2, <1>3, <1>4 DEF WardenInv

\* However clients poll, check in, leave and come back, a slot rotates (a client
\* that never reports leaving is kept within one hold, then not for four) and the
\* warden's stuck-clock agrees with what the client was told (SlotWarden.kt).
THEOREM WardenIsFairAlways == Spec => []WardenIsFair
<1>1. WardenInv => WardenIsFair
  BY DEF WardenInv, WardenIsFair, LeasesInv, StuckClockIsHonest
<1> QED
  BY <1>1, InitWarden, NextWarden, PTL DEF Spec

\* No spelling, address, release or sweep gets a finished student answered KEEP
\* within the session (SlotWarden.kt, touch).
THEOREM FinishedIsNotKeptAlways == Spec => FinishedIsNotKept
<1>1. ASSUME NEW c \in Clients, NEW t \in Typed, Normalise[t] \in doneRegs, Touch(c, t)
      PROVE  kept' = kept
  BY <1>1 DEF Touch, Verdict
<1>2. [\A c \in Clients, t \in Typed :
          Normalise[t] \in doneRegs /\ kept'[c] # kept[c] => ~Touch(c, t)]_vars
  BY <1>1
<1> QED
  BY <1>2, PTL DEF Spec, FinishedIsNotKept

-----------------------------------------------------------------------------
(* Accounts.                                                               *)

UserRow == [role : Role, active : BOOLEAN, pw : Int, force : BOOLEAN, failed : Nat,
            lockedUntil : Nat, totp : Int, totpOn : BOOLEAN, key : Nat]
Token == [id : Nat, exp : Nat]

\* What a request in flight has read.
LoginReq    == [pc : {"wrong", "right", "key"}, role : Role, key : Nat]
PasswordReq == [pc : {"password"}, pw : Int]
RefreshReq  == [pc : {"refresh"}, token : Token]
AnyPending  == {Free} \cup LoginReq \cup PasswordReq \cup RefreshReq

AccountTyped ==
    /\ acct \in NoRow \cup UserRow
    /\ pending \in [Req -> AnyPending]
    /\ tick \in Nat /\ spill \in Nat
    /\ keysOut \subseteq Nat /\ IsFiniteSet(keysOut)
    /\ token \subseteq Token /\ IsFiniteSet(token)

\* A login in flight is of the account's own role; none is in flight before the
\* account is there.
RoleInv ==
    \A r \in Req : pending[r] \in LoginReq =>
        /\ acct # Unborn
        /\ acct \notin NoRow => pending[r].role = acct.role

\* Only a student's account is ever locked.
StudentLock == acct \notin NoRow /\ acct.lockedUntil > 0 => acct.role = "STUDENT"

Wrong  == {r \in Req : pending[r].pc = "wrong"}
Locked == acct \notin NoRow /\ tick < acct.lockedUntil

\* While the lock is in force, the failures it let through and those still to be
\* recorded are of other requests than the one that locked the account.
GuessInv ==
    /\ spill < Cardinality(Req)
    /\ Locked => spill + Cardinality(Wrong) < Cardinality(Req)

\* A jti names one token, and a blacklist entry lasts as long as its token.
TokenInv ==
    /\ \A t \in token : t.id \in 1 .. Cardinality(token)
    /\ \A t, u \in token : t.id = u.id => t = u
    /\ \A b \in blacklist : \E t \in token : b.id = t.id /\ b.until = t.exp
    /\ \A r \in Req : pending[r].pc = "refresh" => pending[r].token \in token

AccountsInv == AccountTyped /\ RoleInv /\ StudentLock /\ GuessInv /\ LockIsEarned /\ TokenInv

\* The constants as numbers.
LEMMA AccountNumbers ==
    /\ FailLimit \in Nat \ {0} /\ LockTime \in Nat \ {0} /\ TokenTTL \in Nat \ {0} /\ DayEnd \in Nat
    /\ IsFiniteSet(Req) /\ Cardinality(Req) \in Nat /\ Cardinality(Req) > 0
<1>1. /\ FailLimit \in Nat \ {0} /\ LockTime \in Nat \ {0} /\ TokenTTL \in Nat \ {0} /\ DayEnd \in Nat
      /\ IsFiniteSet(Req) /\ Req # {}
  BY AccountsAssumption
<1>2. Cardinality(Req) \in Nat /\ Cardinality(Req) # 0
  BY <1>1, FS_CardinalityType, FS_EmptySet
<1> QED
  BY <1>1, <1>2

\* A row is told from no row by its role.
LEMMA RowShape ==
    /\ \A u \in UserRow : u \notin NoRow
    /\ \A u \in NoRow : u.role \notin Role
<1>1. Gone.role = "none" /\ Unborn.role = "not yet"
  BY DEF Gone, Unborn
<1>2. \A u \in UserRow : u.role \in Role
  BY DEF UserRow
<1>3. "none" \notin Role /\ "not yet" \notin Role
  BY DEF Role
<1> QED
  BY <1>1, <1>2, <1>3 DEF NoRow

\* What a request has read is told by how far it is.
LEMMA PendingShape ==
    ASSUME NEW x \in AnyPending
    PROVE  /\ x.pc \in {"wrong", "right", "key"} <=> x \in LoginReq
           /\ x.pc = "password" <=> x \in PasswordReq
           /\ x.pc = "refresh" <=> x \in RefreshReq
           /\ x.pc = "free" <=> x = Free
<1>1. CASE x = Free
  BY <1>1 DEF Free, LoginReq, PasswordReq, RefreshReq
<1>2. CASE x \in LoginReq
  BY <1>2 DEF Free, LoginReq, PasswordReq, RefreshReq
<1>3. CASE x \in PasswordReq
  BY <1>3 DEF Free, LoginReq, PasswordReq, RefreshReq
<1>4. CASE x \in RefreshReq
  BY <1>4 DEF Free, LoginReq, PasswordReq, RefreshReq
<1> QED
  BY <1>1, <1>2, <1>3, <1>4 DEF AnyPending

\* The failures still to be recorded, counted.
LEMMA WrongCount == IsFiniteSet(Wrong) /\ Cardinality(Wrong) \in Nat /\ Cardinality(Wrong) <= Cardinality(Req)
<1>1. Wrong \in SUBSET Req
  BY DEF Wrong
<1>2. IsFiniteSet(Wrong) /\ Cardinality(Wrong) <= Cardinality(Req)
  BY <1>1, AccountNumbers, FS_Subset
<1> QED
  BY <1>2, FS_CardinalityType

\* A step that takes no lock and starts no guess.
LEMMA QuietStep ==
    ASSUME AccountsInv, AccountTyped', spill' = spill, tick' >= tick,
           \/ acct' \in NoRow
           \/ acct' \in UserRow /\ acct'.lockedUntil = 0
           \/ /\ acct \in UserRow /\ acct' \in UserRow /\ acct'.role = acct.role
              /\ acct'.failed = acct.failed /\ acct'.lockedUntil = acct.lockedUntil,
           Wrong' \subseteq Wrong
    PROVE  StudentLock' /\ GuessInv' /\ LockIsEarned'
<1>a. /\ AccountTyped /\ GuessInv /\ LockIsEarned /\ StudentLock /\ tick \in Nat /\ tick' \in Nat
      /\ spill \in Nat
  BY DEF AccountsInv, AccountTyped
<1>b. Cardinality(Wrong') <= Cardinality(Wrong) /\ Cardinality(Wrong') \in Nat /\ Cardinality(Wrong) \in Nat
  <2>1. Cardinality(Wrong') <= Cardinality(Wrong) /\ IsFiniteSet(Wrong')
    BY WrongCount, FS_Subset
  <2> QED
    BY <2>1, WrongCount, FS_CardinalityType
<1>1. CASE acct' \in NoRow
  BY <1>1, <1>a DEF StudentLock, GuessInv, LockIsEarned, Locked, NoRow, Gone, Unborn
<1>2. CASE acct' \in UserRow /\ acct'.lockedUntil = 0
  <2>1. ~Locked' /\ ~(acct'.lockedUntil > tick') /\ ~(acct'.lockedUntil > 0)
    BY <1>2, <1>a DEF Locked
  <2> QED
    BY <1>a, <2>1 DEF StudentLock, GuessInv, LockIsEarned
<1>3. CASE /\ acct \in UserRow /\ acct' \in UserRow /\ acct'.role = acct.role
           /\ acct'.failed = acct.failed /\ acct'.lockedUntil = acct.lockedUntil
  <2>1. acct \notin NoRow /\ acct.lockedUntil \in Nat /\ acct.failed \in Nat
    BY <1>3, RowShape DEF UserRow
  <2>2. StudentLock'
    BY <1>3, <1>a, <2>1 DEF StudentLock
  <2>3. Locked' => Locked
    BY <1>3, <1>a, <2>1 DEF Locked
  <2>4. GuessInv'
    BY <1>a, <1>b, <2>3, AccountNumbers DEF GuessInv
  <2>5. LockIsEarned'
    BY <1>3, <1>a, <2>1 DEF LockIsEarned
  <2> QED
    BY <2>2, <2>4, <2>5
<1> QED
  BY <1>1, <1>2, <1>3

\* A step that issues at most one token and revokes only tokens.
LEMMA TokenStep ==
    ASSUME AccountsInv, AccountTyped',
           \/ token' = token
           \/ \E x : token' = token \cup {[id |-> Cardinality(token) + 1, exp |-> x]},
           \A b \in blacklist' : b \in blacklist \/ \E t \in token : b.id = t.id /\ b.until = t.exp,
           \A r \in Req : pending'[r].pc = "refresh" => pending'[r].token \in token
    PROVE  TokenInv'
<1>a. TokenInv /\ AccountTyped /\ IsFiniteSet(token) /\ Cardinality(token) \in Nat
  BY FS_CardinalityType DEF AccountsInv, AccountTyped
<1>1. CASE token' = token
  BY <1>1, <1>a DEF TokenInv
<1>2. ASSUME NEW x, token' = token \cup {[id |-> Cardinality(token) + 1, exp |-> x]}
      PROVE  TokenInv'
  <2> DEFINE n == [id |-> Cardinality(token) + 1, exp |-> x]
  <2>1. n.id = Cardinality(token) + 1
    OBVIOUS
  <2>2. \A t \in token : t.id \in 1 .. Cardinality(token)
    BY <1>a DEF TokenInv
  <2>3. n \notin token
    BY <1>a, <2>1, <2>2
  <2> HIDE DEF n
  <2>4. Cardinality(token') = Cardinality(token) + 1
    <3>1. token' = token \cup {n}
      BY <1>2 DEF n
    <3>2. Cardinality(token \cup {n}) = IF n \in token THEN Cardinality(token) ELSE Cardinality(token) + 1
      BY <1>a, FS_AddElement
    <3> QED
      BY <2>3, <3>1, <3>2
  <2>5. \A t \in token' : t.id \in 1 .. Cardinality(token')
    BY <1>2, <1>a, <2>1, <2>2, <2>4 DEF n
  <2>6. \A t, u \in token' : t.id = u.id => t = u
    <3>1. \A t \in token : t.id # n.id
      BY <1>a, <2>1, <2>2
    <3> QED
      BY <1>2, <1>a, <3>1 DEF TokenInv, n
  <2>7. \A b \in blacklist' : \E t \in token' : b.id = t.id /\ b.until = t.exp
    BY <1>2, <1>a DEF TokenInv
  <2> QED
    BY <1>2, <2>5, <2>6, <2>7 DEF TokenInv
<1> QED
  BY <1>1, <1>2

\* A token that is issued is a token.
LEMMA IssueTyped ==
    ASSUME AccountTyped, NEW ttl \in Int, Issue(ttl)
    PROVE  /\ token' \subseteq Token /\ IsFiniteSet(token')
           /\ \E x : token' = token \cup {[id |-> Cardinality(token) + 1, exp |-> x]}
<1>1. TTL(ttl) \in Nat
  BY AccountNumbers DEF TTL
<1>2. tick + TTL(ttl) \in Nat /\ Cardinality(token) \in Nat /\ IsFiniteSet(token) /\ token \subseteq Token
  BY <1>1, FS_CardinalityType DEF AccountTyped
<1>3. token' = token \cup {[id |-> Cardinality(token) + 1, exp |-> tick + TTL(ttl)]}
  BY DEF Issue
<1>4. [id |-> Cardinality(token) + 1, exp |-> tick + TTL(ttl)] \in Token
  BY <1>2 DEF Token
<1>5. IsFiniteSet(token')
  BY <1>2, <1>3, FS_AddElement
<1> QED
  BY <1>2, <1>3, <1>4, <1>5

\* A request moves on to x.
LEMMA PendingStep ==
    ASSUME AccountTyped, RoleInv, NEW r \in Req, NEW x \in AnyPending,
           pending' = [pending EXCEPT ![r] = x],
           acct' \in NoRow \cup UserRow, acct' # Unborn \/ acct = Unborn,
           acct' \in UserRow => acct \in UserRow /\ acct'.role = acct.role,
           x \in LoginReq => acct # Unborn /\ (acct \in UserRow => x.role = acct.role)
    PROVE  /\ pending' \in [Req -> AnyPending] /\ RoleInv'
           /\ pending'[r] = x /\ \A q \in Req \ {r} : pending'[q] = pending[q]
<1>1. /\ pending' \in [Req -> AnyPending]
      /\ pending'[r] = x /\ \A q \in Req \ {r} : pending'[q] = pending[q]
  BY DEF AccountTyped
<1>2. ASSUME NEW q \in Req, pending'[q] \in LoginReq
      PROVE  acct' # Unborn /\ (acct' \notin NoRow => pending'[q].role = acct'.role)
  BY <1>1, <1>2, RowShape DEF RoleInv, AccountTyped
<1> QED
  BY <1>1, <1>2 DEF RoleInv

\* A step that leaves the requests alone.
LEMMA NoPendingStep ==
    ASSUME AccountTyped, RoleInv, pending' = pending,
           acct' \in NoRow \cup UserRow, acct' # Unborn \/ acct = Unborn,
           acct' \in UserRow => \/ acct = Unborn
                                \/ acct \in UserRow /\ acct'.role = acct.role
    PROVE  pending' \in [Req -> AnyPending] /\ RoleInv' /\ Wrong' = Wrong
<1>1. ASSUME NEW q \in Req, pending'[q] \in LoginReq
      PROVE  acct' # Unborn /\ (acct' \notin NoRow => pending'[q].role = acct'.role)
  BY <1>1, RowShape DEF RoleInv, AccountTyped
<1> QED
  BY <1>1 DEF RoleInv, AccountTyped, Wrong

\* A request that leaves the row, the tokens and the clock alone.
LEMMA ReadStep ==
    ASSUME AccountsInv, NEW r \in Req, NEW x \in AnyPending, StartReq(r, x),
           UNCHANGED acct, rowOnly,
           x \in LoginReq => acct \in UserRow /\ x.role = acct.role,
           x.pc = "wrong" => ~Locked,
           x.pc = "refresh" => x.token \in token
    PROVE  AccountsInv'
<1>a. /\ AccountTyped /\ RoleInv /\ StudentLock /\ GuessInv /\ LockIsEarned /\ TokenInv
      /\ UNCHANGED <<acct, token, blacklist, keysOut, spill, tick>>
      /\ pending' = [pending EXCEPT ![r] = x]
  BY DEF AccountsInv, rowOnly, StartReq
<1>b. acct \in NoRow \cup UserRow /\ (acct \in UserRow => acct \notin NoRow)
      /\ (acct \in UserRow => acct # Unborn)
  BY <1>a, RowShape DEF AccountTyped, NoRow
<1>1. /\ pending' \in [Req -> AnyPending] /\ RoleInv'
      /\ pending'[r] = x /\ \A q \in Req \ {r} : pending'[q] = pending[q]
  BY <1>a, <1>b, PendingStep
<1>2. AccountTyped'
  BY <1>a, <1>1 DEF AccountTyped
<1>3. StudentLock' /\ LockIsEarned'
  BY <1>a DEF StudentLock, LockIsEarned
<1>4. GuessInv'
  <2>1. CASE x.pc = "wrong"
    BY <1>a, <2>1 DEF GuessInv, Locked
  <2>2. CASE x.pc # "wrong"
    <3>1. Wrong' \subseteq Wrong
      BY <1>1, <2>2 DEF Wrong
    <3>2. Cardinality(Wrong') <= Cardinality(Wrong) /\ IsFiniteSet(Wrong')
      BY <3>1, WrongCount, FS_Subset
    <3>3. Cardinality(Wrong') \in Nat /\ Cardinality(Wrong) \in Nat /\ spill \in Nat
      BY <1>a, <3>2, WrongCount, FS_CardinalityType DEF AccountTyped
    <3>4. Locked' <=> Locked
      BY <1>a DEF Locked
    <3> QED
      BY <1>a, <3>2, <3>3, <3>4, AccountNumbers DEF GuessInv
  <2> QED
    BY <2>1, <2>2
<1>5. TokenInv'
  <2>1. \A q \in Req : pending'[q].pc = "refresh" => pending'[q].token \in token
    BY <1>a, <1>1 DEF TokenInv
  <2> QED
    BY <1>a, <1>2, <2>1, TokenStep
<1> QED
  BY <1>1, <1>2, <1>3, <1>4, <1>5 DEF AccountsInv

\* A step that takes no lock, starts no guess and leaves the spill alone: what is
\* left to check is where the row, the request and the tokens end up.
LEMMA CalmStep ==
    ASSUME AccountsInv, UNCHANGED spill, tick' \in Nat, tick' >= tick,
           RoleInv', pending' \in [Req -> AnyPending],
           \A q \in Req : /\ pending'[q].pc = "wrong" => pending[q].pc = "wrong"
                          /\ pending'[q].pc = "refresh" => pending'[q] = pending[q],
           \/ acct' \in NoRow
           \/ acct' \in UserRow /\ acct'.lockedUntil = 0
           \/ /\ acct \in UserRow /\ acct' \in UserRow /\ acct'.role = acct.role
              /\ acct'.failed = acct.failed /\ acct'.lockedUntil = acct.lockedUntil,
           keysOut' \subseteq Nat, IsFiniteSet(keysOut'),
           token' = token \/ \E ttl \in Int : Issue(ttl),
           \A b \in blacklist' : b \in blacklist \/ \E t \in token : b.id = t.id /\ b.until = t.exp
    PROVE  AccountsInv'
<1>a. AccountTyped /\ TokenInv
  BY DEF AccountsInv
<1>1. /\ token' \subseteq Token /\ IsFiniteSet(token')
      /\ \/ token' = token
         \/ \E x : token' = token \cup {[id |-> Cardinality(token) + 1, exp |-> x]}
  <2>1. CASE token' = token
    BY <1>a, <2>1 DEF AccountTyped
  <2>2. ASSUME NEW ttl \in Int, Issue(ttl)
        PROVE  /\ token' \subseteq Token /\ IsFiniteSet(token')
               /\ \E x : token' = token \cup {[id |-> Cardinality(token) + 1, exp |-> x]}
    BY <1>a, <2>2, IssueTyped
  <2> QED
    BY <2>1, <2>2
<1>2. AccountTyped'
  BY <1>a, <1>1 DEF AccountTyped
<1>3. Wrong' \subseteq Wrong
  BY DEF Wrong
<1>4. StudentLock' /\ GuessInv' /\ LockIsEarned'
  BY <1>2, <1>3, QuietStep
<1>5. \A q \in Req : pending'[q].pc = "refresh" => pending'[q].token \in token
  BY <1>a DEF TokenInv
<1>6. TokenInv'
  BY <1>1, <1>2, <1>5, TokenStep
<1> QED
  BY <1>2, <1>4, <1>6 DEF AccountsInv

\* A wrong password is counted; the lock is taken when the allowance is used up, and
\* the request that takes it is in flight no more.
LEMMA WrongStep ==
    ASSUME AccountsInv, NEW r \in Req, LoginWrong(r)
    PROVE  AccountsInv'
<1>a. AccountTyped /\ RoleInv /\ StudentLock /\ GuessInv /\ LockIsEarned /\ TokenInv
  BY DEF AccountsInv
<1>b. /\ pending[r].pc = "wrong" /\ pending' = [pending EXCEPT ![r] = Free]
      /\ acct' = IF acct \notin NoRow /\ pending[r].role = "STUDENT" THEN RecordLoginFailure(acct) ELSE acct
      /\ spill' = IF acct \notin NoRow /\ tick < acct.lockedUntil THEN spill + 1 ELSE 0
      /\ UNCHANGED <<token, blacklist, standby, keysOut, disableMFA, tick>>
  BY DEF LoginWrong, EndReq
<1>c. /\ pending[r] \in LoginReq /\ acct # Unborn /\ (acct \notin NoRow => pending[r].role = acct.role)
  BY <1>a, <1>b, PendingShape DEF RoleInv, AccountTyped
<1>d. acct \in NoRow \cup UserRow /\ (acct \in UserRow => acct \notin NoRow) /\ tick \in Nat /\ spill \in Nat
  BY <1>a, RowShape DEF AccountTyped
<1>1. acct \in UserRow =>
        /\ RecordLoginFailure(acct) \in UserRow
        /\ RecordLoginFailure(acct).role = acct.role
        /\ RecordLoginFailure(acct).failed = acct.failed + 1
        /\ RecordLoginFailure(acct).lockedUntil =
              IF acct.failed + 1 >= FailLimit THEN tick + LockTime ELSE acct.lockedUntil
  <2> SUFFICES ASSUME acct \in UserRow
               PROVE  /\ RecordLoginFailure(acct) \in UserRow
                      /\ RecordLoginFailure(acct).role = acct.role
                      /\ RecordLoginFailure(acct).failed = acct.failed + 1
                      /\ RecordLoginFailure(acct).lockedUntil =
                            IF acct.failed + 1 >= FailLimit THEN tick + LockTime ELSE acct.lockedUntil
    OBVIOUS
  <2> DEFINE lu == IF acct.failed + 1 >= FailLimit THEN tick + LockTime ELSE acct.lockedUntil
  <2>1. acct.failed + 1 \in Nat /\ lu \in Nat
    BY <1>d, AccountNumbers DEF UserRow
  <2>2. RecordLoginFailure(acct) = [acct EXCEPT !.failed = acct.failed + 1, !.lockedUntil = lu]
    BY DEF RecordLoginFailure, UserRow
  <2> HIDE DEF lu
  <2>3. /\ [acct EXCEPT !.failed = acct.failed + 1, !.lockedUntil = lu] \in UserRow
        /\ [acct EXCEPT !.failed = acct.failed + 1, !.lockedUntil = lu].role = acct.role
        /\ [acct EXCEPT !.failed = acct.failed + 1, !.lockedUntil = lu].failed = acct.failed + 1
        /\ [acct EXCEPT !.failed = acct.failed + 1, !.lockedUntil = lu].lockedUntil = lu
    BY <2>1 DEF UserRow
  <2> QED
    BY <2>2, <2>3 DEF lu
<1> HIDE DEF RecordLoginFailure
<1>2. /\ acct' \in NoRow \cup UserRow /\ acct' # Unborn
      /\ acct' \in UserRow => acct \in UserRow /\ acct'.role = acct.role
  <2>1. CASE acct' = acct
    BY <1>c, <1>d, <2>1
  <2>2. CASE acct \in UserRow /\ acct' = RecordLoginFailure(acct)
    BY <1>1, <2>2, RowShape DEF NoRow
  <2> QED
    BY <1>b, <1>d, <2>1, <2>2
<1>3. Free \in AnyPending /\ Free \notin LoginReq /\ Free.pc = "free"
  BY DEF Free, AnyPending, LoginReq
<1>4. /\ pending' \in [Req -> AnyPending] /\ RoleInv'
      /\ pending'[r] = Free /\ \A q \in Req \ {r} : pending'[q] = pending[q]
  BY <1>a, <1>b, <1>2, <1>3, PendingStep
<1>5. AccountTyped'
  BY <1>a, <1>b, <1>d, <1>2, <1>4 DEF AccountTyped
<1>6. Wrong' = Wrong \ {r} /\ r \in Wrong
  BY <1>b, <1>3, <1>4 DEF Wrong
<1>7. /\ Cardinality(Wrong') = Cardinality(Wrong) - 1 /\ Cardinality(Wrong) \in Nat
      /\ Cardinality(Wrong) <= Cardinality(Req) /\ Cardinality(Wrong') \in Nat
  <2>1. Cardinality(Wrong \ {r}) = IF r \in Wrong THEN Cardinality(Wrong) - 1 ELSE Cardinality(Wrong)
    BY WrongCount, FS_RemoveElement
  <2>2. IsFiniteSet(Wrong \ {r})
    BY WrongCount, FS_RemoveElement
  <2> QED
    BY <1>6, <2>1, <2>2, WrongCount, FS_CardinalityType
<1>8. StudentLock'
  <2>1. CASE acct' = acct
    BY <1>a, <2>1 DEF StudentLock
  <2>2. CASE acct \notin NoRow /\ pending[r].role = "STUDENT"
    BY <1>c, <1>d, <1>2, <2>2, RowShape DEF StudentLock
  <2> QED
    BY <1>b, <2>1, <2>2
<1>9. GuessInv'
  <2>1. CASE Locked
    <3>1. spill' = spill + 1 /\ spill + Cardinality(Wrong) < Cardinality(Req)
      BY <1>a, <1>b, <2>1 DEF Locked, GuessInv
    <3>2. spill' + Cardinality(Wrong') < Cardinality(Req)
      BY <1>d, <1>7, <3>1, AccountNumbers
    <3> QED
      BY <1>d, <1>7, <3>1, <3>2, AccountNumbers DEF GuessInv
  <2>2. CASE ~Locked
    <3>1. spill' = 0
      BY <1>b, <2>2 DEF Locked
    <3>2. 0 < Cardinality(Req) /\ 0 + Cardinality(Wrong') < Cardinality(Req)
      BY <1>7, AccountNumbers
    <3> QED
      BY <3>1, <3>2 DEF GuessInv
  <2> QED
    BY <2>1, <2>2
<1>10. LockIsEarned'
  <2>1. CASE acct' = acct
    BY <1>a, <1>b, <2>1 DEF LockIsEarned
  <2>2. CASE acct' # acct
    <3>1. acct \in UserRow /\ acct' = RecordLoginFailure(acct) /\ acct.failed \in Nat
      BY <1>b, <1>d, <2>2 DEF UserRow
    <3>2. acct.failed + 1 >= FailLimit \/ acct'.lockedUntil = acct.lockedUntil
      BY <1>1, <3>1
    <3>3. acct'.failed = acct.failed + 1
      BY <1>1, <3>1
    <3> QED
      BY <1>a, <1>b, <1>d, <3>1, <3>2, <3>3, AccountNumbers DEF LockIsEarned
  <2> QED
    BY <2>1, <2>2
<1>11. TokenInv'
  <2>1. \A q \in Req : pending'[q].pc = "refresh" => pending'[q].token \in token
    BY <1>a, <1>3, <1>4 DEF TokenInv
  <2> QED
    BY <1>b, <1>5, <2>1, TokenStep
<1> QED
  BY <1>4, <1>5, <1>8, <1>9, <1>10, <1>11 DEF AccountsInv

\* Every statement of every handler preserves the invariant.
LEMMA NextAccounts == AccountsInv /\ [AccountsNext]_accountVars => AccountsInv'
<1> SUFFICES ASSUME AccountsInv, [AccountsNext]_accountVars
             PROVE  AccountsInv'
  OBVIOUS
<1>a. /\ AccountTyped /\ RoleInv /\ TokenInv
      /\ acct \in NoRow \cup UserRow /\ tick \in Nat /\ tick >= tick
      /\ pending \in [Req -> AnyPending] /\ keysOut \subseteq Nat /\ IsFiniteSet(keysOut)
  BY DEF AccountsInv, AccountTyped
<1>b. /\ (acct \in UserRow => acct \notin NoRow /\ acct # Unborn)
      /\ \A role \in Role : acct.role = role => acct \in UserRow
  BY <1>a, RowShape DEF NoRow
<1>c. /\ Free \in AnyPending /\ Free \notin LoginReq /\ Free.pc = "free"
      /\ \A b \in blacklist : b \in blacklist \/ \E t \in token : b.id = t.id /\ b.until = t.exp
  BY DEF Free, AnyPending, LoginReq
<1>d. {"STUDENT", "LECTURER", "COORDINATOR", "DQA"} \subseteq Role /\ TokenTTL \in Int
  BY AccountNumbers DEF Role
\* a step that leaves the requests and the clock alone
<1>e. ASSUME UNCHANGED <<pending, spill, tick, keysOut>>,
             \/ acct' = acct
             \/ acct' \in NoRow \ {Unborn}
             \/ acct = Unborn /\ acct' \in UserRow /\ acct'.lockedUntil = 0
             \/ /\ acct \in UserRow /\ acct' \in UserRow /\ acct'.role = acct.role
                /\ acct'.failed = acct.failed /\ acct'.lockedUntil = acct.lockedUntil,
             token' = token \/ \E ttl \in Int : Issue(ttl),
             \A b \in blacklist' : b \in blacklist \/ \E t \in token : b.id = t.id /\ b.until = t.exp
      PROVE  AccountsInv'
  <2>1. pending' \in [Req -> AnyPending] /\ RoleInv'
    <3>1. /\ acct' \in NoRow \cup UserRow /\ (acct' # Unborn \/ acct = Unborn)
          /\ acct' \in UserRow => (acct = Unborn \/ (acct \in UserRow /\ acct'.role = acct.role))
      BY <1>a, <1>e, RowShape DEF NoRow
    <3> QED
      BY <1>a, <1>e, <3>1, NoPendingStep
  <2>2. \/ acct' \in NoRow
        \/ acct' \in UserRow /\ acct'.lockedUntil = 0
        \/ /\ acct \in UserRow /\ acct' \in UserRow /\ acct'.role = acct.role
           /\ acct'.failed = acct.failed /\ acct'.lockedUntil = acct.lockedUntil
    BY <1>a, <1>e
  <2> QED
    BY <1>a, <1>e, <2>1, <2>2, CalmStep
\* a request that ends, or goes on to x, and takes no lock
<1>f. ASSUME NEW r \in Req, NEW x \in AnyPending, pending' = [pending EXCEPT ![r] = x],
             UNCHANGED <<spill, tick>>,
             x.pc \notin {"wrong", "refresh"},
             x \in LoginReq => x.role = pending[r].role /\ pending[r] \in LoginReq,
             \/ acct' = acct
             \/ /\ acct \in UserRow /\ acct' \in UserRow /\ acct'.role = acct.role
                /\ \/ acct'.lockedUntil = 0
                   \/ acct'.failed = acct.failed /\ acct'.lockedUntil = acct.lockedUntil,
             keysOut' \subseteq Nat, IsFiniteSet(keysOut'),
             token' = token \/ \E ttl \in Int : Issue(ttl),
             \A b \in blacklist' : b \in blacklist \/ \E t \in token : b.id = t.id /\ b.until = t.exp
      PROVE  AccountsInv'
  <2>1. x \in LoginReq => acct # Unborn /\ (acct \in UserRow => x.role = acct.role)
    BY <1>a, <1>b, <1>f DEF RoleInv
  <2>2. /\ pending' \in [Req -> AnyPending] /\ RoleInv'
        /\ pending'[r] = x /\ \A q \in Req \ {r} : pending'[q] = pending[q]
    <3>1. /\ acct' \in NoRow \cup UserRow /\ (acct' # Unborn \/ acct = Unborn)
          /\ acct' \in UserRow => acct \in UserRow /\ acct'.role = acct.role
      BY <1>a, <1>f, RowShape DEF NoRow
    <3> QED
      BY <1>a, <1>f, <2>1, <3>1, PendingStep
  <2>3. \A q \in Req : /\ pending'[q].pc = "wrong" => pending[q].pc = "wrong"
                       /\ pending'[q].pc = "refresh" => pending'[q] = pending[q]
    BY <1>f, <2>2
  <2>4. \/ acct' \in NoRow
        \/ acct' \in UserRow /\ acct'.lockedUntil = 0
        \/ /\ acct \in UserRow /\ acct' \in UserRow /\ acct'.role = acct.role
           /\ acct'.failed = acct.failed /\ acct'.lockedUntil = acct.lockedUntil
    BY <1>a, <1>f
  <2> QED
    BY <1>a, <1>f, <2>2, <2>3, <2>4, CalmStep
<1>1. ASSUME NEW r \in Req, NEW typed, LoginBegin(r, typed)
      PROVE  AccountsInv'
  <2> DEFINE x == [pc |-> LoginOutcome(acct, typed), role |-> acct.role, key |-> acct.key]
  <2>1. acct \in UserRow /\ ~IsLocked(acct) /\ StartReq(r, x) /\ UNCHANGED acct /\ rowOnly
    BY <1>1, <1>a DEF LoginBegin
  <2>2. LoginOutcome(acct, typed) \in {"wrong", "right"}
    BY <1>1 DEF LoginBegin, LoginOutcome
  <2>3. x \in LoginReq /\ x.pc \in {"wrong", "right"} /\ x.role = acct.role
    BY <2>1, <2>2 DEF LoginReq, UserRow
  <2>4. ~Locked
    <3>1. acct.lockedUntil \in Nat /\ StudentLock
      BY <2>1 DEF UserRow, AccountsInv
    <3> QED
      BY <1>a, <1>b, <2>1, <3>1 DEF IsLocked, Locked, StudentLock
  <2> HIDE DEF x
  <2>5. x \in AnyPending
    BY <2>3 DEF AnyPending
  <2> QED
    BY <2>1, <2>3, <2>4, <2>5, ReadStep
<1>2. ASSUME NEW r \in Req, LoginRight(r)
      PROVE  AccountsInv'
  <2>1. /\ pending[r].pc = "right" /\ Issue(TokenTTL)
        /\ acct' = IF acct \in NoRow THEN acct ELSE RecordLoginSuccess(acct)
        /\ UNCHANGED <<blacklist, standby, keysOut, spill, disableMFA, tick>>
    BY <1>2 DEF LoginRight
  <2>2. pending[r] \in LoginReq
    BY <1>a, <2>1, PendingShape
  <2>3. \/ acct' = acct
        \/ /\ acct \in UserRow /\ acct' \in UserRow /\ acct'.role = acct.role
           /\ acct'.lockedUntil = 0
    <3>1. CASE acct \in NoRow
      BY <2>1, <3>1
    <3>2. CASE acct \notin NoRow
      <4>1. acct \in UserRow /\ acct' = [acct EXCEPT !.failed = 0, !.lockedUntil = 0]
        BY <1>a, <2>1, <3>2 DEF RecordLoginSuccess
      <4> QED
        BY <4>1 DEF UserRow
    <3> QED
      BY <3>1, <3>2
  <2>4. PICK x \in AnyPending : /\ pending' = [pending EXCEPT ![r] = x]
                                /\ x.pc \notin {"wrong", "refresh"}
                                /\ x \in LoginReq => x.role = pending[r].role
    <3>1. CASE pending' = [pending EXCEPT ![r].pc = "key"]
      <4> DEFINE y == [pending[r] EXCEPT !.pc = "key"]
      <4>1. y \in LoginReq /\ y.pc = "key" /\ y.role = pending[r].role
        BY <2>2 DEF LoginReq
      <4>2. pending' = [pending EXCEPT ![r] = y]
        BY <3>1
      <4> HIDE DEF y
      <4> QED
        BY <4>1, <4>2 DEF AnyPending
    <3>2. CASE pending' = [pending EXCEPT ![r] = Free]
      BY <1>c, <3>2
    <3> QED
      BY <1>2, <3>1, <3>2 DEF LoginRight, EndReq
  <2>5. \E ttl \in Int : Issue(ttl)
    BY <1>d, <2>1
  <2>6. keysOut' \subseteq Nat /\ IsFiniteSet(keysOut') /\ UNCHANGED <<spill, tick>>
        /\ \A b \in blacklist' : b \in blacklist \/ \E t \in token : b.id = t.id /\ b.until = t.exp
    BY <1>a, <2>1
  <2> QED
    BY <1>f, <2>2, <2>3, <2>4, <2>5, <2>6
<1>3. ASSUME NEW r \in Req, ResolveBindingKey(r)
      PROVE  AccountsInv'
  <2> DEFINE new == Cardinality(keysOut) + 1
  <2>1. /\ pending' = [pending EXCEPT ![r] = Free]
        /\ UNCHANGED <<token, blacklist, standby, spill, disableMFA, tick>>
        /\ \/ UNCHANGED <<acct, keysOut>>
           \/ /\ acct' = IF acct \in NoRow THEN acct ELSE [acct EXCEPT !.key = new]
              /\ keysOut' = keysOut \cup {new}
    BY <1>3 DEF ResolveBindingKey, EndReq
  <2>2. new \in Nat /\ IsFiniteSet(keysOut \cup {new})
    <3>1. Cardinality(keysOut) \in Nat
      BY <1>a, FS_CardinalityType
    <3>2. new \in Nat
      BY <3>1
    <3> HIDE DEF new
    <3>3. IsFiniteSet(keysOut \cup {new})
      BY <1>a, FS_AddElement
    <3> QED
      BY <3>2, <3>3
  <2> HIDE DEF new
  <2>3. keysOut' \subseteq Nat /\ IsFiniteSet(keysOut')
    BY <1>a, <2>1, <2>2
  <2>4. \/ acct' = acct
        \/ /\ acct \in UserRow /\ acct' \in UserRow /\ acct'.role = acct.role
           /\ acct'.failed = acct.failed /\ acct'.lockedUntil = acct.lockedUntil
    <3>1. ASSUME acct \in UserRow
          PROVE  /\ [acct EXCEPT !.key = new] \in UserRow /\ [acct EXCEPT !.key = new].role = acct.role
                 /\ [acct EXCEPT !.key = new].failed = acct.failed
                 /\ [acct EXCEPT !.key = new].lockedUntil = acct.lockedUntil
      BY <2>2, <3>1 DEF UserRow
    <3> QED
      BY <1>a, <2>1, <3>1
  <2> QED
    BY <1>c, <1>f, <2>1, <2>3, <2>4
<1>4. ASSUME NEW r \in Req, NEW t, NEW typed, ChangePasswordBegin(r, t, typed)
      PROVE  AccountsInv'
  <2> DEFINE x == [pc |-> "password", pw |-> acct.pw]
  <2>1. acct \in UserRow /\ StartReq(r, x) /\ UNCHANGED acct /\ rowOnly
    BY <1>4, <1>a DEF ChangePasswordBegin
  <2>2. x \in PasswordReq /\ x.pc = "password"
    BY <2>1 DEF PasswordReq, UserRow
  <2> HIDE DEF x
  <2>3. x \in AnyPending /\ x \notin LoginReq
    BY <2>2 DEF AnyPending, LoginReq
  <2> QED
    BY <2>1, <2>2, <2>3, ReadStep
<1>5. ASSUME NEW r \in Req, ChangePassword(r)
      PROVE  AccountsInv'
  <2>1. /\ pending[r].pc = "password" /\ pending' = [pending EXCEPT ![r] = Free]
        /\ acct' = IF acct \in NoRow THEN acct ELSE UpdatePassword(acct, pending[r].pw + 1)
        /\ UNCHANGED <<token, blacklist, standby, keysOut, spill, disableMFA, tick>>
    BY <1>5 DEF ChangePassword, EndReq, rowOnly
  <2>2. pending[r].pw + 1 \in Int
    <3>1. pending[r] \in PasswordReq
      BY <1>a, <2>1, PendingShape
    <3> QED
      BY <3>1 DEF PasswordReq
  <2>3. \/ acct' = acct
        \/ /\ acct \in UserRow /\ acct' \in UserRow /\ acct'.role = acct.role
           /\ acct'.lockedUntil = 0
    <3>1. CASE acct \in NoRow
      BY <2>1, <3>1
    <3>2. CASE acct \notin NoRow
      <4> DEFINE pw == pending[r].pw + 1
      <4>1. /\ acct \in UserRow
            /\ acct' = [acct EXCEPT !.pw = pw, !.failed = 0, !.lockedUntil = 0, !.force = FALSE]
        BY <1>a, <2>1, <3>2 DEF UpdatePassword
      <4>2. pw \in Int
        BY <2>2
      <4> HIDE DEF pw
      <4> QED
        BY <4>1, <4>2 DEF UserRow
    <3> QED
      BY <3>1, <3>2
  <2> QED
    BY <1>a, <1>c, <1>f, <2>1, <2>3
<1>6. ASSUME NEW r \in Req, NEW t \in token, RefreshBegin(r, t)
      PROVE  AccountsInv'
  <2> DEFINE x == [pc |-> "refresh", token |-> t]
  <2>1. StartReq(r, x) /\ UNCHANGED acct /\ rowOnly /\ t \in Token
    BY <1>6, <1>a DEF RefreshBegin, AccountTyped
  <2>2. x \in RefreshReq /\ x.pc = "refresh" /\ x.token = t
    BY <2>1 DEF RefreshReq
  <2> HIDE DEF x
  <2>3. x \in AnyPending /\ x \notin LoginReq
    BY <2>2 DEF AnyPending, LoginReq
  <2> QED
    BY <2>1, <2>2, <2>3, ReadStep
<1>7. ASSUME NEW t \in token, Blacklist(t)
      PROVE  \A b \in blacklist' : b \in blacklist \/ \E u \in token : b.id = u.id /\ b.until = u.exp
  BY <1>7 DEF Blacklist
<1>8. ASSUME NEW r \in Req, Refresh(r)
      PROVE  AccountsInv'
  <2>1. /\ pending[r].pc = "refresh" /\ Blacklist(pending[r].token) /\ Issue(TokenTTL)
        /\ pending' = [pending EXCEPT ![r] = Free]
        /\ UNCHANGED <<acct, standby, keysOut, spill, disableMFA, tick>>
    BY <1>8 DEF Refresh, EndReq
  <2>2. pending[r].token \in token
    BY <1>a, <2>1 DEF TokenInv
  <2>3. \E ttl \in Int : Issue(ttl)
    BY <1>d, <2>1
  <2> QED
    BY <1>a, <1>c, <1>f, <1>7, <2>1, <2>2, <2>3
<1>9. ASSUME NEW t \in token, Logout(t)
      PROVE  AccountsInv'
  BY <1>e, <1>7, <1>9 DEF Logout
<1>10. ASSUME NEW t \in token, EnrollMFA(t) \/ VerifyMFA(t)
       PROVE  AccountsInv'
  <2>1. /\ acct \in UserRow /\ UNCHANGED <<pending, spill, tick, keysOut, token, blacklist>>
        /\ \/ acct' = [acct EXCEPT !.totp = acct.pw] \/ acct' = [acct EXCEPT !.totpOn = TRUE]
    BY <1>10, <1>b, <1>d DEF EnrollMFA, VerifyMFA, MFARequired, rowOnly
  <2>2. /\ acct' \in UserRow /\ acct'.role = acct.role
        /\ acct'.failed = acct.failed /\ acct'.lockedUntil = acct.lockedUntil
    BY <2>1 DEF UserRow
  <2> QED
    BY <1>e, <2>1, <2>2
<1>11. ASSUME NEW role, NEW ttl \in Int, InternalToken(role, ttl)
       PROVE  AccountsInv'
  BY <1>e, <1>11 DEF InternalToken
<1>12. ASSUME NEW t \in token, CreateStandby(t) \/ RevokeStandby(t)
       PROVE  AccountsInv'
  BY <1>e, <1>12 DEF CreateStandby, RevokeStandby
<1>13. CASE IssueLecturerToken \/ IssueStudentToken \/ StandbyLogin
  <2>1. DayEnd - tick - 1 \in Int
    BY <1>a, AccountNumbers
  <2> QED
    BY <1>d, <1>11, <1>13, <2>1 DEF IssueLecturerToken, IssueStudentToken, StandbyLogin, IssueCoordinatorToken
<1>14. ASSUME NEW on \in BOOLEAN, SetUserStatus(on)
       PROVE  AccountsInv'
  <2>1. /\ acct \in UserRow /\ UNCHANGED <<pending, spill, tick, keysOut, token, blacklist>>
        /\ acct' = [acct EXCEPT !.active = on]
    BY <1>14, <1>a DEF SetUserStatus, rowOnly
  <2>2. /\ acct' \in UserRow /\ acct'.role = acct.role
        /\ acct'.failed = acct.failed /\ acct'.lockedUntil = acct.lockedUntil
    BY <2>1 DEF UserRow
  <2> QED
    BY <1>e, <2>1, <2>2
<1>15. CASE DeleteUser
  <2>1. Gone \in NoRow \ {Unborn}
    BY DEF NoRow, Gone, Unborn
  <2> QED
    BY <1>e, <1>15, <2>1 DEF DeleteUser, rowOnly
<1>16. ASSUME NEW role \in Role, EnsureLogin(role)
       PROVE  AccountsInv'
  <2>1. Row(role) \in UserRow /\ Row(role).lockedUntil = 0
    BY DEF Row, UserRow, None
  <2> QED
    BY <1>e, <1>16, <2>1 DEF EnsureLogin, rowOnly
<1>17. CASE Redeploy
  BY <1>e, <1>17 DEF Redeploy
<1>18. CASE Second
  <2>1. /\ tick' \in Nat /\ tick' >= tick
        /\ UNCHANGED <<acct, pending, token, blacklist, keysOut, spill>>
    BY <1>18, <1>a DEF Second
  <2>2. pending' \in [Req -> AnyPending] /\ RoleInv'
    BY <1>a, <2>1 DEF RoleInv
  <2> QED
    BY <1>a, <2>1, <2>2, CalmStep
<1>19. CASE UNCHANGED accountVars
  BY <1>e, <1>19 DEF accountVars
<1>20. ASSUME NEW r \in Req, RequestStep(r)
       PROVE  AccountsInv'
  BY <1>1, <1>2, <1>3, <1>4, <1>5, <1>6, <1>8, <1>20, WrongStep DEF RequestStep
<1> QED
  BY <1>d, <1>9, <1>10, <1>12, <1>13, <1>14, <1>15, <1>16, <1>17, <1>18, <1>19, <1>20 DEF AccountsNext

\* An account nobody has logged in to.
LEMMA InitAccounts == AccountsInit => AccountsInv
<1> SUFFICES ASSUME AccountsInit
             PROVE  AccountsInv
  OBVIOUS
<1>a. /\ acct = Unborn \/ \E role \in Role : acct = Row(role)
      /\ pending = [r \in Req |-> Free] /\ token = {} /\ blacklist = {} /\ keysOut = {}
      /\ spill = 0 /\ tick = 0
  BY DEF AccountsInit
<1>b. acct = Unborn \/ (acct \in UserRow /\ acct.lockedUntil = 0)
  <2>1. \A role \in Role : Row(role) \in UserRow /\ Row(role).lockedUntil = 0
    BY DEF Row, UserRow, None
  <2> QED
    BY <1>a, <2>1
<1>c. \A r \in Req : pending[r] = Free /\ pending[r].pc = "free" /\ pending[r] \notin LoginReq
  BY <1>a DEF Free, LoginReq
<1>1. AccountTyped
  BY <1>a, <1>b, FS_EmptySet DEF AccountTyped, AnyPending, NoRow
<1>2. RoleInv /\ TokenInv
  BY <1>a, <1>c DEF RoleInv, TokenInv
<1>3. ~Locked /\ StudentLock /\ LockIsEarned
  BY <1>a, <1>b DEF Locked, StudentLock, LockIsEarned, NoRow
<1>4. GuessInv
  BY <1>a, <1>3, AccountNumbers DEF GuessInv
<1> QED
  BY <1>1, <1>2, <1>3, <1>4 DEF AccountsInv

\* However logins, password changes and failures of one account overlap: the lock
\* lets through only guesses already in flight, and only a used-up allowance locks
\* (auth-service, Login and RecordLoginFailure).
THEOREM LockIsExactAlways == AccountsSpec => []LockIsExact
<1>1. AccountsInv => LockIsExact
  BY DEF AccountsInv, GuessInv, LockIsExact, LockHoldsOffGuesses
<1> QED
  BY <1>1, InitAccounts, NextAccounts, PTL DEF AccountsSpec

\* A token the gateway turned away is never let in again: what Redis forgets has
\* expired by then (auth-service, Blacklist and IsBlacklisted; JWTAuth).
THEOREM RefusedStaysRefusedAlways == AccountsSpec => RefusedStaysRefused
<1>1. ASSUME AccountsInv, [AccountsNext]_accountVars, NEW t \in token, ~Admitted(t)
      PROVE  ~(Parse(t)' /\ ~IsBlacklisted(t)')
  <2>1. /\ tick \in Nat /\ tick' \in Nat /\ tick' >= tick /\ t.exp \in Nat /\ TokenInv
    <3>1. AccountTyped /\ TokenInv /\ tick \in Nat /\ tick' \in Nat
      BY <1>1, NextAccounts DEF AccountsInv, AccountTyped
    <3>2. tick' = tick \/ tick' = tick + 1
      BY <1>1 DEF AccountsNext, accountVars, RequestStep, LoginBegin, LoginWrong, LoginRight,
         ResolveBindingKey, ChangePasswordBegin, ChangePassword, RefreshBegin, Refresh, Logout,
         EnrollMFA, VerifyMFA, CreateStandby, RevokeStandby, IssueLecturerToken, IssueStudentToken,
         StandbyLogin, IssueCoordinatorToken, InternalToken, Redeploy, Second, SetUserStatus,
         DeleteUser, EnsureLogin, rowOnly
    <3> QED
      BY <3>1, <3>2 DEF AccountTyped, Token
  <2>2. blacklist \subseteq blacklist'
    BY <1>1 DEF AccountsNext, accountVars, RequestStep, LoginBegin, LoginWrong, LoginRight,
       ResolveBindingKey, ChangePasswordBegin, ChangePassword, RefreshBegin, Refresh, Logout,
       EnrollMFA, VerifyMFA, CreateStandby, RevokeStandby, IssueLecturerToken, IssueStudentToken,
       StandbyLogin, IssueCoordinatorToken, InternalToken, Redeploy, Second, SetUserStatus,
       DeleteUser, EnsureLogin, rowOnly, Blacklist
  <2>3. CASE ~(tick < t.exp)
    BY <2>1, <2>3 DEF Parse
  <2>4. CASE IsBlacklisted(t)
    <3>1. PICK b \in blacklist : b.id = t.id /\ tick < b.until
      BY <2>4 DEF IsBlacklisted
    <3>2. b.until = t.exp
      BY <1>1, <2>1, <3>1 DEF TokenInv
    <3> QED
      BY <2>1, <2>2, <3>1, <3>2 DEF Parse, IsBlacklisted
  <2> QED
    BY <1>1, <2>3, <2>4 DEF Admitted, Parse
<1>2. AccountsInv /\ [AccountsNext]_accountVars
         => [\A t \in token : ~Admitted(t) => ~Admitted(t)']_accountVars
  BY <1>1 DEF Admitted
<1> QED
  BY <1>2, InitAccounts, NextAccounts, PTL DEF AccountsSpec, RefusedStaysRefused

-----------------------------------------------------------------------------
(* Enrolment.                                                              *)

\* What a request in flight has read, by the table it is about.
DeviceCall == [pc : {"count", "bind"}, s : Pupil, p : Phone]
OtherCall  == [pc : {"none", "right", "wrong", "set", "save", "consume"}]
AnyCall    == DeviceCall \cup OtherCall

PinRow == [failed : Nat, lockedUntil : Nat]

EnrolTyped ==
    /\ call \in [Call -> AnyCall]
    /\ binding \in [Pupil -> Phone \cup {Unbound}] /\ rebinds \in [Pupil -> Nat]
    /\ pin \in PinRow \cup {NoPin} /\ pinSpill \in Nat
    /\ link \in Int /\ passkeys \in Nat
    /\ wardenLink \in [until : Int, made : Nat] /\ hour \in Nat

\* The requests that are as far as k, counted.
Stage(k)   == {c \in Call : call[c].pc = k}
InStage(k) == Cardinality(Stage(k))

\* While the PIN is locked, the wrong PINs it let through and those still to be
\* counted are of other requests than the one that locked it.
PinInv ==
    /\ pinSpill < Cardinality(Call)
    /\ PinSet /\ PinLocked => /\ pinSpill + InStage("wrong") < Cardinality(Call)
                              /\ pin.failed >= PinLimit

\* Until a request consumes the link, every authenticator it enrolled is of a
\* request about to; after that no request can start.
LinkInv ==
    /\ link # UsedLink => link >= 0 /\ passkeys = InStage("consume")
    /\ passkeys + InStage("save") <= Cardinality(Call)

\* A warden's link made before the end of the window outlives the window.
WindowInv == wardenLink # NoWarden /\ wardenLink.made < WindowEnd => wardenLink.until > WindowEnd

EnrolInv == EnrolTyped /\ OnePhoneOneStudent /\ PinInv /\ LinkInv /\ WindowInv

\* The constants as numbers.
LEMMA EnrolNumbers ==
    /\ PinLimit \in Nat \ {0} /\ PinLockout \in Nat \ {0} /\ LinkLife \in Nat \ {0}
    /\ WardenGrace \in Nat \ {0} /\ WardenLate \in Nat \ {0} /\ WindowEnd \in Nat
    /\ IsFiniteSet(Call) /\ Cardinality(Call) \in Nat /\ Cardinality(Call) > 0
<1>1. /\ PinLimit \in Nat \ {0} /\ PinLockout \in Nat \ {0} /\ LinkLife \in Nat \ {0}
      /\ WardenGrace \in Nat \ {0} /\ WardenLate \in Nat \ {0} /\ WindowEnd \in Nat
      /\ IsFiniteSet(Call) /\ Call # {}
  BY EnrolmentAssumption
<1>2. Cardinality(Call) \in Nat /\ Cardinality(Call) # 0
  BY <1>1, FS_CardinalityType, FS_EmptySet
<1> QED
  BY <1>1, <1>2

\* A request is about a phone while it counts or binds.
LEMMA CallShape ==
    ASSUME NEW x \in AnyCall
    PROVE  x.pc \in {"count", "bind"} <=> x \in DeviceCall
<1>1. CASE x \in DeviceCall
  BY <1>1 DEF DeviceCall
<1>2. CASE x \in OtherCall
  BY <1>2 DEF DeviceCall, OtherCall
<1> QED
  BY <1>1, <1>2 DEF AnyCall

\* The requests of a stage are finitely many.
LEMMA StageCount ==
    ASSUME NEW k
    PROVE  /\ IsFiniteSet(Stage(k)) /\ InStage(k) \in Nat /\ InStage(k) <= Cardinality(Call)
<1>1. Stage(k) \in SUBSET Call
  BY DEF Stage
<1>2. IsFiniteSet(Stage(k)) /\ Cardinality(Stage(k)) <= Cardinality(Call)
  BY <1>1, EnrolNumbers, FS_Subset
<1> QED
  BY <1>2, FS_CardinalityType DEF InStage

\* A request that moves on leaves one stage and enters another.
LEMMA StageMoves ==
    ASSUME EnrolTyped, NEW c \in Call, NEW x \in AnyCall, call' = [call EXCEPT ![c] = x]
    PROVE  /\ call' \in [Call -> AnyCall]
           /\ \A k : /\ x.pc = call[c].pc \/ (x.pc # k /\ call[c].pc # k) => InStage(k)' = InStage(k)
                     /\ x.pc = k /\ call[c].pc # k => InStage(k)' = InStage(k) + 1
                     /\ x.pc # k /\ call[c].pc = k => InStage(k)' = InStage(k) - 1
<1>1. /\ call' \in [Call -> AnyCall] /\ call'[c] = x
      /\ \A d \in Call \ {c} : call'[d] = call[d]
  BY DEF EnrolTyped
<1>2. ASSUME NEW k
      PROVE  /\ x.pc = call[c].pc \/ (x.pc # k /\ call[c].pc # k) => InStage(k)' = InStage(k)
             /\ x.pc = k /\ call[c].pc # k => InStage(k)' = InStage(k) + 1
             /\ x.pc # k /\ call[c].pc = k => InStage(k)' = InStage(k) - 1
  <2>1. CASE x.pc = call[c].pc \/ (x.pc # k /\ call[c].pc # k)
    <3>1. Stage(k)' = Stage(k)
      BY <1>1, <2>1 DEF Stage
    <3> QED
      BY <2>1, <3>1 DEF InStage
  <2>2. CASE x.pc = k /\ call[c].pc # k
    <3>1. Stage(k)' = Stage(k) \cup {c} /\ c \notin Stage(k)
      BY <1>1, <2>2 DEF Stage
    <3>2. Cardinality(Stage(k) \cup {c}) = IF c \in Stage(k) THEN Cardinality(Stage(k))
                                           ELSE Cardinality(Stage(k)) + 1
      BY StageCount, FS_AddElement
    <3> QED
      BY <2>2, <3>1, <3>2 DEF InStage
  <2>3. CASE x.pc # k /\ call[c].pc = k
    <3>1. Stage(k)' = Stage(k) \ {c} /\ c \in Stage(k)
      BY <1>1, <2>3 DEF Stage
    <3>2. Cardinality(Stage(k) \ {c}) = IF c \in Stage(k) THEN Cardinality(Stage(k)) - 1
                                        ELSE Cardinality(Stage(k))
      BY StageCount, FS_RemoveElement
    <3> QED
      BY <2>3, <3>1, <3>2 DEF InStage
  <2> QED
    BY <2>1, <2>2, <2>3
<1> QED
  BY <1>1, <1>2

\* A PIN that is set is a row.
LEMMA PinShape == EnrolTyped => (PinSet <=> pin \in PinRow)
<1>1. NoPin.failed = -1 /\ -1 \notin Nat
  BY DEF NoPin
<1>2. NoPin \notin PinRow
  BY <1>1 DEF PinRow
<1> QED
  BY <1>2 DEF EnrolTyped, PinSet

\* The stages the invariants count.
Counted == {"wrong", "save", "consume"}

\* A step that touches neither the PIN nor a request about to count a wrong one.
LEMMA PinKept ==
    ASSUME PinInv, UNCHANGED <<pin, pinSpill, hour>>, InStage("wrong")' = InStage("wrong")
    PROVE  PinInv'
BY DEF PinInv, PinSet, PinLocked

\* A step that touches neither the link nor a request finishing with it.
LEMMA LinkKept ==
    ASSUME LinkInv, UNCHANGED <<link, passkeys>>,
           InStage("save")' = InStage("save"), InStage("consume")' = InStage("consume")
    PROVE  LinkInv'
BY DEF LinkInv

\* A step that leaves the warden's link alone.
LEMMA WindowKept ==
    ASSUME WindowInv, UNCHANGED wardenLink
    PROVE  WindowInv'
BY DEF WindowInv

\* Every statement of every handler preserves the invariant.
LEMMA NextEnrol == EnrolInv /\ [EnrolNext]_enrolVars => EnrolInv'
<1> SUFFICES ASSUME EnrolInv, [EnrolNext]_enrolVars
             PROVE  EnrolInv'
  OBVIOUS
<1>a. EnrolTyped /\ OnePhoneOneStudent /\ PinInv /\ LinkInv /\ WindowInv
  BY DEF EnrolInv
<1>b. /\ call \in [Call -> AnyCall] /\ pin \in PinRow \cup {NoPin} /\ pinSpill \in Nat
      /\ link \in Int /\ passkeys \in Nat /\ hour \in Nat
  BY <1>a DEF EnrolTyped
<1>c. NoCall \in AnyCall /\ NoCall.pc = "none"
  BY DEF NoCall, AnyCall, OtherCall
<1>d. \A k \in {"right", "wrong", "set", "save", "consume"} : [pc |-> k] \in AnyCall /\ [pc |-> k].pc = k
  BY DEF AnyCall, OtherCall
\* a request about a phone
<1>e. ASSUME NEW c \in Call, NEW x \in AnyCall, call' = [call EXCEPT ![c] = x],
             x.pc \notin Counted, call[c].pc \notin Counted, deviceOnly,
             binding' \in [Pupil -> Phone \cup {Unbound}], rebinds' \in [Pupil -> Nat], OnePhoneOneStudent'
      PROVE  EnrolInv'
  <2>1. /\ call' \in [Call -> AnyCall] /\ InStage("wrong")' = InStage("wrong")
        /\ InStage("save")' = InStage("save") /\ InStage("consume")' = InStage("consume")
    BY <1>a, <1>e, StageMoves DEF Counted
  <2>2. EnrolTyped'
    BY <1>a, <1>e, <2>1 DEF EnrolTyped, deviceOnly
  <2> QED
    BY <1>a, <1>e, <2>1, <2>2, PinKept, LinkKept, WindowKept DEF EnrolInv, deviceOnly
<1>1. ASSUME NEW c \in Call, NEW s \in Pupil, NEW p \in Phone, RegisterDevice(c, s, p)
      PROVE  EnrolInv'
  <2>1. PICK k \in {"count", "bind"} : Enter(c, [pc |-> k, s |-> s, p |-> p])
    BY <1>1 DEF RegisterDevice
  <2> DEFINE x == [pc |-> k, s |-> s, p |-> p]
  <2>2. x \in AnyCall /\ x.pc = k
    BY DEF AnyCall, DeviceCall
  <2>3. call' = [call EXCEPT ![c] = x] /\ call[c].pc = "none" /\ deviceOnly /\ UNCHANGED <<binding, rebinds>>
    BY <1>1, <1>c, <2>1 DEF RegisterDevice, Enter
  <2> HIDE DEF x
  <2>4. OnePhoneOneStudent' /\ binding' \in [Pupil -> Phone \cup {Unbound}] /\ rebinds' \in [Pupil -> Nat]
    BY <1>a, <2>3 DEF OnePhoneOneStudent, EnrolTyped
  <2> QED
    BY <1>e, <2>2, <2>3, <2>4 DEF Counted
<1>2. ASSUME NEW c \in Call, CountRebind(c)
      PROVE  EnrolInv'
  <2> DEFINE x == [call[c] EXCEPT !.pc = "bind"]
  <2>1. call[c].pc = "count" /\ call[c] \in DeviceCall
    BY <1>2, <1>b, CallShape DEF CountRebind
  <2>2. x \in AnyCall /\ x.pc = "bind" /\ call[c].s \in Pupil
    BY <2>1 DEF AnyCall, DeviceCall
  <2>3. /\ call' = [call EXCEPT ![c] = x] /\ deviceOnly /\ UNCHANGED binding
        /\ rebinds' = [rebinds EXCEPT ![call[c].s] = @ + 1]
    BY <1>2 DEF CountRebind
  <2> HIDE DEF x
  <2>4. OnePhoneOneStudent' /\ binding' \in [Pupil -> Phone \cup {Unbound}] /\ rebinds' \in [Pupil -> Nat]
    BY <1>a, <2>2, <2>3 DEF OnePhoneOneStudent, EnrolTyped
  <2> QED
    BY <1>e, <2>1, <2>2, <2>3, <2>4 DEF Counted
<1>3. ASSUME NEW c \in Call, BindPhone(c)
      PROVE  EnrolInv'
  <2> DEFINE s == call[c].s
             p == call[c].p
  <2>1. call[c].pc = "bind" /\ call[c] \in DeviceCall
    BY <1>3, <1>b, CallShape DEF BindPhone
  <2>2. s \in Pupil /\ p \in Phone
    BY <2>1 DEF DeviceCall
  <2>3. /\ call' = [call EXCEPT ![c] = NoCall] /\ deviceOnly /\ UNCHANGED rebinds
        /\ binding' = IF PhoneIsFree(s, p) THEN [binding EXCEPT ![s] = p] ELSE binding
    BY <1>3 DEF BindPhone, Leave
  <2> HIDE DEF s, p
  <2>4. binding \in [Pupil -> Phone \cup {Unbound}] /\ rebinds \in [Pupil -> Nat]
    BY <1>a DEF EnrolTyped
  <2>5. OnePhoneOneStudent'
    <3>1. CASE binding' = binding
      BY <1>a, <3>1 DEF OnePhoneOneStudent
    <3>2. CASE binding' = [binding EXCEPT ![s] = p] /\ \A o \in Pupil \ {s} : binding[o] # p
      <4>1. /\ binding'[s] = p /\ \A o \in Pupil \ {s} : binding'[o] = binding[o] /\ binding'[o] # p
        BY <2>2, <2>4, <3>2
      <4>2. ASSUME NEW a \in Pupil, NEW b \in Pupil, a # b, binding'[a] # Unbound
            PROVE  binding'[a] # binding'[b]
        BY <1>a, <4>1, <4>2 DEF OnePhoneOneStudent
      <4> QED
        BY <4>2 DEF OnePhoneOneStudent
    <3> QED
      BY <2>3, <3>1, <3>2 DEF PhoneIsFree, OwnedByOther
  <2>6. binding' \in [Pupil -> Phone \cup {Unbound}] /\ rebinds' \in [Pupil -> Nat]
    BY <2>2, <2>3, <2>4
  <2> QED
    BY <1>c, <1>e, <2>1, <2>3, <2>5, <2>6 DEF Counted
<1>4. ASSUME NEW s \in Pupil, QADeviceReset(s)
      PROVE  EnrolInv'
  <2>1. deviceOnly /\ UNCHANGED <<call, binding>> /\ rebinds' = [rebinds EXCEPT ![s] = 0]
    BY <1>4 DEF QADeviceReset
  <2>2. EnrolTyped'
    BY <1>a, <2>1 DEF EnrolTyped, deviceOnly
  <2>3. \A k : InStage(k)' = InStage(k)
    BY <2>1 DEF InStage, Stage
  <2>4. OnePhoneOneStudent'
    BY <1>a, <2>1 DEF OnePhoneOneStudent
  <2> QED
    BY <1>a, <2>1, <2>2, <2>3, <2>4, PinKept, LinkKept, WindowKept DEF EnrolInv, deviceOnly
\* a request about the PIN
<1>f. ASSUME NEW c \in Call, NEW x \in AnyCall, call' = [call EXCEPT ![c] = x],
             x.pc \notin {"save", "consume"}, call[c].pc \notin {"save", "consume"}, pinOnly,
             pin' \in PinRow \cup {NoPin}, pinSpill' \in Nat, PinInv'
      PROVE  EnrolInv'
  <2>1. /\ call' \in [Call -> AnyCall]
        /\ InStage("save")' = InStage("save") /\ InStage("consume")' = InStage("consume")
    BY <1>a, <1>f, StageMoves
  <2>2. EnrolTyped'
    BY <1>a, <1>f, <2>1 DEF EnrolTyped, pinOnly
  <2>3. OnePhoneOneStudent'
    BY <1>a, <1>f DEF OnePhoneOneStudent, pinOnly
  <2> QED
    BY <1>a, <1>f, <2>1, <2>2, <2>3, LinkKept, WindowKept DEF EnrolInv, pinOnly
<1>5. ASSUME NEW c \in Call, NEW right \in BOOLEAN, VerifyPatrolPIN(c, right)
      PROVE  EnrolInv'
  <2>1. PICK k \in {"right", "wrong"} : Enter(c, [pc |-> k])
    BY <1>5 DEF VerifyPatrolPIN
  <2>2. /\ call' = [call EXCEPT ![c] = [pc |-> k]] /\ call[c].pc = "none" /\ pinOnly
        /\ UNCHANGED <<pin, pinSpill>> /\ ~PinLocked /\ hour' = hour
    BY <1>5, <1>c, <2>1 DEF VerifyPatrolPIN, Enter, pinOnly
  <2>3. [pc |-> k] \in AnyCall /\ [pc |-> k].pc = k
    BY <1>d
  <2>4. PinInv'
    BY <1>a, <2>2 DEF PinInv, PinLocked, PinSet
  <2> QED
    BY <1>b, <1>f, <2>2, <2>3, <2>4
<1>6. ASSUME NEW c \in Call, WrongPIN(c)
      PROVE  EnrolInv'
  <2>1. /\ call[c].pc = "wrong" /\ call' = [call EXCEPT ![c] = NoCall] /\ pinOnly /\ hour' = hour
        /\ pin' = IF ~PinSet THEN pin
                  ELSE [failed |-> pin.failed + 1,
                        lockedUntil |-> IF LocksNow(pin) THEN hour + PinLockout ELSE pin.lockedUntil]
        /\ pinSpill' = IF PinSet /\ hour < pin.lockedUntil THEN pinSpill + 1 ELSE 0
    BY <1>6 DEF WrongPIN, Leave, pinOnly
  <2>2. InStage("wrong")' = InStage("wrong") - 1 /\ InStage("wrong") \in Nat
        /\ InStage("wrong") <= Cardinality(Call) /\ InStage("wrong") > 0
    <3>1. c \in Stage("wrong") /\ IsFiniteSet(Stage("wrong"))
      BY <2>1, StageCount DEF Stage
    <3>2. Cardinality(Stage("wrong")) # 0
      BY <3>1, FS_EmptySet
    <3>3. InStage("wrong") \in Nat /\ InStage("wrong") <= Cardinality(Call) /\ InStage("wrong") # 0
      BY <3>2, StageCount DEF InStage
    <3>4. InStage("wrong")' = InStage("wrong") - 1
      BY <1>a, <1>c, <2>1, StageMoves
    <3> QED
      BY <3>3, <3>4
  <2>3. CASE ~PinSet
    <3>1. pin' = pin /\ pinSpill' = 0 /\ ~PinSet'
      BY <2>1, <2>3 DEF PinSet
    <3>2. PinInv'
      BY <3>1, EnrolNumbers DEF PinInv
    <3>3. pin' \in PinRow \cup {NoPin} /\ pinSpill' \in Nat
      BY <1>b, <3>1
    <3>4. NoCall.pc \notin {"save", "consume"} /\ call[c].pc \notin {"save", "consume"}
      BY <1>c, <2>1
    <3> QED
      BY <1>c, <1>f, <2>1, <3>2, <3>3, <3>4
  <2>4. CASE PinSet
    <3> DEFINE lu == IF LocksNow(pin) THEN hour + PinLockout ELSE pin.lockedUntil
    <3>1. pin \in PinRow /\ pin.failed \in Nat /\ pin.lockedUntil \in Nat
      BY <1>a, <2>4, PinShape DEF PinRow
    <3>2. lu \in Nat /\ (LocksNow(pin) <=> pin.failed + 1 >= PinLimit)
      BY <1>b, <3>1, EnrolNumbers DEF LocksNow
    <3>3. /\ pin' = [failed |-> pin.failed + 1, lockedUntil |-> lu]
          /\ lu = pin.lockedUntil \/ pin.failed + 1 >= PinLimit
      BY <2>1, <2>4, <3>2
    <3> HIDE DEF lu
    <3>4. pin' \in PinRow /\ pin'.failed = pin.failed + 1 /\ pin'.lockedUntil = lu
      BY <3>1, <3>2, <3>3 DEF PinRow
    <3>5. PinInv'
      <4>1. CASE hour < pin.lockedUntil
        <5>1. pinSpill + InStage("wrong") < Cardinality(Call) /\ pin.failed >= PinLimit /\ pinSpill' = pinSpill + 1
          BY <1>a, <2>1, <2>4, <4>1 DEF PinInv, PinLocked
        <5>2. pinSpill' + InStage("wrong")' < Cardinality(Call) /\ pin'.failed >= PinLimit
              /\ pinSpill' < Cardinality(Call)
          BY <1>b, <2>2, <3>1, <3>4, <5>1, EnrolNumbers
        <5> QED
          BY <5>2 DEF PinInv
      <4>2. CASE ~(hour < pin.lockedUntil)
        <5>1. pinSpill' = 0
          BY <2>1, <4>2
        <5>2. 0 + InStage("wrong")' < Cardinality(Call)
          BY <2>2, EnrolNumbers
        <5>3. PinLocked' => pin'.failed >= PinLimit
          BY <2>1, <3>1, <3>3, <3>4, <4>2 DEF PinLocked
        <5> QED
          BY <5>1, <5>2, <5>3, EnrolNumbers DEF PinInv
      <4> QED
        BY <4>1, <4>2
    <3>6. pinSpill' \in Nat
      BY <1>b, <2>1
    <3> QED
      BY <1>c, <1>f, <2>1, <3>4, <3>5, <3>6
  <2> QED
    BY <2>3, <2>4
<1>7. ASSUME NEW c \in Call, RightPIN(c) \/ StorePIN(c)
      PROVE  EnrolInv'
  <2>1. /\ call[c].pc \in {"right", "set"} /\ call' = [call EXCEPT ![c] = NoCall] /\ pinOnly
        /\ pin' = pin \/ pin' = [failed |-> 0, lockedUntil |-> 0]
        /\ pinSpill' = pinSpill /\ hour' = hour
    BY <1>7 DEF RightPIN, StorePIN, Leave, pinOnly
  <2>2. InStage("wrong")' = InStage("wrong")
    BY <1>a, <1>c, <2>1, StageMoves
  <2>3. CASE pin' = pin
    BY <1>a, <1>b, <1>c, <1>f, <2>1, <2>2, <2>3, PinKept
  <2>4. CASE pin' = [failed |-> 0, lockedUntil |-> 0]
    <3>1. pin' \in PinRow /\ pin'.lockedUntil = 0
      BY <2>4 DEF PinRow
    <3>2. ~PinLocked'
      BY <1>b, <2>1, <3>1 DEF PinLocked
    <3>3. PinInv'
      BY <1>a, <2>1, <3>2 DEF PinInv
    <3> QED
      BY <1>b, <1>c, <1>f, <2>1, <3>1, <3>3
  <2> QED
    BY <2>1, <2>3, <2>4
<1>8. ASSUME NEW c \in Call, SetPatrolPIN(c)
      PROVE  EnrolInv'
  <2>1. /\ call' = [call EXCEPT ![c] = [pc |-> "set"]] /\ call[c].pc = "none" /\ pinOnly
        /\ UNCHANGED <<pin, pinSpill>> /\ hour' = hour
    BY <1>8, <1>c DEF SetPatrolPIN, Enter, pinOnly
  <2>2. [pc |-> "set"] \in AnyCall /\ [pc |-> "set"].pc = "set"
    BY <1>d
  <2>3. InStage("wrong")' = InStage("wrong")
    BY <1>a, <2>1, <2>2, StageMoves
  <2>4. PinInv'
    BY <1>a, <2>1, <2>3, PinKept
  <2> QED
    BY <1>b, <1>f, <2>1, <2>2, <2>4
<1>9. CASE ResetPatrolPIN
  <2>1. pin' = NoPin /\ UNCHANGED <<call, pinSpill>> /\ pinOnly
    BY <1>9 DEF ResetPatrolPIN
  <2>2. \A k : InStage(k)' = InStage(k)
    BY <2>1 DEF InStage, Stage
  <2>3. PinInv'
    BY <1>a, <2>1 DEF PinInv, PinSet
  <2>4. EnrolTyped' /\ OnePhoneOneStudent'
    BY <1>a, <2>1 DEF EnrolTyped, OnePhoneOneStudent, pinOnly
  <2> QED
    BY <1>a, <2>1, <2>2, <2>3, <2>4, LinkKept, WindowKept DEF EnrolInv, pinOnly
\* a step about the passkey link
<1>g. ASSUME call' \in [Call -> AnyCall], InStage("wrong")' = InStage("wrong"), linkOnly,
             link' \in Int, passkeys' \in Nat, LinkInv'
      PROVE  EnrolInv'
  <2>1. EnrolTyped' /\ OnePhoneOneStudent'
    BY <1>a, <1>g DEF EnrolTyped, OnePhoneOneStudent, linkOnly
  <2> QED
    BY <1>a, <1>g, <2>1, PinKept, WindowKept DEF EnrolInv, linkOnly
<1>10. CASE EnrollLink \/ EnrollBegin
  <2>1. /\ UNCHANGED <<call, passkeys>> /\ linkOnly
        /\ link' = link \/ (link = 0 /\ link' = hour + LinkLife)
    BY <1>10 DEF EnrollLink, EnrollBegin
  <2>2. \A k : InStage(k)' = InStage(k)
    BY <2>1 DEF InStage, Stage
  <2>3. link' \in Int /\ (link' # UsedLink => link' >= 0 /\ link # UsedLink)
    BY <1>a, <1>b, <2>1, EnrolNumbers DEF LinkInv, UsedLink
  <2>4. LinkInv'
    BY <1>a, <2>1, <2>2, <2>3 DEF LinkInv, UsedLink
  <2> QED
    BY <1>b, <1>g, <2>1, <2>2, <2>3, <2>4
<1>11. ASSUME NEW c \in Call, FinishRead(c)
       PROVE  EnrolInv'
  <2>1. /\ call' = [call EXCEPT ![c] = [pc |-> "save"]] /\ call[c].pc = "none" /\ linkOnly
        /\ UNCHANGED <<link, ceremony, passkeys>> /\ hour < link
    BY <1>11, <1>c DEF FinishRead, Enter, LinkIsLive
  <2>2. [pc |-> "save"] \in AnyCall /\ [pc |-> "save"].pc = "save"
    BY <1>d
  <2>3. /\ call' \in [Call -> AnyCall] /\ InStage("wrong")' = InStage("wrong")
        /\ InStage("consume")' = InStage("consume") /\ InStage("save")' = InStage("save") + 1
    BY <1>a, <2>1, <2>2, StageMoves
  <2>4. link # UsedLink /\ passkeys = InStage("consume")
    BY <1>a, <1>b, <2>1 DEF LinkInv, UsedLink
  <2>5. InStage("save")' + InStage("consume")' <= Cardinality(Call)
    <3>1. /\ IsFiniteSet(Stage("save")') /\ IsFiniteSet(Stage("consume")')
          /\ Stage("save")' \cap Stage("consume")' = {}
          /\ Stage("save")' \cup Stage("consume")' \in SUBSET Call
      <4>1. Stage("save")' \in SUBSET Call /\ Stage("consume")' \in SUBSET Call
        BY DEF Stage
      <4>2. IsFiniteSet(Stage("save")') /\ IsFiniteSet(Stage("consume")')
        BY <4>1, EnrolNumbers, FS_Subset
      <4> QED
        BY <4>1, <4>2 DEF Stage
    <3>2. Cardinality(Stage("save")' \cup Stage("consume")')
             = Cardinality(Stage("save")') + Cardinality(Stage("consume")')
               - Cardinality(Stage("save")' \cap Stage("consume")')
      BY <3>1, FS_Union
    <3>3. Cardinality(Stage("save")' \cap Stage("consume")') = 0
      BY <3>1, FS_EmptySet
    <3>4. Cardinality(Stage("save")' \cup Stage("consume")') <= Cardinality(Call)
      BY <3>1, EnrolNumbers, FS_Subset
    <3>5. Cardinality(Stage("save")') \in Nat /\ Cardinality(Stage("consume")') \in Nat
      BY <3>1, FS_CardinalityType
    <3>6. Cardinality(Stage("save")') + Cardinality(Stage("consume")') <= Cardinality(Call)
      BY <3>2, <3>3, <3>4, <3>5
    <3> QED
      BY <3>6 DEF InStage
  <2>6. InStage("save")' \in Nat /\ InStage("consume")' \in Nat
    BY <2>3, StageCount
  <2>7. LinkInv'
    <3>1. passkeys' + InStage("save")' <= Cardinality(Call)
      BY <2>1, <2>3, <2>4, <2>5, <2>6, EnrolNumbers
    <3> QED
      BY <1>a, <2>1, <2>3, <3>1 DEF LinkInv
  <2> QED
    BY <1>b, <1>g, <2>1, <2>3, <2>7
<1>12. ASSUME NEW c \in Call, SaveCred(c)
       PROVE  EnrolInv'
  <2> DEFINE x == [call[c] EXCEPT !.pc = "consume"]
  <2>1. call[c].pc = "save" /\ call[c] \in OtherCall
    BY <1>12, <1>b, CallShape DEF SaveCred, AnyCall
  <2>2. x \in AnyCall /\ x.pc = "consume"
    BY <2>1 DEF AnyCall, OtherCall
  <2>3. call' = [call EXCEPT ![c] = x] /\ linkOnly /\ UNCHANGED <<link, ceremony>> /\ passkeys' = passkeys + 1
    BY <1>12 DEF SaveCred
  <2> HIDE DEF x
  <2>4. /\ call' \in [Call -> AnyCall] /\ InStage("wrong")' = InStage("wrong")
        /\ InStage("consume")' = InStage("consume") + 1 /\ InStage("save")' = InStage("save") - 1
    BY <1>a, <2>1, <2>2, <2>3, StageMoves
  <2>5. InStage("save") \in Nat /\ InStage("consume") \in Nat
    BY StageCount
  <2>6. LinkInv'
    <3>1. link' # UsedLink => link' >= 0 /\ passkeys' = InStage("consume")'
      BY <1>a, <2>3, <2>4 DEF LinkInv, UsedLink
    <3>2. passkeys' + InStage("save")' <= Cardinality(Call)
      BY <1>a, <1>b, <2>3, <2>4, <2>5, EnrolNumbers DEF LinkInv
    <3> QED
      BY <3>1, <3>2 DEF LinkInv, UsedLink
  <2> QED
    BY <1>b, <1>g, <2>3, <2>4, <2>6
<1>13. ASSUME NEW c \in Call, ConsumeLink(c)
       PROVE  EnrolInv'
  <2>1. /\ call[c].pc = "consume" /\ call' = [call EXCEPT ![c] = NoCall] /\ linkOnly
        /\ link' = UsedLink /\ UNCHANGED passkeys
    BY <1>13 DEF ConsumeLink, Leave
  <2>2. /\ call' \in [Call -> AnyCall] /\ InStage("wrong")' = InStage("wrong")
        /\ InStage("save")' = InStage("save")
    BY <1>a, <1>c, <2>1, StageMoves
  <2>3. LinkInv' /\ link' \in Int
    BY <1>a, <2>1, <2>2 DEF LinkInv, UsedLink
  <2> QED
    BY <1>b, <1>g, <2>1, <2>2, <2>3
<1>14. CASE WardenLink
  <2>1. /\ wardenLink' = [until |-> hour + WardenTTL(hour), made |-> hour]
        /\ UNCHANGED <<part, call, binding, rebinds, pin, pinSpill, link, ceremony, passkeys, hour>>
    BY <1>14 DEF WardenLink
  <2>2. hour + WardenTTL(hour) \in Int /\ (hour < WindowEnd => hour + WardenTTL(hour) > WindowEnd)
    BY <1>b, EnrolNumbers DEF WardenTTL
  <2>3. WindowInv' /\ wardenLink' \in [until : Int, made : Nat]
    BY <1>b, <2>1, <2>2 DEF WindowInv
  <2>4. \A k : InStage(k)' = InStage(k)
    BY <2>1 DEF InStage, Stage
  <2>5. EnrolTyped' /\ OnePhoneOneStudent'
    BY <1>a, <2>1, <2>3 DEF EnrolTyped, OnePhoneOneStudent
  <2> QED
    BY <1>a, <2>1, <2>3, <2>4, <2>5, PinKept, LinkKept DEF EnrolInv
<1>15. CASE Hour
  <2>1. /\ hour' = hour + 1
        /\ UNCHANGED <<part, call, binding, rebinds, pin, pinSpill, link, ceremony, passkeys, wardenLink>>
    BY <1>15 DEF Hour
  <2>2. \A k : InStage(k)' = InStage(k)
    BY <2>1 DEF InStage, Stage
  <2>3. PinInv'
    <3>1. PinSet => pin.lockedUntil \in Nat
      BY <1>a, PinShape DEF PinRow
    <3>2. PinSet' /\ PinLocked' => PinSet /\ PinLocked
      BY <1>b, <2>1, <3>1 DEF PinSet, PinLocked
    <3> QED
      BY <1>a, <2>1, <2>2, <3>2 DEF PinInv
  <2>4. EnrolTyped' /\ OnePhoneOneStudent'
    BY <1>a, <2>1 DEF EnrolTyped, OnePhoneOneStudent
  <2> QED
    BY <1>a, <2>1, <2>2, <2>3, <2>4, LinkKept, WindowKept DEF EnrolInv
<1>16. CASE UNCHANGED enrolVars
  BY <1>16 DEF enrolVars, EnrolInv, EnrolTyped, OnePhoneOneStudent, PinInv, PinSet, PinLocked,
     LinkInv, WindowInv, InStage, Stage
<1> QED
  BY <1>1, <1>2, <1>3, <1>4, <1>5, <1>6, <1>7, <1>8, <1>9, <1>10, <1>11, <1>12, <1>13, <1>14,
     <1>15, <1>16 DEF EnrolNext

\* Nobody has enrolled anything.
LEMMA InitEnrol == EnrolInit => EnrolInv
<1> SUFFICES ASSUME EnrolInit
             PROVE  EnrolInv
  OBVIOUS
<1>a. /\ call = [c \in Call |-> NoCall] /\ binding = [s \in Pupil |-> Unbound]
      /\ rebinds = [s \in Pupil |-> 0] /\ pin = NoPin /\ pinSpill = 0 /\ link = 0 /\ passkeys = 0
      /\ wardenLink = NoWarden /\ hour = 0
  BY DEF EnrolInit
<1>b. NoCall \in AnyCall /\ NoCall.pc = "none"
  BY DEF NoCall, AnyCall, OtherCall
<1>c. InStage("consume") = 0 /\ InStage("save") = 0
  <2>1. Stage("consume") = {} /\ Stage("save") = {}
    BY <1>a, <1>b DEF Stage
  <2> QED
    BY <2>1, FS_EmptySet DEF InStage
<1>1. EnrolTyped
  BY <1>a, <1>b DEF EnrolTyped, NoWarden
<1>2. OnePhoneOneStudent /\ WindowInv
  BY <1>a DEF OnePhoneOneStudent, WindowInv
<1>3. PinInv /\ LinkInv
  BY <1>a, <1>c, EnrolNumbers DEF PinInv, PinSet, LinkInv
<1> QED
  BY <1>1, <1>2, <1>3 DEF EnrolInv

\* However the requests of an enrolment overlap: one phone, one student; a locked PIN
\* counts only the tries already in flight; a passkey link enrols no more
\* authenticators than requests were finishing; a warden's link lasts its window
\* (student_device.go, patrol_pin.go, webauthn_lecturer.go, warden.go).
THEOREM EnrolmentIsFirmAlways == EnrolSpec => []EnrolmentIsFirm
<1>1. EnrolInv => EnrolmentIsFirm
  <2> SUFFICES ASSUME EnrolInv
               PROVE  EnrolmentIsFirm
    OBVIOUS
  <2>1. PinLockIsFirm
    BY DEF EnrolInv, PinInv, PinLockIsFirm
  <2>2. LinkIsSpent
    <3>1. passkeys \in Nat /\ InStage("save") \in Nat /\ passkeys + InStage("save") <= Cardinality(Call)
      BY StageCount DEF EnrolInv, EnrolTyped, LinkInv
    <3> QED
      BY <3>1, EnrolNumbers DEF LinkIsSpent
  <2>3. WardenLinkLasts
    <3>1. hour \in Nat /\ wardenLink.until \in Int
      BY DEF EnrolInv, EnrolTyped
    <3> QED
      BY <3>1, EnrolNumbers DEF EnrolInv, WindowInv, WardenLinkLasts, WardenValidate
  <2> QED
    BY <2>1, <2>2, <2>3 DEF EnrolInv, EnrolmentIsFirm
<1> QED
  BY <1>1, InitEnrol, NextEnrol, PTL DEF EnrolSpec
=============================================================================
