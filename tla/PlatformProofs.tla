--------------------------- MODULE PlatformProofs ---------------------------
(***************************************************************************)
(* Machine-checked proofs about what runs unattended: the migration runner *)
(* (Migrate) and its statement splitter (SqlSplitter), the scheduler's     *)
(* jobs (Jobs) and the codes on the wall of a room (RoomClock), for any    *)
(* constants that meet their assumptions.                                  *)
(*                                                                         *)
(* Migrate.  A deployer works from a list it read when it started, while   *)
(* others change the ledger.  What keeps the climb in order is that every  *)
(* list is an interval of versions that begins at most one rung above the  *)
(* ledger (PlanInv): applying its first version is the next rung, or one   *)
(* that is there already.                                                  *)
(*                                                                         *)
(* Jobs.  A sweep may fail or its gateway die between any two steps, and   *)
(* the next one starts from the watermark that is left.  CursorInv: what   *)
(* lies behind a cursor or the watermark has been seen.  ClaimInv: at most *)
(* one gateway holds a claimed notice.  LossInv: a fault loses one notice  *)
(* at most.                                                                *)
(*                                                                         *)
(* SqlSplitter.  After k tokens of a lexeme the scanner is inside of what  *)
(* the lexeme opened, unless it is all read (LexFollows); so it cuts only  *)
(* between lexemes, and has the statements the file was written from       *)
(* (ScanInv).                                                              *)
(*                                                                         *)
(* RoomClock.  What is on a screen was derived from an earlier second      *)
(* (ReadInv); how long it is accepted is division with remainder.          *)
(***************************************************************************)
EXTENDS Jobs, Migrate, RoomClock, SqlSplitter, SequenceTheorems, FiniteSetTheorems, TLAPS

(* Migrate: the inductive invariant *)

Top == Len(Script)
How == {"none", "ran", "adopted", "baseline"}
DataStatement == {st \in Statements : ~Creates(st)}
Plan == {Waiting}
        \cup [pc : {"apply"}, adopt : BOOLEAN, todo : SUBSET Version]
        \cup [pc : {"baseline"}, todo : SUBSET Version]

Typed ==
    /\ runs \in 0 .. MaxRuns
    /\ done \in [DataStatement -> Nat]
    /\ ledger \in [Version -> How]
    /\ deploy \in [Deployer -> Plan]

\* The ledger names the versions up to n, and every run under way has an
\* interval left that begins at n + 1 or before it.
UpToHere(n) ==
    /\ AppliedVersions = 1 .. n
    /\ \A d \in Deployer : deploy[d].pc # "idle" =>
          \E k \in 1 .. n + 1, m \in 0 .. Top : deploy[d].todo = k .. m
PlanInv == \E n \in 0 .. Top : UpToHere(n)

\* A baseline still to be recorded was vouched for, and a data statement
\* only ever ran together with the objects of its file.
VouchedInv ==
    \A d \in Deployer : deploy[d].pc = "baseline" =>
        \A v \in deploy[d].todo : Objects(v) \subseteq schema
TogetherInv ==
    \A v \in Version : \A st \in Range(Script[v]) \cap DataStatement :
        done[st] > 0 => Objects(v) \subseteq schema

ScriptInv == LedgerIsTrue /\ VouchedInv /\ TogetherInv /\ RacedForOnce

-----------------------------------------------------------------------------
\* The versions are the numbers of the files.
LEMMA Versions == Top \in Nat /\ Version = 1 .. Top
BY MigrateAssumption DEF Top, Version

\* The first of an interval of versions is where it begins.
LEMMA FirstOfInterval ==
    ASSUME NEW k \in Nat, NEW m \in Nat, k .. m # {}
    PROVE  InOrder(k .. m) = k
<1>1. k \in k .. m /\ \A w \in k .. m : k <= w
  OBVIOUS
<1>2. /\ InOrder(k .. m) \in k .. m
      /\ \A w \in k .. m : InOrder(k .. m) <= w
  BY <1>1 DEF InOrder
<1> QED
  BY <1>1, <1>2

\* What is taken from a list is on it.
LEMMA FirstIsThere ==
    ASSUME PlanInv, NEW d \in Deployer, deploy[d].pc # "idle", deploy[d].todo # {}
    PROVE  InOrder(deploy[d].todo) \in deploy[d].todo
<1>1. PICK n \in 0 .. Top : UpToHere(n)
  BY DEF PlanInv
<1>2. PICK k \in 1 .. n + 1, m \in 0 .. Top : deploy[d].todo = k .. m
  BY <1>1 DEF UpToHere
<1>3. k \in Nat /\ m \in Nat
  BY Versions
<1> QED
  BY <1>2, <1>3, FirstOfInterval

-----------------------------------------------------------------------------
\* Every variable keeps its type.
LEMMA TypedHolds == MigrateSpec => []Typed
<1> USE MigrateAssumption
<1>1. MigrateInit => Typed
  BY DEF MigrateInit, Typed, Plan, How, DataStatement
<1>2. Typed /\ [MigrateNext]_migrateVars => Typed'
  <2> SUFFICES ASSUME Typed, [MigrateNext]_migrateVars PROVE Typed'
    OBVIOUS
  <2> USE DEF Typed
  <2>1. ASSUME NEW d \in Deployer, NEW adopt \in BOOLEAN, Up(d, adopt) PROVE Typed'
    BY <2>1 DEF Up, Plan, Pending
  <2>2. ASSUME NEW d \in Deployer, NEW v \in Version, Baseline(d, v) PROVE Typed'
    BY <2>2, Versions DEF Baseline, Plan
  <2>3. ASSUME NEW d \in Deployer, Apply(d) PROVE Typed'
    <3>1. ledger' \in [Version -> How]
      BY <2>3 DEF Apply, HowRecorded, How
    <3>2. done' \in [DataStatement -> Nat]
      BY <2>3 DEF Apply
    <3>3. deploy' \in [Deployer -> Plan]
      BY <2>3 DEF Apply, Plan, Waiting
    <3> QED
      BY <2>3, <3>1, <3>2, <3>3 DEF Apply
  <2>4. ASSUME NEW d \in Deployer, ApplyFails(d) \/ UpDone(d) PROVE Typed'
    BY <2>4 DEF ApplyFails, UpDone, Plan
  <2>5. ASSUME NEW d \in Deployer, BaselineRow(d) PROVE Typed'
    <3>1. ledger' \in [Version -> How]
      BY <2>5 DEF BaselineRow, How
    <3>2. deploy[d] \in [pc : {"baseline"}, todo : SUBSET Version]
      BY <2>5 DEF BaselineRow, Plan, Waiting
    <3>3. [deploy[d] EXCEPT !.todo = @ \ {InOrder(deploy[d].todo)}]
             \in [pc : {"baseline"}, todo : SUBSET Version]
      BY <3>2
    <3>4. deploy' \in [Deployer -> Plan]
      BY <2>5, <3>3 DEF BaselineRow, Plan
    <3> QED
      BY <2>5, <3>1, <3>4 DEF BaselineRow
  <2>6. CASE UNCHANGED migrateVars
    BY <2>6 DEF migrateVars
  <2> QED
    BY <2>1, <2>2, <2>3, <2>4, <2>5, <2>6 DEF MigrateNext
<1> QED
  BY <1>1, <1>2, PTL DEF MigrateSpec

-----------------------------------------------------------------------------
\* A step that names version k of a list k .. m and leaves k + 1 .. m of it
\* climbs one rung or none.
LEMMA RungOrStay ==
    ASSUME Typed, Typed', NEW n \in 0 .. Top, UpToHere(n),
           NEW d \in Deployer, deploy[d].pc # "idle",
           deploy[d].todo # {},
           AppliedVersions' = AppliedVersions \cup {InOrder(deploy[d].todo)},
           deploy' = [deploy EXCEPT ![d].todo = @ \ {InOrder(deploy[d].todo)}]
    PROVE  \/ AppliedVersions' = AppliedVersions /\ UpToHere(n)'
           \/ n + 1 \in 1 .. Top /\ AppliedVersions' = AppliedVersions \cup {n + 1} /\ UpToHere(n + 1)'
<1> USE Versions
<1>1. PICK k \in 1 .. n + 1, m \in 0 .. Top : deploy[d].todo = k .. m
  BY DEF UpToHere
<1>2. k <= m /\ InOrder(deploy[d].todo) = k
  BY <1>1, FirstOfInterval
<1>3. deploy'[d].todo = k + 1 .. m /\ \A e \in Deployer \ {d} : deploy'[e] = deploy[e]
  BY <1>1, <1>2 DEF Typed, Plan, Waiting
<1>4. ASSUME NEW i \in {n, n + 1}, k + 1 <= i + 1, AppliedVersions' = 1 .. i
      PROVE  UpToHere(i)'
  <2> SUFFICES ASSUME NEW e \in Deployer, deploy'[e].pc # "idle"
               PROVE  \E b \in 1 .. i + 1, c \in 0 .. Top : deploy'[e].todo = b .. c
    BY <1>4 DEF UpToHere
  <2>1. CASE e = d
    BY <2>1, <1>3, <1>4
  <2>2. CASE e # d
    BY <2>2, <1>3, <1>4 DEF UpToHere
  <2> QED
    BY <2>1, <2>2
<1>5. AppliedVersions = 1 .. n
  BY DEF UpToHere
<1>6. CASE k <= n
  BY <1>2, <1>4, <1>5, <1>6
<1>7. CASE k = n + 1
  BY <1>2, <1>4, <1>5, <1>7
<1> QED
  BY <1>6, <1>7

\* Every step climbs one rung or none, and keeps the lists in place.
LEMMA PlanStep ==
    ASSUME Typed, Typed', NEW n \in 0 .. Top, UpToHere(n), [MigrateNext]_migrateVars
    PROVE  \/ AppliedVersions' = AppliedVersions /\ UpToHere(n)'
           \/ n + 1 \in 1 .. Top /\ AppliedVersions' = AppliedVersions \cup {n + 1} /\ UpToHere(n + 1)'
<1> USE Versions
<1>0. AppliedVersions = 1 .. n
  BY DEF UpToHere
<1>1. ASSUME NEW d \in Deployer, NEW plan,
             plan.pc # "idle" => \E k \in 1 .. n + 1, m \in 0 .. Top : plan.todo = k .. m,
             deploy' = [deploy EXCEPT ![d] = plan], ledger' = ledger
      PROVE  AppliedVersions' = AppliedVersions /\ UpToHere(n)'
  <2>1. AppliedVersions' = AppliedVersions
    BY <1>1 DEF AppliedVersions
  <2>2. ASSUME NEW e \in Deployer, deploy'[e].pc # "idle"
        PROVE  \E k \in 1 .. n + 1, m \in 0 .. Top : deploy'[e].todo = k .. m
    <3>1. CASE e = d
      BY <3>1, <2>2, <1>1 DEF Typed
    <3>2. CASE e # d
      BY <3>2, <2>2, <1>1 DEF Typed, UpToHere
    <3> QED
      BY <3>1, <3>2
  <2> QED
    BY <2>1, <2>2, <1>0 DEF UpToHere
<1>2. ASSUME NEW d \in Deployer, NEW adopt \in BOOLEAN, Up(d, adopt)
      PROVE  AppliedVersions' = AppliedVersions /\ UpToHere(n)'
  <2>1. Pending(AppliedVersions) = n + 1 .. Top
    BY <1>0 DEF Pending
  <2>2. \E k \in 1 .. n + 1, m \in 0 .. Top : Pending(AppliedVersions) = k .. m
    BY <2>1
  <2> QED
    BY <1>1, <1>2, <2>2 DEF Up
<1>3. ASSUME NEW d \in Deployer, NEW v \in Version, Baseline(d, v)
      PROVE  AppliedVersions' = AppliedVersions /\ UpToHere(n)'
  <2>1. v \in 0 .. Top /\ 1 \in 1 .. n + 1
    OBVIOUS
  <2>2. \E k \in 1 .. n + 1, m \in 0 .. Top : 1 .. v = k .. m
    BY <2>1
  <2> DEFINE plan == [pc |-> "baseline", todo |-> 1 .. v]
  <2>3. deploy' = [deploy EXCEPT ![d] = plan] /\ ledger' = ledger
    BY <1>3 DEF Baseline
  <2> QED
    BY <1>1, <2>2, <2>3
<1>4. ASSUME NEW d \in Deployer, ApplyFails(d) \/ UpDone(d)
      PROVE  AppliedVersions' = AppliedVersions /\ UpToHere(n)'
  BY <1>1, <1>4 DEF ApplyFails, UpDone, Waiting
<1>5. ASSUME NEW d \in Deployer, Apply(d)
      PROVE  \/ AppliedVersions' = AppliedVersions /\ UpToHere(n)'
             \/ n + 1 \in 1 .. Top /\ AppliedVersions' = AppliedVersions \cup {n + 1} /\ UpToHere(n + 1)'
  <2>1. InOrder(deploy[d].todo) \in Version
    BY <1>5, FirstIsThere DEF Apply, PlanInv, Typed, Plan, Waiting
  <2>2. AppliedVersions' = AppliedVersions \cup {InOrder(deploy[d].todo)}
    BY <1>5, <2>1 DEF Apply, AppliedVersions, Typed, HowRecorded
  <2> QED
    BY <1>5, <2>2, RungOrStay DEF Apply
<1>6. ASSUME NEW d \in Deployer, BaselineRow(d)
      PROVE  \/ AppliedVersions' = AppliedVersions /\ UpToHere(n)'
             \/ n + 1 \in 1 .. Top /\ AppliedVersions' = AppliedVersions \cup {n + 1} /\ UpToHere(n + 1)'
  <2>1. CASE deploy[d].todo = {}
    BY <2>1, <1>1, <1>6 DEF BaselineRow, Waiting
  <2>2. CASE deploy[d].todo # {}
    <3>1. InOrder(deploy[d].todo) \in Version
      BY <1>6, <2>2, FirstIsThere DEF BaselineRow, PlanInv, Typed, Plan, Waiting
    <3>2. AppliedVersions' = AppliedVersions \cup {InOrder(deploy[d].todo)}
      BY <1>6, <2>2, <3>1 DEF BaselineRow, AppliedVersions, Typed
    <3> QED
      BY <1>6, <2>2, <3>2, RungOrStay DEF BaselineRow
  <2> QED
    BY <2>1, <2>2
<1>7. CASE UNCHANGED migrateVars
  BY <1>7, <1>0 DEF migrateVars, UpToHere, AppliedVersions
<1> QED
  BY <1>2, <1>3, <1>4, <1>5, <1>6, <1>7 DEF MigrateNext

\* The lists of all runs stay intervals that begin at the next rung or below.
LEMMA PlanInvHolds == MigrateSpec => []PlanInv
<1>1. MigrateInit => PlanInv
  <2> SUFFICES ASSUME MigrateInit PROVE UpToHere(0)
    BY Versions DEF PlanInv
  <2> QED
    BY DEF MigrateInit, UpToHere, AppliedVersions, Waiting
<1>2. Typed /\ Typed' /\ PlanInv /\ [MigrateNext]_migrateVars => PlanInv'
  BY PlanStep, Versions DEF PlanInv
<1> QED
  BY <1>1, <1>2, TypedHolds, PTL DEF MigrateSpec

\* "Once each, in order": however many deployers run, adopt, baseline and die
\* at the same time, over whatever files, the ledger climbs one version at a
\* time, without a gap and without a step back (migrate.go, Up and Baseline).
THEOREM LedgerClimbs == MigrateSpec => ClimbsInOrder
<1>1. MigrateInit => Ladder!LadderInit
  BY DEF MigrateInit, Ladder!LadderInit, AppliedVersions
<1>2. ASSUME Typed, Typed', PlanInv, [MigrateNext]_migrateVars
      PROVE  [Ladder!Climb]_AppliedVersions
  <2>1. PICK n \in 0 .. Top : UpToHere(n)
    BY <1>2 DEF PlanInv
  <2>2. \/ AppliedVersions' = AppliedVersions
        \/ n + 1 \in 1 .. Top /\ AppliedVersions' = AppliedVersions \cup {n + 1}
    BY <1>2, <2>1, PlanStep
  <2>3. AppliedVersions = 1 .. (n + 1) - 1
    BY <2>1, Versions DEF UpToHere
  <2> QED
    BY <2>2, <2>3 DEF Ladder!Climb, Top
<1> QED
  BY <1>1, <1>2, TypedHolds, PlanInvHolds, PTL DEF MigrateSpec, ClimbsInOrder, Ladder!LadderSpec

-----------------------------------------------------------------------------
\* Applying a file keeps ledger and schema together.
LEMMA ApplyScript ==
    ASSUME Typed, PlanInv, ScriptInv, NEW d \in Deployer, Apply(d)
    PROVE  ScriptInv'
<1> DEFINE v == InOrder(deploy[d].todo)
<1>1. v \in Version
  BY FirstIsThere DEF Apply, Typed, Plan, Waiting
<1>2. /\ schema' = schema \cup Objects(v)
      /\ done' = [st \in DataStatement |-> IF st \in Range(Script[v]) THEN done[st] + 1 ELSE done[st]]
      /\ ledger' = [ledger EXCEPT ![v] = HowRecorded(v)]
      /\ DOMAIN done = DataStatement /\ DOMAIN done' = DataStatement
  BY DEF Apply, Landed, Typed
<1>3. \A st \in DataStatement : done[st] \in Nat /\ done'[st] >= done[st]
  BY <1>2 DEF Typed
<1>4. \A w \in Version \ {v} : /\ ledger'[w] = ledger[w]
                               /\ \A st \in Range(Script[w]) \cap DataStatement : done'[st] = done[st]
  BY <1>1, <1>2, MigrateAssumption DEF Typed, DataStatement
<1>5. ledger'[v] = HowRecorded(v) /\ \A st \in Range(Script[v]) \cap DataStatement : done'[st] = done[st] + 1
  BY <1>1, <1>2 DEF Typed
<1> HIDE DEF v
<1>6. LedgerIsTrue'
  <2> SUFFICES ASSUME NEW w \in Version, ledger'[w] # "none"
               PROVE  /\ Objects(w) \subseteq schema'
                      /\ ledger'[w] # "baseline" =>
                            \A st \in Range(Script[w]) \cap DataStatement : done'[st] >= 1
    BY <1>2 DEF LedgerIsTrue, AppliedVersions
  <2>1. CASE w = v
    BY <2>1, <1>2, <1>3, <1>5
  <2>2. CASE w # v
    BY <2>2, <1>2, <1>4 DEF ScriptInv, LedgerIsTrue, AppliedVersions
  <2> QED
    BY <2>1, <2>2
<1>7. VouchedInv'
  <2>1. \A e \in Deployer : deploy'[e].pc = deploy[e].pc
    BY DEF Apply, Typed, Plan, Waiting
  <2>2. \A e \in Deployer : deploy[e].pc = "baseline" => deploy'[e] = deploy[e]
    BY DEF Apply, Typed
  <2> QED
    BY <2>1, <2>2, <1>2 DEF ScriptInv, VouchedInv
<1>8. TogetherInv'
  <2> SUFFICES ASSUME NEW w \in Version, NEW st \in Range(Script[w]) \cap DataStatement, done'[st] > 0
               PROVE  Objects(w) \subseteq schema'
    BY DEF TogetherInv
  <2>1. CASE w = v
    BY <2>1, <1>2
  <2>2. CASE w # v
    BY <2>2, <1>2, <1>4 DEF ScriptInv, TogetherInv
  <2> QED
    BY <2>1, <2>2
<1>9. RacedForOnce'
  <2> SUFFICES ASSUME NEW w \in Version, ledger'[w] = "ran", Objects(w) # {},
                      NEW st \in Range(Script[w]) \cap DataStatement
               PROVE  done'[st] <= 1
    BY <1>2 DEF RacedForOnce
  <2>1. CASE w = v
    <3>1. Skipped(v) = {}
      BY <2>1, <1>5 DEF HowRecorded
    <3>2. ~(Objects(v) \subseteq schema)
      BY <3>1, <2>1 DEF Skipped, Objects
    <3>3. done[st] = 0
      BY <3>2, <2>1, <1>1, <1>3 DEF ScriptInv, TogetherInv
    <3> QED
      BY <3>3, <1>5, <2>1
  <2>2. CASE w # v
    BY <2>2, <1>2, <1>4 DEF ScriptInv, RacedForOnce
  <2> QED
    BY <2>1, <2>2
<1> QED
  BY <1>6, <1>7, <1>8, <1>9 DEF ScriptInv

\* So does every other step.
LEMMA ScriptStep ==
    ASSUME Typed, PlanInv, ScriptInv, [MigrateNext]_migrateVars
    PROVE  ScriptInv'
<1>0. DOMAIN done = DataStatement
  BY DEF Typed
<1>1. ASSUME UNCHANGED <<schema, done, ledger>>
      PROVE  LedgerIsTrue' /\ TogetherInv' /\ RacedForOnce'
  BY <1>1 DEF ScriptInv, LedgerIsTrue, TogetherInv, RacedForOnce, AppliedVersions
<1>2. ASSUME NEW d \in Deployer, NEW adopt \in BOOLEAN, Up(d, adopt) PROVE ScriptInv'
  <2>1. VouchedInv'
    BY <1>2 DEF Up, ScriptInv, VouchedInv, Typed
  <2> QED
    BY <1>1, <1>2, <2>1 DEF Up, ScriptInv
<1>3. ASSUME NEW d \in Deployer, NEW u \in Version, Baseline(d, u) PROVE ScriptInv'
  <2>1. VouchedInv'
    BY <1>3 DEF Baseline, ScriptInv, VouchedInv, Typed
  <2> QED
    BY <1>1, <1>3, <2>1 DEF Baseline, ScriptInv
<1>4. ASSUME NEW d \in Deployer, ApplyFails(d) \/ UpDone(d) PROVE ScriptInv'
  <2>1. VouchedInv'
    BY <1>4 DEF ApplyFails, UpDone, Waiting, ScriptInv, VouchedInv, Typed
  <2> QED
    BY <1>1, <1>4, <2>1 DEF ApplyFails, UpDone, ScriptInv
<1>5. ASSUME NEW d \in Deployer, BaselineRow(d) PROVE ScriptInv'
  <2>1. VouchedInv'
    <3> SUFFICES ASSUME NEW e \in Deployer, deploy'[e].pc = "baseline", NEW w \in deploy'[e].todo
                 PROVE  deploy[e].pc = "baseline" /\ w \in deploy[e].todo /\ schema' = schema
      BY DEF ScriptInv, VouchedInv
    <3>1. CASE e # d
      BY <3>1, <1>5 DEF BaselineRow, Typed
    <3>2. CASE e = d
      <4>1. deploy[d] \in [pc : {"baseline"}, todo : SUBSET Version]
        BY <1>5 DEF BaselineRow, Typed, Plan, Waiting
      <4>2. deploy[d].todo # {}
        BY <3>2, <1>5 DEF BaselineRow, Typed, Waiting
      <4>3. deploy'[d] = [deploy[d] EXCEPT !.todo = @ \ {InOrder(deploy[d].todo)}]
        BY <4>2, <1>5 DEF BaselineRow, Typed
      <4> QED
        BY <3>2, <4>1, <4>3, <1>5 DEF BaselineRow
    <3> QED
      BY <3>1, <3>2
  <2>2. CASE deploy[d].todo = {}
    BY <1>1, <1>5, <2>1, <2>2 DEF BaselineRow, ScriptInv
  <2>3. CASE deploy[d].todo # {}
    <3> DEFINE v == InOrder(deploy[d].todo)
    <3>1. v \in deploy[d].todo /\ v \in Version
      BY <1>5, <2>3, FirstIsThere DEF BaselineRow, Typed, Plan, Waiting
    <3>2. /\ ledger' = IF ledger[v] = "none" THEN [ledger EXCEPT ![v] = "baseline"] ELSE ledger
          /\ schema' = schema /\ done' = done
      BY <1>5, <2>3 DEF BaselineRow
    <3>3. Objects(v) \subseteq schema
      BY <3>1, <1>5 DEF BaselineRow, ScriptInv, VouchedInv
    <3> HIDE DEF v
    <3>4. \A w \in Version : ledger'[w] = ledger[w] \/ (w = v /\ ledger'[w] = "baseline")
      <4>1. ledger \in [Version -> How]
        BY DEF Typed
      <4> QED
        BY <3>1, <3>2, <4>1
    <3>5. LedgerIsTrue' /\ RacedForOnce' /\ TogetherInv'
      BY <3>2, <3>3, <3>4 DEF ScriptInv, LedgerIsTrue, RacedForOnce, TogetherInv, AppliedVersions
    <3> QED
      BY <2>1, <3>5 DEF ScriptInv
  <2> QED
    BY <2>2, <2>3
<1>6. CASE UNCHANGED migrateVars
  <2>1. VouchedInv'
    BY <1>6 DEF migrateVars, ScriptInv, VouchedInv
  <2> QED
    BY <1>1, <1>6, <2>1 DEF migrateVars, ScriptInv
<1> QED
  BY <1>2, <1>3, <1>4, <1>5, <1>6, ApplyScript DEF MigrateNext

\* The ledger and the schema agree, for every set of files and every overlap
\* and death of deployers: what is recorded exists, no data statement of a
\* recorded file is missing, and where a file has an object of its own, two
\* deployers who race for it change its data once (migrate.go, Apply).
THEOREM LedgerIsSoundAlways == MigrateSpec => []LedgerIsSound
<1>1. MigrateInit => ScriptInv
  BY DEF MigrateInit, ScriptInv, LedgerIsTrue, VouchedInv, TogetherInv, RacedForOnce,
         AppliedVersions, Waiting, DataStatement
<1>2. Typed /\ PlanInv /\ ScriptInv /\ [MigrateNext]_migrateVars => ScriptInv'
  BY ScriptStep
<1>3. Typed /\ ScriptInv => LedgerIsSound
  <2> SUFFICES ASSUME Typed, ScriptInv PROVE MigrateTypeOK
    BY DEF LedgerIsSound, ScriptInv
  <2>1. \A d \in Deployer : deploy[d].pc \in {"idle", "apply", "baseline"}
    BY DEF Typed, Plan, Waiting
  <2> QED
    BY <2>1 DEF MigrateTypeOK, Typed, How
<1> QED
  BY <1>1, <1>2, <1>3, TypedHolds, PlanInvHolds, PTL DEF MigrateSpec

-----------------------------------------------------------------------------
(* Jobs: arithmetic *)

\* Division with remainder, as SQL's and Go's integer seconds are divided.
LEMMA Division ==
    ASSUME NEW n \in Nat \ {0}, NEW a \in Int
    PROVE  /\ a \div n \in Int /\ a % n \in 0..(n - 1)
           /\ a = n * (a \div n) + (a % n)
  OBVIOUS

\* A larger factor is at least one more multiple away.
LEMMA Multiples ==
    ASSUME NEW n \in Nat \ {0}, NEW a \in Int, NEW b \in Int, a < b
    PROVE  n * a + n <= n * b
  <1>1. PICK d \in Nat : b = a + 1 + d
    <2>1. b - a - 1 \in Nat /\ b = a + 1 + (b - a - 1)  OBVIOUS
    <2>. QED BY <2>1
  <1>2. n * b = n * a + n + n * d  BY <1>1
  <1>3. n * d >= 0  OBVIOUS
  <1>. QED BY <1>2, <1>3

-----------------------------------------------------------------------------
(* Jobs: the inductive invariant *)

\* What a scheduler goroutine can be doing
Doing ==
    [pc : {"idle"}]
    \cup [pc : {"window"}, cursor : Int, now : Int]
    \cup [pc : {"rows"}, cursor : Int, now : Int, rows : SUBSET (Slot \cup Badge)]
    \cup [pc : {"send"}, cursor : Int, now : Int, rows : SUBSET (Slot \cup Badge), notice : Notice]

JobsTyped ==
    /\ job \in Job /\ minute \in 0..LastMinute /\ mark \in Int
    /\ sweeper \in [Gateway -> Doing]
    /\ claimed \subseteq Notice /\ IsFiniteSet(claimed)
    /\ sent \in [Notice -> Nat]
    /\ sheet \in [Badge -> [imported : Int, day : {"normal", "exception", "clockedIn"}]]
    /\ faults \in Nat

\* Whoever is due has a row with a date, also when a later import has changed the row
Dated(x) == x \in Badge /\ sheet[x].imported \in 0..LastMinute
DueInv ==
    /\ \A b \in Badge : sheet[b].day = "normal" \/ Dated(b)
    /\ job \in {"exceptions", "checkout"} =>
          \A g \in Gateway : sweeper[g].pc \in {"rows", "send"} => \A x \in sweeper[g].rows : Dated(x)

\* What lies behind a sweep's cursor has been seen, as has what lies behind the watermark
CursorInv ==
    /\ NoMinuteSkipped
    /\ \A g \in Gateway : sweeper[g].pc # "idle" => \A m \in 0..(sweeper[g].cursor - 1) : m \in seen

Holds(g, n) == sweeper[g].pc = "send" /\ sweeper[g].notice = n

\* One gateway at most holds a claimed notice, and while it does the notice is not out
ClaimInv ==
    /\ \A n \in Notice : sent[n] <= 1 /\ (sent[n] = 1 => n \in claimed)
    /\ \A g \in Gateway : sweeper[g].pc = "send" =>
          sweeper[g].notice \in claimed /\ sent[sweeper[g].notice] = 0
    /\ \A g, h \in Gateway : sweeper[g].pc = "send" /\ sweeper[h].pc = "send"
                             /\ sweeper[g].notice = sweeper[h].notice => g = h

Lost == {n \in claimed : sent[n] = 0 /\ \A g \in Gateway : ~Holds(g, n)}
LossInv == Cardinality(Lost) <= faults

JobsInv == JobsTyped /\ DueInv /\ CursorInv /\ ClaimInv /\ LossInv

-----------------------------------------------------------------------------
(* Jobs: days, and what a sweeper's record holds *)

\* A minute of the run lies on a day of the run.
LEMMA DayInRange ==
    ASSUME NEW m \in 0..LastMinute
    PROVE  DayOf(m) \in 0..DayOf(LastMinute)
  <1>. DEFINE d == DayMinutes  p == m \div d  q == LastMinute \div d  r == m % d  s == LastMinute % d
  <1>1. d \in Nat \ {0} /\ LastMinute \in Nat /\ m \in Nat /\ m <= LastMinute  BY JobsAssumption
  <1>2. p \in Int /\ r \in 0..(d - 1) /\ m = d * p + r  BY <1>1, Division
  <1>3. q \in Int /\ s \in 0..(d - 1) /\ LastMinute = d * q + s  BY <1>1, Division
  <1>. HIDE DEF d, p, q, r, s
  <1>4. p >= 0
    <2>1. p < 0 => d * p + d <= d * 0  BY <1>1, <1>2, Multiples
    <2>. QED BY <1>1, <1>2, <2>1
  <1>5. p <= q
    <2>1. q < p => d * q + d <= d * p  BY <1>1, <1>2, <1>3, Multiples
    <2>. QED BY <1>1, <1>2, <1>3, <2>1
  <1>. QED BY <1>2, <1>3, <1>4, <1>5 DEF p, q, d, DayOf

\* A sweeper's record by its pc.
LEMMA Shapes ==
    ASSUME NEW s \in Doing
    PROVE  /\ s.pc \in {"idle", "window", "rows", "send"}
           /\ s.pc = "idle" => s = Asleep
           /\ s.pc # "idle" => s.cursor \in Int /\ s.now \in Int
           /\ s.pc = "rows" => s \in [pc : {"rows"}, cursor : Int, now : Int, rows : SUBSET (Slot \cup Badge)]
           /\ s.pc \in {"rows", "send"} => s.rows \subseteq Slot \cup Badge
           /\ s.pc = "send" => s.notice \in Notice
  BY DEF Doing, Asleep

\* One goroutine's record changes and the others' stay.
LEMMA SweeperMoves ==
    ASSUME sweeper \in [Gateway -> Doing], NEW g \in Gateway, NEW r \in Doing,
           sweeper' = [sweeper EXCEPT ![g] = r]
    PROVE  /\ sweeper' \in [Gateway -> Doing] /\ sweeper'[g] = r
           /\ \A h \in Gateway : h # g => sweeper'[h] = sweeper[h]
  OBVIOUS

\* A move of one sweeper that leaves the rows due with their dates keeps DueInv.
LEMMA DueMoves ==
    ASSUME JobsTyped, DueInv, NEW g \in Gateway, NEW r \in Doing,
           sweeper' = [sweeper EXCEPT ![g] = r], UNCHANGED <<job, sheet>>,
           job \in {"exceptions", "checkout"} /\ r.pc \in {"rows", "send"} => \A x \in r.rows : Dated(x)
    PROVE  DueInv'
  <1>1. /\ sweeper'[g] = r /\ \A h \in Gateway : h # g => sweeper'[h] = sweeper[h]
    BY SweeperMoves DEF JobsTyped
  <1>2. \A x : Dated(x)' <=> Dated(x)  BY DEF Dated
  <1>3. ASSUME NEW h \in Gateway, job' \in {"exceptions", "checkout"}, sweeper'[h].pc \in {"rows", "send"},
               NEW x \in sweeper'[h].rows
        PROVE  Dated(x)
    BY <1>1, <1>3 DEF DueInv
  <1>4. \A b \in Badge : sheet'[b].day = "normal" \/ Dated(b)  BY DEF DueInv
  <1>. QED BY <1>2, <1>3, <1>4 DEF DueInv

\* A move of one sweeper keeps CursorInv when what lies behind its cursor and behind the watermark is seen.
LEMMA CursorMoves ==
    ASSUME JobsTyped, CursorInv, NEW g \in Gateway, NEW r \in Doing,
           sweeper' = [sweeper EXCEPT ![g] = r], seen \subseteq seen',
           \A m \in 0..(mark' - 1) : m \in seen',
           r.pc # "idle" => \A m \in 0..(r.cursor - 1) : m \in seen'
    PROVE  CursorInv'
  <1>1. /\ sweeper'[g] = r /\ \A h \in Gateway : h # g => sweeper'[h] = sweeper[h]
    BY SweeperMoves DEF JobsTyped
  <1>. QED BY <1>1 DEF CursorInv, NoMinuteSkipped

\* What is lost is finitely much, and so is counted.
LEMMA LostFinite ==
    ASSUME JobsTyped PROVE IsFiniteSet(Lost) /\ Cardinality(Lost) \in Nat
  <1>1. Lost \subseteq claimed  BY DEF Lost
  <1>2. IsFiniteSet(Lost)  BY <1>1, FS_Subset DEF JobsTyped
  <1>. QED BY <1>2, FS_CardinalityType

\* Nothing new is lost.
LEMMA NothingLost ==
    ASSUME JobsTyped, LossInv, Lost' \subseteq Lost, faults' \in Nat, faults' >= faults
    PROVE  LossInv'
  <1>1. IsFiniteSet(Lost) /\ Cardinality(Lost) \in Nat  BY LostFinite
  <1>. DEFINE L == Lost'
  <1>2. L \subseteq Lost  OBVIOUS
  <1>. HIDE DEF L
  <1>3. IsFiniteSet(L) /\ Cardinality(L) <= Cardinality(Lost)  BY <1>1, <1>2, FS_Subset
  <1>4. Cardinality(L) \in Nat  BY <1>3, FS_CardinalityType
  <1>5. Cardinality(L) <= faults'  BY <1>1, <1>3, <1>4 DEF LossInv, JobsTyped
  <1>. QED BY <1>5 DEF LossInv, L

\* One notice is lost, to one more fault.
LEMMA OneLost ==
    ASSUME JobsTyped, LossInv, NEW n, Lost' \subseteq Lost \cup {n}, faults' = faults + 1
    PROVE  LossInv'
  <1>1. IsFiniteSet(Lost) /\ Cardinality(Lost) \in Nat  BY LostFinite
  <1>. DEFINE L == Lost'  M == Lost \cup {n}
  <1>2. IsFiniteSet(M) /\ (Cardinality(M) = Cardinality(Lost) \/ Cardinality(M) = Cardinality(Lost) + 1)
    BY <1>1, FS_AddElement
  <1>3. L \subseteq M  OBVIOUS
  <1>. HIDE DEF L, M
  <1>4. IsFiniteSet(L) /\ Cardinality(L) <= Cardinality(M)  BY <1>2, <1>3, FS_Subset
  <1>5. Cardinality(L) \in Nat  BY <1>4, FS_CardinalityType
  <1>6. Cardinality(L) <= faults'  BY <1>1, <1>2, <1>4, <1>5 DEF LossInv, JobsTyped
  <1>. QED BY <1>6 DEF LossInv, L

\* A move of a sweeper that holds no notice before or after leaves claims and losses as they are.
LEMMA QuietMoves ==
    ASSUME JobsTyped, ClaimInv, LossInv, NEW g \in Gateway, NEW r \in Doing,
           sweeper' = [sweeper EXCEPT ![g] = r], sweeper[g].pc # "send", r.pc # "send",
           UNCHANGED <<claimed, sent>>, faults' \in Nat, faults' >= faults
    PROVE  ClaimInv' /\ LossInv'
  <1>1. /\ sweeper'[g] = r /\ \A h \in Gateway : h # g => sweeper'[h] = sweeper[h]
    BY SweeperMoves DEF JobsTyped
  <1>2. \A h \in Gateway : sweeper'[h].pc = "send" => sweeper[h].pc = "send" /\ sweeper'[h] = sweeper[h]
    BY <1>1
  <1>3. ClaimInv'  BY <1>2 DEF ClaimInv
  <1>4. \A h \in Gateway, n \in Notice : Holds(h, n) => Holds(h, n)'  BY <1>1 DEF Holds
  <1>5. Lost' \subseteq Lost  BY <1>4 DEF Lost, JobsTyped
  <1>. QED BY <1>3, <1>5, NothingLost

\* A sweeper that is cut off loses the notice it holds, if it holds one, to the fault.
LEMMA CutOffMoves ==
    ASSUME JobsTyped, ClaimInv, LossInv, NEW g \in Gateway,
           sweeper' = [sweeper EXCEPT ![g] = Asleep], UNCHANGED <<claimed, sent>>, faults' = faults + 1
    PROVE  ClaimInv' /\ LossInv'
  <1>. DEFINE r == Asleep
  <1>0. r \in Doing /\ r.pc = "idle"  BY DEF Doing, Asleep
  <1>. HIDE DEF r
  <1>1. CASE sweeper[g].pc # "send"
    <2>1. faults' \in Nat /\ faults' >= faults  BY DEF JobsTyped
    <2>2. sweeper' = [sweeper EXCEPT ![g] = r]  BY DEF r
    <2>. QED BY <1>0, <1>1, <2>1, <2>2, QuietMoves
  <1>2. CASE sweeper[g].pc = "send"
    <2>1. /\ sweeper'[g] = r /\ \A h \in Gateway : h # g => sweeper'[h] = sweeper[h]
      BY <1>0, SweeperMoves DEF JobsTyped, r
    <2>2. \A h \in Gateway : sweeper'[h].pc = "send" => sweeper[h].pc = "send" /\ sweeper'[h] = sweeper[h]
      BY <1>0, <2>1
    <2>3. ClaimInv'  BY <2>2 DEF ClaimInv
    <2>4. \A h \in Gateway, n \in Notice : h # g /\ Holds(h, n) => Holds(h, n)'  BY <2>1 DEF Holds
    <2>5. \A n : Holds(g, n) => n = sweeper[g].notice  BY DEF Holds
    <2>6. Lost' \subseteq Lost \cup {sweeper[g].notice}  BY <2>4, <2>5 DEF Lost, JobsTyped
    <2>7. LossInv'
      <3>. DEFINE n == sweeper[g].notice
      <3>1. Lost' \subseteq Lost \cup {n}  BY <2>6
      <3>. HIDE DEF n
      <3>. QED BY <3>1, OneLost
    <2>. QED BY <2>3, <2>7
  <1>. QED BY <1>1, <1>2

-----------------------------------------------------------------------------
(* Jobs: each action keeps the invariant *)

\* Types of a move of one sweeper that leaves the world and the notices alone.
LEMMA TypesMove ==
    ASSUME JobsTyped, NEW g \in Gateway, NEW r \in Doing, sweeper' = [sweeper EXCEPT ![g] = r],
           mark' \in Int, UNCHANGED <<claimed, sent, job, minute, sheet>>, faults' \in Nat
    PROVE  JobsTyped'
  <1>1. sweeper' \in [Gateway -> Doing]  BY SweeperMoves DEF JobsTyped
  <1>. QED BY <1>1 DEF JobsTyped

\* At the start nobody sweeps, nothing is claimed and no sheet is imported.
LEMMA InitHolds == JobsInit => JobsInv
  <1>. SUFFICES ASSUME JobsInit PROVE JobsInv  OBVIOUS
  <1>1. \A g \in Gateway : sweeper[g].pc = "idle"  BY DEF JobsInit, Asleep
  <1>2. JobsTyped
    <2>1. Asleep \in Doing  BY DEF Asleep, Doing
    <2>2. IsFiniteSet(claimed)  BY FS_EmptySet DEF JobsInit
    <2>3. Never \in Int  BY JobsAssumption DEF Never
    <2>4. 0 \in 0..LastMinute
      <3>1. LastMinute \in Nat  BY JobsAssumption
      <3>. QED BY <3>1
    <2>5. [imported |-> Never, day |-> "normal"] \in [imported : Int, day : {"normal", "exception", "clockedIn"}]  BY <2>3
    <2>6. sheet \in [Badge -> [imported : Int, day : {"normal", "exception", "clockedIn"}]]  BY <2>5 DEF JobsInit
    <2>7. sweeper \in [Gateway -> Doing] /\ sent \in [Notice -> Nat]  BY <2>1 DEF JobsInit
    <2>. QED BY <2>2, <2>3, <2>4, <2>6, <2>7 DEF JobsInit, JobsTyped
  <1>3. DueInv  BY <1>1 DEF DueInv, JobsInit
  <1>4. CursorInv
    <2>1. mark - 1 < 0  BY JobsAssumption DEF JobsInit, Never
    <2>2. mark \in Int  BY <1>2 DEF JobsTyped
    <2>. QED BY <1>1, <2>1, <2>2 DEF CursorInv, NoMinuteSkipped
  <1>5. ClaimInv  BY <1>1 DEF ClaimInv, JobsInit
  <1>6. LossInv
    <2>1. Lost = {}  BY DEF Lost, JobsInit
    <2>. QED BY <2>1, FS_EmptySet DEF LossInv, JobsInit
  <1>. QED BY <1>2, <1>3, <1>4, <1>5, <1>6 DEF JobsInv

\* The clock, the lectures and the staff sheets change nothing of a sweep.
LEMMA WorldKeeps ==
    ASSUME JobsInv,
           \/ MinutePasses
           \/ \E x \in Slot : RecordLecture(x)
           \/ \E b \in Badge, d \in {"normal", "exception", "clockedIn"} : ImportEmployeeSheet(b, d)
           \/ UNCHANGED jobsVars
    PROVE  JobsInv'
  <1>1. UNCHANGED <<job, mark, seen, sweeper, claimed, sent, faults>>
    BY DEF MinutePasses, RecordLecture, ImportEmployeeSheet, unchangedRunner, jobsVars
  <1>2. minute' \in 0..LastMinute
    <2>1. LastMinute \in Nat /\ minute \in 0..LastMinute  BY JobsAssumption DEF JobsInv, JobsTyped
    <2>2. minute' = minute \/ (minute < LastMinute /\ minute' = minute + 1)
      BY DEF MinutePasses, RecordLecture, ImportEmployeeSheet, jobsVars
    <2>. QED BY <2>1, <2>2
  <1>3. /\ sheet' \in [Badge -> [imported : Int, day : {"normal", "exception", "clockedIn"}]]
        /\ \A c \in Badge : sheet'[c] = sheet[c] \/ sheet'[c].imported \in 0..LastMinute
    <2>1. CASE sheet' = sheet  BY <2>1 DEF JobsInv, JobsTyped
    <2>2. ASSUME NEW b \in Badge, NEW d \in {"normal", "exception", "clockedIn"}, ImportEmployeeSheet(b, d)
          PROVE  <1>3!1 /\ <1>3!2
      <3>. DEFINE e == [imported |-> minute, day |-> d]
      <3>1. e \in [imported : Int, day : {"normal", "exception", "clockedIn"}] /\ e.imported \in 0..LastMinute
        <4>1. LastMinute \in Nat /\ minute \in 0..LastMinute  BY JobsAssumption DEF JobsInv, JobsTyped
        <4>. QED BY <4>1
      <3>2. sheet' = [sheet EXCEPT ![b] = e]  BY <2>2 DEF ImportEmployeeSheet
      <3>. HIDE DEF e
      <3>. QED BY <3>1, <3>2 DEF JobsInv, JobsTyped
    <2>. QED BY <2>1, <2>2 DEF MinutePasses, RecordLecture, jobsVars
  <1>4. JobsTyped'  BY <1>1, <1>2, <1>3 DEF JobsInv, JobsTyped
  <1>5. DueInv'
    <2>1. \A x : Dated(x) => Dated(x)'  BY <1>3 DEF Dated
    <2>2. \A b \in Badge : sheet'[b].day = "normal" \/ Dated(b)'
      BY <1>3, <2>1 DEF JobsInv, DueInv, Dated
    <2>. QED BY <1>1, <2>1, <2>2 DEF JobsInv, DueInv
  <1>6. CursorInv' /\ ClaimInv'  BY <1>1 DEF JobsInv, CursorInv, NoMinuteSkipped, ClaimInv
  <1>7. LossInv'
    <2>1. \A h, n : Holds(h, n)' <=> Holds(h, n)  BY <1>1 DEF Holds
    <2>2. Lost' = Lost  BY <1>1, <2>1 DEF Lost
    <2>. QED BY <1>1, <2>2 DEF JobsInv, LossInv
  <1>. QED BY <1>4, <1>5, <1>6, <1>7 DEF JobsInv

\* A sweep starts at the watermark, or at the cut-off when that is too far back.
LEMMA SweepKeeps ==
    ASSUME JobsInv, NEW g \in Gateway, Sweep(g)
    PROVE  JobsInv'
  <1>. DEFINE last == Watermark  start == CutOff(last, minute)
              r == [pc |-> "window", cursor |-> start, now |-> minute]
  <1>1. minute \in Int /\ mark \in Int /\ Every \in Int /\ MaxCatchUp \in Int
    BY JobsAssumption DEF JobsInv, JobsTyped
  <1>2. last \in Int /\ start \in Int /\ last <= start  BY <1>1 DEF Watermark, CutOff
  <1>3. r \in Doing /\ r.pc = "window" /\ r.cursor = start  BY <1>1, <1>2 DEF Doing
  <1>4. sweeper' = [sweeper EXCEPT ![g] = r] /\ mark' = last  BY DEF Sweep
  <1>5. sweeper[g].pc = "idle"  BY DEF Sweep, Asleep
  <1>6. /\ seen \subseteq seen' /\ \A m \in last..(start - 1) : m \in seen'
        /\ mark = Never => \A m \in 0..(last - 1) : m \in seen'
        /\ mark # Never => last = mark
    BY DEF Sweep, Watermark
  <1>7. UNCHANGED <<claimed, sent, faults, job, minute, sheet>>  BY DEF Sweep, unchangedWorld
  <1>8. \A m \in 0..(last - 1) : m \in seen'
    BY <1>6 DEF JobsInv, CursorInv, NoMinuteSkipped
  <1>. HIDE DEF last, start, r
  <1>9. \A m \in 0..(start - 1) : m \in seen'  BY <1>2, <1>6, <1>8
  <1>10. CursorInv'  BY <1>3, <1>4, <1>6, <1>8, <1>9, CursorMoves DEF JobsInv
  <1>11. DueInv'  BY <1>3, <1>4, <1>7, DueMoves DEF JobsInv
  <1>12. faults' \in Nat /\ faults' >= faults  BY <1>7 DEF JobsInv, JobsTyped
  <1>13. ClaimInv' /\ LossInv'  BY <1>3, <1>4, <1>5, <1>7, <1>12, QuietMoves DEF JobsInv
  <1>14. JobsTyped'  BY <1>2, <1>3, <1>4, <1>7, <1>12, TypesMove DEF JobsInv
  <1>. QED BY <1>10, <1>11, <1>13, <1>14 DEF JobsInv

\* Rows a window returns are slots for a lecture job and dated staff for a staff job.
LEMMA DueRows ==
    ASSUME JobsInv, NEW from \in Int, NEW rows \in Due(from)
    PROVE  /\ rows \subseteq Slot \cup Badge
           /\ job \in {"exceptions", "checkout"} => \A x \in rows : Dated(x)
  <1>1. CASE job \in {"remind", "chase"}
    <2>1. \E off : rows = QuerySlots(from, off)  BY <1>1 DEF Due
    <2>. QED BY <1>1, <2>1 DEF QuerySlots
  <1>2. CASE job = "exceptions"
    <2>1. rows \subseteq Exceptions(from)  BY <1>2 DEF Due, Limited
    <2>. QED BY <2>1 DEF Exceptions, JobsInv, DueInv
  <1>3. CASE job = "checkout"
    <2>1. rows \subseteq NotOut(from)  BY <1>3 DEF Due, Limited
    <2>. QED BY <2>1 DEF NotOut, JobsInv, DueInv
  <1>. QED BY <1>1, <1>2, <1>3 DEF JobsInv, JobsTyped, Job

\* Reading a window's rows.
LEMMA RunWindowKeeps ==
    ASSUME JobsInv, NEW g \in Gateway, RunWindow(g)
    PROVE  JobsInv'
  <1>. DEFINE s == sweeper[g]
  <1>1. s \in Doing /\ s.pc = "window"  BY DEF RunWindow, JobsInv, JobsTyped
  <1>2. s.cursor \in Int /\ s.now \in Int  BY <1>1, Shapes
  <1>3. PICK rows \in Due(s.cursor) :
          sweeper' = [sweeper EXCEPT ![g] = [pc |-> "rows", cursor |-> s.cursor, now |-> s.now, rows |-> rows]]
    BY DEF RunWindow
  <1>. DEFINE r == [pc |-> "rows", cursor |-> s.cursor, now |-> s.now, rows |-> rows]
  <1>4. rows \subseteq Slot \cup Badge /\ (job \in {"exceptions", "checkout"} => \A x \in rows : Dated(x))
    BY <1>2, DueRows
  <1>5. r \in Doing /\ r.pc = "rows" /\ r.rows = rows /\ r.cursor = s.cursor  BY <1>2, <1>4 DEF Doing
  <1>6. sweeper' = [sweeper EXCEPT ![g] = r]  BY <1>3
  <1>7. UNCHANGED <<mark, seen, claimed, sent, faults, job, minute, sheet>>
    BY DEF RunWindow, unchangedWorld
  <1>. HIDE DEF r
  <1>8. CursorInv'
    <2>1. \A m \in 0..(s.cursor - 1) : m \in seen'  BY <1>1, <1>7 DEF JobsInv, CursorInv
    <2>2. \A m \in 0..(mark' - 1) : m \in seen'  BY <1>7 DEF JobsInv, CursorInv, NoMinuteSkipped
    <2>3. seen \subseteq seen'  BY <1>7
    <2>. QED BY <1>5, <1>6, <2>1, <2>2, <2>3, CursorMoves DEF JobsInv
  <1>9. DueInv'  BY <1>4, <1>5, <1>6, <1>7, DueMoves DEF JobsInv
  <1>10. faults' \in Nat /\ faults' >= faults /\ mark' \in Int  BY <1>7 DEF JobsInv, JobsTyped
  <1>11. ClaimInv' /\ LossInv'  BY <1>1, <1>5, <1>6, <1>7, <1>10, QuietMoves DEF JobsInv
  <1>12. JobsTyped'  BY <1>5, <1>6, <1>7, <1>10, TypesMove DEF JobsInv
  <1>. QED BY <1>8, <1>9, <1>11, <1>12 DEF JobsInv

\* A window whose rows are through counts as seen, and the cursor moves on.
LEMMA WindowDoneKeeps ==
    ASSUME JobsInv, NEW g \in Gateway, WindowDone(g)
    PROVE  JobsInv'
  <1>. DEFINE s == sweeper[g]
              r == [pc |-> "window", cursor |-> s.cursor + Every, now |-> s.now]
  <1>1. s \in Doing /\ s.pc = "rows"  BY DEF WindowDone, JobsInv, JobsTyped
  <1>2. s.cursor \in Int /\ s.now \in Int /\ Every \in Int  BY <1>1, Shapes, JobsAssumption
  <1>3. r \in Doing /\ r.pc = "window" /\ r.cursor = s.cursor + Every  BY <1>2 DEF Doing
  <1>4. sweeper' = [sweeper EXCEPT ![g] = r]  BY DEF WindowDone
  <1>5. UNCHANGED <<mark, claimed, sent, faults, job, minute, sheet>>
    BY DEF WindowDone, unchangedWorld
  <1>6. seen' = seen \cup (s.cursor..(s.cursor + Every - 1))  BY DEF WindowDone
  <1>7. \A m \in 0..(s.cursor - 1) : m \in seen  BY <1>1 DEF JobsInv, CursorInv
  <1>8. \A m \in 0..(s.cursor + Every - 1) : m \in seen'  BY <1>2, <1>6, <1>7
  <1>. HIDE DEF r, s
  <1>9. CursorInv'
    <2>1. \A m \in 0..(mark' - 1) : m \in seen'  BY <1>5, <1>6 DEF JobsInv, CursorInv, NoMinuteSkipped
    <2>2. seen \subseteq seen'  BY <1>6
    <2>3. \A m \in 0..(r.cursor - 1) : m \in seen'  BY <1>2, <1>3, <1>8
    <2>. QED BY <1>3, <1>4, <2>1, <2>2, <2>3, CursorMoves DEF JobsInv
  <1>10. DueInv'  BY <1>3, <1>4, <1>5, DueMoves DEF JobsInv
  <1>11. faults' \in Nat /\ faults' >= faults /\ mark' \in Int  BY <1>5 DEF JobsInv, JobsTyped
  <1>12. ClaimInv' /\ LossInv'  BY <1>1, <1>3, <1>4, <1>5, <1>11, QuietMoves DEF JobsInv, s
  <1>13. JobsTyped'  BY <1>3, <1>4, <1>5, <1>11, TypesMove DEF JobsInv
  <1>. QED BY <1>9, <1>10, <1>12, <1>13 DEF JobsInv

\* The end of a sweep, a failed statement and a dead process: the watermark stays or is put at the cursor.
LEMMA EndKeeps ==
    ASSUME JobsInv, NEW g \in Gateway, SweepDone(g) \/ JobFails(g) \/ GatewayDies(g)
    PROVE  JobsInv'
  <1>. DEFINE s == sweeper[g]  r == Asleep
  <1>1. s \in Doing /\ s.pc # "idle"  BY DEF SweepDone, JobFails, GatewayDies, JobsInv, JobsTyped
  <1>2. s.cursor \in Int  BY <1>1, Shapes
  <1>3. r \in Doing /\ r.pc = "idle"  BY DEF Doing, Asleep
  <1>4. sweeper' = [sweeper EXCEPT ![g] = r] /\ (mark' = s.cursor \/ mark' = mark)
    BY DEF SweepDone, JobFails, GatewayDies, OKMark, ErrorMark
  <1>5. UNCHANGED <<seen, claimed, sent, job, minute, sheet>>
    BY DEF SweepDone, JobFails, GatewayDies, unchangedWorld
  <1>6. mark' \in Int  BY <1>2, <1>4 DEF JobsInv, JobsTyped
  <1>7. \A m \in 0..(mark' - 1) : m \in seen'
    BY <1>1, <1>4, <1>5 DEF JobsInv, CursorInv, NoMinuteSkipped
  <1>8. faults' \in Nat
    BY DEF SweepDone, JobFails, GatewayDies, JobsInv, JobsTyped
  <1>9. ClaimInv' /\ LossInv'
    <2>1. CASE SweepDone(g)
      <3>1. faults' >= faults /\ s.pc # "send"  BY <2>1 DEF SweepDone, JobsInv, JobsTyped
      <3>. HIDE DEF r
      <3>. QED BY <1>3, <1>4, <1>5, <1>8, <3>1, QuietMoves DEF JobsInv
    <2>2. CASE JobFails(g) \/ GatewayDies(g)
      <3>1. faults' = faults + 1  BY <2>2 DEF JobFails, GatewayDies
      <3>. QED BY <1>4, <1>5, <3>1, CutOffMoves DEF JobsInv
    <2>. QED BY <2>1, <2>2
  <1>. HIDE DEF r, s
  <1>10. CursorInv'
    <2>1. seen \subseteq seen'  BY <1>5
    <2>. QED BY <1>3, <1>4, <1>7, <2>1, CursorMoves DEF JobsInv
  <1>11. DueInv'  BY <1>3, <1>4, <1>5, DueMoves DEF JobsInv
  <1>12. JobsTyped'  BY <1>3, <1>4, <1>5, <1>6, <1>8, TypesMove DEF JobsInv
  <1>. QED BY <1>9, <1>10, <1>11, <1>12 DEF JobsInv

\* A notice that is claimed is new, and its claimer holds it; one already claimed or not needed is passed over.
LEMMA ClaimKeeps ==
    ASSUME JobsInv, NEW g \in Gateway, NEW x \in Slot \cup Badge, ClaimNotice(g, x)
    PROVE  JobsInv'
  <1>. DEFINE s == sweeper[g]  n == <<job, x, SubjectDay(x)>>
  <1>1. s \in Doing /\ s.pc = "rows" /\ x \in s.rows  BY DEF ClaimNotice, JobsInv, JobsTyped
  <1>2. /\ s \in [pc : {"rows"}, cursor : Int, now : Int, rows : SUBSET (Slot \cup Badge)]
        /\ s.cursor \in Int /\ s.now \in Int /\ s.rows \subseteq Slot \cup Badge
    BY <1>1, Shapes
  <1>3. UNCHANGED <<mark, seen, sent, faults, job, minute, sheet>>  BY DEF ClaimNotice, unchangedWorld
  <1>4. job \in {"exceptions", "checkout"} => \A y \in s.rows : Dated(y)  BY <1>1 DEF JobsInv, DueInv
  <1>5. n \in Notice
    <2>1. SubjectDay(x) \in 0..DayOf(LastMinute)
      <3>1. CASE job \in {"remind", "chase"}
        BY <3>1, DayInRange DEF SubjectDay, JobsInv, JobsTyped
      <3>2. CASE job \in {"exceptions", "checkout"}
        <4>1. sheet[x].imported \in 0..LastMinute  BY <1>1, <1>4, <3>2 DEF Dated
        <4>2. SubjectDay(x) = DayOf(sheet[x].imported)  BY <3>2 DEF SubjectDay
        <4>. QED BY <4>1, <4>2, DayInRange
      <3>. QED BY <3>1, <3>2 DEF JobsInv, JobsTyped, Job
    <2>2. job \in Job  BY DEF JobsInv, JobsTyped
    <2>. QED BY <2>1, <2>2 DEF Notice
  <1>6. faults' \in Nat /\ faults' >= faults /\ mark' \in Int  BY <1>3 DEF JobsInv, JobsTyped
  <1>7. CASE AttendanceRecorded(x) \/ AlreadySent(n)
    <2>. DEFINE r == [pc |-> "rows", cursor |-> s.cursor, now |-> s.now, rows |-> s.rows \ {x}]
    <2>1. sweeper' = [sweeper EXCEPT ![g].rows = @ \ {x}] /\ UNCHANGED claimed
      BY <1>7 DEF ClaimNotice
    <2>2. [s EXCEPT !.rows = s.rows \ {x}] = r  BY <1>2
    <2>3. sweeper' = [sweeper EXCEPT ![g] = r]  BY <2>1, <2>2
    <2>4. r \in Doing /\ r.pc = "rows" /\ r.cursor = s.cursor /\ r.rows = s.rows \ {x}
      BY <1>2 DEF Doing
    <2>. HIDE DEF r
    <2>5. CursorInv'
      <3>1. \A m \in 0..(s.cursor - 1) : m \in seen'  BY <1>1, <1>3 DEF JobsInv, CursorInv
      <3>2. \A m \in 0..(mark' - 1) : m \in seen'  BY <1>3 DEF JobsInv, CursorInv, NoMinuteSkipped
      <3>3. seen \subseteq seen'  BY <1>3
      <3>. QED BY <2>3, <2>4, <3>1, <3>2, <3>3, CursorMoves DEF JobsInv
    <2>6. DueInv'  BY <1>3, <1>4, <2>3, <2>4, DueMoves DEF JobsInv
    <2>7. ClaimInv' /\ LossInv'  BY <1>1, <1>3, <1>6, <2>1, <2>3, <2>4, QuietMoves DEF JobsInv
    <2>8. JobsTyped'  BY <1>3, <1>6, <2>1, <2>3, <2>4, TypesMove DEF JobsInv
    <2>. QED BY <2>5, <2>6, <2>7, <2>8 DEF JobsInv
  <1>8. CASE ~(AttendanceRecorded(x) \/ AlreadySent(n))
    <2>. DEFINE r == [pc |-> "send", cursor |-> s.cursor, now |-> s.now, rows |-> s.rows \ {x}, notice |-> n]
    <2>1. claimed' = claimed \cup {n} /\ sweeper' = [sweeper EXCEPT ![g] = r] /\ n \notin claimed
      BY <1>8 DEF ClaimNotice, AlreadySent
    <2>. HIDE DEF n
    <2>4. /\ r \in Doing /\ r.pc = "send" /\ r.cursor = s.cursor /\ r.rows = s.rows \ {x} /\ r.notice = n
      BY <1>2, <1>5 DEF Doing
    <2>. HIDE DEF r
    <2>3. sweeper' \in [Gateway -> Doing] /\ sweeper'[g] = r /\ \A h \in Gateway : h # g => sweeper'[h] = sweeper[h]
      BY <2>1, <2>4, SweeperMoves DEF JobsInv, JobsTyped
    <2>5. CursorInv'
      <3>1. \A m \in 0..(s.cursor - 1) : m \in seen'  BY <1>1, <1>3 DEF JobsInv, CursorInv
      <3>2. \A m \in 0..(mark' - 1) : m \in seen'  BY <1>3 DEF JobsInv, CursorInv, NoMinuteSkipped
      <3>3. seen \subseteq seen'  BY <1>3
      <3>. QED BY <2>1, <2>4, <3>1, <3>2, <3>3, CursorMoves DEF JobsInv
    <2>6. DueInv'  BY <1>3, <1>4, <2>1, <2>4, DueMoves DEF JobsInv
    <2>7. sent[n] = 0
      BY <1>5, <2>1 DEF JobsInv, ClaimInv, JobsTyped
    <2>8. ClaimInv'
      <3>1. \A m \in Notice : sent'[m] <= 1 /\ (sent'[m] = 1 => m \in claimed')
        BY <1>3, <2>1 DEF JobsInv, ClaimInv
      <3>2. \A h \in Gateway : sweeper'[h].pc = "send" =>
              sweeper'[h].notice \in claimed' /\ sent'[sweeper'[h].notice] = 0
        BY <1>3, <2>1, <2>3, <2>4, <2>7 DEF JobsInv, ClaimInv
      <3>3. \A h \in Gateway : h # g /\ sweeper'[h].pc = "send" => sweeper'[h].notice # n
        BY <2>1, <2>3 DEF JobsInv, ClaimInv
      <3>4. \A h, k \in Gateway : sweeper'[h].pc = "send" /\ sweeper'[k].pc = "send"
                             /\ sweeper'[h].notice = sweeper'[k].notice => h = k
        BY <2>3, <2>4, <3>3 DEF JobsInv, ClaimInv
      <3>. QED BY <3>1, <3>2, <3>4 DEF ClaimInv
    <2>9. LossInv'
      <3>1. sweeper'[g].pc = "send" /\ sweeper'[g].notice = n  BY <2>3, <2>4
      <3>2. \A h \in Gateway, m \in Notice : Holds(h, m) => Holds(h, m)'  BY <1>1, <2>3 DEF Holds
      <3>3. Lost' \subseteq Lost  BY <1>3, <2>1, <3>1, <3>2 DEF Lost, Holds, JobsInv, JobsTyped
      <3>. QED BY <1>6, <3>3, NothingLost DEF JobsInv
    <2>10. JobsTyped'
      <3>1. IsFiniteSet(claimed')  BY <2>1, FS_AddElement DEF JobsInv, JobsTyped
      <3>. QED BY <1>3, <1>5, <2>1, <2>3, <3>1 DEF JobsInv, JobsTyped
    <2>. QED BY <2>5, <2>6, <2>8, <2>9, <2>10 DEF JobsInv
  <1>. QED BY <1>7, <1>8

\* Sending takes the one notice its claimer holds out, once.
LEMMA SendKeeps ==
    ASSUME JobsInv, NEW g \in Gateway, SendNotice(g)
    PROVE  JobsInv'
  <1>. DEFINE s == sweeper[g]  n == s.notice
              r == [pc |-> "rows", cursor |-> s.cursor, now |-> s.now, rows |-> s.rows]
  <1>1. s \in Doing /\ s.pc = "send"  BY DEF SendNotice, JobsInv, JobsTyped
  <1>2. s.cursor \in Int /\ s.now \in Int /\ s.rows \subseteq Slot \cup Badge /\ n \in Notice
    BY <1>1, Shapes
  <1>3. sent' = [sent EXCEPT ![n] = @ + 1] /\ sweeper' = [sweeper EXCEPT ![g] = r]  BY DEF SendNotice
  <1>4. UNCHANGED <<mark, seen, claimed, faults, job, minute, sheet>>  BY DEF SendNotice, unchangedWorld
  <1>5. r \in Doing /\ r.pc = "rows" /\ r.cursor = s.cursor /\ r.rows = s.rows  BY <1>2 DEF Doing
  <1>. HIDE DEF r
  <1>6. sweeper' \in [Gateway -> Doing] /\ sweeper'[g] = r /\ \A h \in Gateway : h # g => sweeper'[h] = sweeper[h]
    BY <1>3, <1>5, SweeperMoves DEF JobsInv, JobsTyped
  <1>7. n \in claimed /\ sent[n] = 0 /\ \A h \in Gateway : h # g /\ sweeper[h].pc = "send" => sweeper[h].notice # n
    BY <1>1 DEF JobsInv, ClaimInv
  <1>8. /\ sent' \in [Notice -> Nat] /\ sent'[n] = 1
        /\ \A m \in Notice : m # n => sent'[m] = sent[m]
    BY <1>2, <1>3, <1>7 DEF JobsInv, JobsTyped
  <1>9. JobsTyped'  BY <1>4, <1>6, <1>8 DEF JobsInv, JobsTyped
  <1>10. CursorInv'
    <2>1. \A m \in 0..(s.cursor - 1) : m \in seen'  BY <1>1, <1>4 DEF JobsInv, CursorInv
    <2>2. \A m \in 0..(mark' - 1) : m \in seen'  BY <1>4 DEF JobsInv, CursorInv, NoMinuteSkipped
    <2>3. seen \subseteq seen'  BY <1>4
    <2>. QED BY <1>3, <1>5, <2>1, <2>2, <2>3, CursorMoves DEF JobsInv
  <1>11. DueInv'
    <2>1. job \in {"exceptions", "checkout"} => \A x \in s.rows : Dated(x)  BY <1>1 DEF JobsInv, DueInv
    <2>. QED BY <1>3, <1>4, <1>5, <2>1, DueMoves DEF JobsInv
  <1>12. ClaimInv'
    <2>1. \A m \in Notice : sent'[m] <= 1 /\ (sent'[m] = 1 => m \in claimed')
      BY <1>4, <1>7, <1>8 DEF JobsInv, ClaimInv
    <2>2. \A h \in Gateway : sweeper'[h].pc = "send" => h # g /\ sweeper'[h] = sweeper[h]
      BY <1>5, <1>6
    <2>3. \A h \in Gateway : sweeper'[h].pc = "send" =>
             sweeper'[h].notice \in claimed' /\ sent'[sweeper'[h].notice] = 0
      <3>. SUFFICES ASSUME NEW h \in Gateway, sweeper'[h].pc = "send"
                    PROVE  sweeper'[h].notice \in claimed' /\ sent'[sweeper'[h].notice] = 0
        OBVIOUS
      <3>1. sweeper[h].pc = "send" /\ sweeper'[h].notice = sweeper[h].notice /\ sweeper[h].notice # n
        BY <1>7, <2>2
      <3>2. sweeper[h].notice \in claimed /\ sent[sweeper[h].notice] = 0  BY <3>1 DEF JobsInv, ClaimInv
      <3>3. sweeper[h].notice \in Notice  BY <3>2 DEF JobsInv, JobsTyped
      <3>. QED BY <1>4, <1>8, <3>1, <3>2, <3>3
    <2>4. \A h, k \in Gateway : sweeper'[h].pc = "send" /\ sweeper'[k].pc = "send"
                           /\ sweeper'[h].notice = sweeper'[k].notice => h = k
      BY <2>2 DEF JobsInv, ClaimInv
    <2>. QED BY <2>1, <2>3, <2>4 DEF ClaimInv
  <1>13. LossInv'
    <2>1. \A h \in Gateway, m \in Notice : m # n /\ Holds(h, m) => Holds(h, m)'  BY <1>6 DEF Holds
    <2>2. Lost' \subseteq Lost  BY <1>4, <1>8, <2>1 DEF Lost, JobsInv, JobsTyped
    <2>3. faults' \in Nat /\ faults' >= faults  BY <1>4 DEF JobsInv, JobsTyped
    <2>. QED BY <2>2, <2>3, NothingLost DEF JobsInv
  <1>. QED BY <1>9, <1>10, <1>11, <1>12, <1>13 DEF JobsInv

\* The invariant holds of every run of the scheduler.
LEMMA JobsInvHolds == JobsSpec => []JobsInv
  <1>1. JobsInit => JobsInv  BY InitHolds
  <1>2. JobsInv /\ [JobsNext]_jobsVars => JobsInv'
    BY WorldKeeps, SweepKeeps, RunWindowKeeps, WindowDoneKeeps, EndKeeps, ClaimKeeps, SendKeeps
    DEF JobsNext, GatewayStep
  <1>. QED BY <1>1, <1>2, PTL DEF JobsSpec

\* For any jobs' windows, slots, staff, gateways and faults: no minute below the watermark was skipped, though
\* two gateways write the same watermark and die or fail in the middle of a window; no notice goes out twice,
\* and every one that was claimed and did not go out is on some gateway's way or was lost to a fault of its own
\* (scheduler.go: sweep and AlreadySent).
THEOREM JobsAreThoroughAlways == JobsSpec => []JobsAreThorough
  <1>1. JobsInv => JobsAreThorough
    <2>. SUFFICES ASSUME JobsInv PROVE JobsAreThorough  OBVIOUS
    <2>1. NoMinuteSkipped  BY DEF JobsInv, CursorInv
    <2>2. \A n \in Notice : sent[n] <= 1  BY DEF JobsInv, ClaimInv
    <2>3. Lost = {n \in claimed : /\ sent[n] = 0
                                  /\ \A g \in Gateway : ~(sweeper[g].pc = "send" /\ sweeper[g].notice = n)}
      BY DEF Lost, Holds
    <2>. QED BY <2>1, <2>2, <2>3 DEF JobsAreThorough, SentOnceOrLostToAFault, JobsInv, LossInv
  <1>. QED BY <1>1, JobsInvHolds, PTL

-----------------------------------------------------------------------------
(* RoomClock: how long a code lives *)

\* The reading on the screen is of an earlier second, and is what was shown then.
ReadInv ==
    /\ utc \in Nat
    /\ read \in [at : Nat, code : Int, day : Int]
    /\ read.at <= utc
    /\ read.code = Derive(read.at) /\ read.day = Today(read.at)

\* Only reading changes what is on the screen; the clock only goes on.
LEMMA ReadInvHolds == ClockSpec => []ReadInv
  <1>1. ClockInit => ReadInv
    <2>1. ASSUME NEW t \in Nat PROVE Derive(t) \in Int /\ Today(t) \in Int
      BY RoomClockAssumption, Division DEF Derive, Today, DaySeconds
    <2>. QED BY <2>1 DEF ClockInit, ReadInv, CombinedClassCode
  <1>2. ReadInv /\ [ClockNext]_clockVars => ReadInv'
    <2>1. ASSUME NEW t \in Nat PROVE Derive(t) \in Int /\ Today(t) \in Int
      BY RoomClockAssumption, Division DEF Derive, Today, DaySeconds
    <2>2. ReadInv /\ Tick => ReadInv'  BY DEF ReadInv, Tick
    <2>3. ReadInv /\ ReadCode => ReadInv'  BY <2>1 DEF ReadInv, ReadCode, CombinedClassCode
    <2>4. ASSUME ReadInv, NEW d \in AskedDays, FileSession(Today(utc) + d) PROVE ReadInv'
      BY <2>4 DEF ReadInv, FileSession
    <2>5. ReadInv /\ UNCHANGED clockVars => ReadInv'  BY DEF ReadInv, clockVars
    <2>. QED BY <2>2, <2>3, <2>4, <2>5 DEF ClockNext
  <1>. QED BY <1>1, <1>2, PTL DEF ClockSpec

\* How far the step counter is from the one a code was read in.
LEMMA StepsApart ==
    ASSUME NEW n \in Nat \ {0}, NEW k \in Nat, NEW a \in Int, NEW b \in Int, a <= b
    PROVE  /\ b - a <= k * n => (b \div n) - (a \div n) \in 0..k
           /\ b - a >= n - (a % n) + k * n => (b \div n) - (a \div n) > k
  <1>. DEFINE p == a \div n  q == b \div n  r == a % n  s == b % n
  <1>1. /\ p \in Int /\ r \in 0..(n - 1) /\ a = n * p + r
        /\ q \in Int /\ s \in 0..(n - 1) /\ b = n * q + s
    BY Division
  <1>. HIDE DEF p, q, r, s
  <1>2. k * n = n * k /\ n * (p + k) = n * p + n * k
    BY <1>1
  <1>3. p <= q
    <2>1. q < p => n * q + n <= n * p  BY <1>1, Multiples
    <2>. QED BY <1>1, <2>1
  <1>4. ASSUME b - a <= k * n PROVE q - p <= k
    <2>1. p + k < q => n * (p + k) + n <= n * q  BY <1>1, Multiples
    <2>. DEFINE x == n * p  y == n * q  z == n * k  w == n * (p + k)
    <2>2. x \in Int /\ y \in Int /\ z \in Int /\ w = x + z  BY <1>1, <1>2
    <2>3. a = x + r /\ b = y + s /\ b - a <= z  BY <1>1, <1>2, <1>4
    <2>4. p + k < q => w + n <= y  BY <2>1
    <2>. HIDE DEF x, y, z, w
    <2>. QED BY <1>1, <2>2, <2>3, <2>4
  <1>5. ASSUME b - a >= n - r + k * n PROVE q - p > k
    <2>1. q < p + k + 1 => n * q + n <= n * (p + k + 1)  BY <1>1, Multiples
    <2>. DEFINE x == n * p  y == n * q  z == n * k  w == n * (p + k + 1)
    <2>2. x \in Int /\ y \in Int /\ z \in Int /\ w = x + z + n  BY <1>1
    <2>3. a = x + r /\ b = y + s /\ b - a >= n - r + z  BY <1>1, <1>2, <1>5
    <2>4. q < p + k + 1 => y + n <= w  BY <2>1
    <2>. HIDE DEF x, y, z, w
    <2>. QED BY <1>1, <2>2, <2>3, <2>4
  <1>. QED BY <1>1, <1>3, <1>4, <1>5 DEF p, q, r

\* A rotating code is accepted for SkewSteps whole steps after it was read and dead from SkewSteps + 1 steps
\* after it left the screen, for every step length and skew (roomcode.go, Validate); a combined-class code is
\* accepted on the civil day it was read out on and on no other, wherever UTC's midnight falls (combinedcode.go).
THEOREM CodesAreTimelyAlways == ClockSpec => []CodesAreTimely
  <1>1. ReadInv => CodesAreTimely
    <2>. SUFFICES ASSUME ReadInv PROVE CodesAreTimely  OBVIOUS
    <2>. DEFINE gap == (utc \div StepSeconds) - (read.at \div StepSeconds)
    <2>1. /\ utc - read.at <= SkewSteps * StepSeconds => gap \in 0..SkewSteps
          /\ utc - read.at >= StepSeconds - (read.at % StepSeconds) + SkewSteps * StepSeconds => gap > SkewSteps
      <3>1. StepSeconds \in Nat \ {0} /\ SkewSteps \in Nat  BY RoomClockAssumption
      <3>2. read.at \in Int /\ utc \in Int /\ read.at <= utc  BY DEF ReadInv
      <3>. QED BY <3>1, <3>2, StepsApart, Zenon
    <2>2. gap \in Int /\ utc \div StepSeconds \in Int /\ read.at \div StepSeconds \in Int
      BY RoomClockAssumption, Division DEF ReadInv
    <2>3. Validate(read.code, utc) <=> -gap \in -SkewSteps..SkewSteps
      BY <2>2, RoomClockAssumption DEF Validate, ReadInv, Derive
    <2>4. SecondsRemaining(read.at) + SkewSteps * StepSeconds
             = StepSeconds - (read.at % StepSeconds) + SkewSteps * StepSeconds
      BY DEF SecondsRemaining
    <2>. HIDE DEF gap
    <2>5. gap \in 0..SkewSteps => Validate(read.code, utc)  BY <2>2, <2>3, RoomClockAssumption
    <2>6. gap > SkewSteps => ~Validate(read.code, utc)  BY <2>2, <2>3, RoomClockAssumption
    <2>7. CodeLifetime  BY <2>1, <2>4, <2>5, <2>6 DEF CodeLifetime
    <2>8. ClassCodeIsForOneDay
      BY DEF ClassCodeIsForOneDay, ValidateCombinedClassCode, CombinedClassCode, ReadInv
    <2>. QED BY <2>7, <2>8 DEF CodesAreTimely
  <1>. QED BY <1>1, ReadInvHolds, PTL

-----------------------------------------------------------------------------
(* SqlSplitter: what the scanner is inside of *)

LexState == [in : {"sql", "dash", "open"} \cup Quote, depth : Nat]
Semicolon == <<"semi">>

\* After k tokens of p the scanner is inside of what p opened, unless p is all read
Expected(p, k) ==
    IF k = 0 \/ k = Len(p) THEN Outside
    ELSE [in |-> p[1], depth |-> IF p[1] = "open" THEN Opened(p, k) - Closed(p, k) ELSE 0]

\* A mark more is one more opened or closed.
LEMMA OneMore ==
    ASSUME NEW p, NEW k \in Nat
    PROVE  /\ Opened(p, 0) = 0 /\ Closed(p, 0) = 0
           /\ Opened(p, k) \in Nat /\ Closed(p, k) \in Nat
           /\ Opened(p, k + 1) = IF p[k + 1] = "open" THEN Opened(p, k) + 1 ELSE Opened(p, k)
           /\ Closed(p, k + 1) = IF p[k + 1] = "close" THEN Closed(p, k) + 1 ELSE Closed(p, k)
  <1>. DEFINE Of(n, tok) == {i \in 1 .. n : p[i] = tok}
  <1>1. ASSUME NEW tok, NEW n \in Nat
        PROVE  /\ IsFiniteSet(Of(n, tok)) /\ Cardinality(Of(n, tok)) \in Nat
               /\ Cardinality(Of(n + 1, tok)) = IF p[n + 1] = tok THEN Cardinality(Of(n, tok)) + 1
                                                 ELSE Cardinality(Of(n, tok))
    <2>1. IsFiniteSet(1 .. n)  BY FS_Interval
    <2>2. IsFiniteSet(Of(n, tok))  BY <2>1, FS_Subset
    <2>3. CASE p[n + 1] = tok
      <3>1. Of(n + 1, tok) = Of(n, tok) \cup {n + 1} /\ n + 1 \notin Of(n, tok)  BY <2>3
      <3>. HIDE DEF Of
      <3>. QED BY <2>2, <2>3, <3>1, FS_AddElement, FS_CardinalityType
    <2>4. CASE p[n + 1] # tok
      <3>1. Of(n + 1, tok) = Of(n, tok)  BY <2>4
      <3>. HIDE DEF Of
      <3>. QED BY <2>2, <2>4, <3>1, FS_CardinalityType
    <2>. QED BY <2>2, <2>3, <2>4
  <1>2. \A tok : Of(0, tok) = {}  OBVIOUS
  <1>3. \A n \in Nat : Opened(p, n) = Cardinality(Of(n, "open")) /\ Closed(p, n) = Cardinality(Of(n, "close"))
    BY DEF Opened, Closed
  <1>. HIDE DEF Of
  <1>4. 0 \in Nat /\ k \in Nat /\ k + 1 \in Nat  OBVIOUS
  <1>5. Opened(p, 0) = 0 /\ Closed(p, 0) = 0  BY <1>2, <1>3, <1>4, FS_EmptySet
  <1>. QED BY <1>1, <1>3, <1>4, <1>5

\* The scanner goes from what it is inside of to what it is inside of next, and cuts nowhere inside a lexeme.
LEMMA LexFollows ==
    ASSUME NEW p \in Lexeme, NEW k \in 0 .. Len(p) - 1
    PROVE  /\ Lex(Expected(p, k), p[k + 1]) = Expected(p, k + 1)
           /\ Expected(p, k).in = "sql" => p[k + 1] # "semi"
           /\ Expected(p, k + 1) \in LexState
  <1>0. p \in Seq(Token) /\ Len(p) \in Nat \ {0} /\ IsLexeme(p) /\ k \in Nat /\ k < Len(p)
    BY SplitterAssumption, EmptySeq
  <1>5. Code \cap (Quote \cup {"dash", "nl", "open", "close", "semi"}) = {} /\ {"sql", "dash", "nl", "open", "close", "semi"} \cap Quote = {}
    BY SplitterAssumption DEF Quote, Mark
  <1>1. CASE Len(p) = 1 /\ p[1] \in Code \cup {"nl"}
    <2>1. k = 0 /\ p[1] \notin Quote \cup {"dash", "open", "semi"}  BY <1>0, <1>1, <1>5
    <2>. QED BY <1>1, <2>1 DEF Expected, Lex, Outside, LexState
  <1>2. CASE p[1] \in Quote /\ UpTo(p, p[1])
    <2>1. Len(p) > 1 /\ \A i \in 2 .. Len(p) : p[i] = p[1] <=> i = Len(p)  BY <1>2 DEF UpTo
    <2>2. p[1] \notin {"sql", "dash", "open", "semi"}  BY <1>2, <1>5
    <2>3. CASE k = 0
      BY <1>0, <1>2, <2>1, <2>2, <2>3 DEF Expected, Lex, Outside, Enter, LexState
    <2>4. CASE k > 0
      <3>1. Expected(p, k) = [in |-> p[1], depth |-> 0]  BY <1>0, <2>2, <2>4 DEF Expected
      <3>2. p[k + 1] = p[1] <=> k + 1 = Len(p)  BY <1>0, <2>1, <2>4
      <3>3. Expected(p, k + 1) = IF k + 1 = Len(p) THEN Outside ELSE [in |-> p[1], depth |-> 0]
        BY <1>0, <2>2, <2>4 DEF Expected
      <3>. QED BY <1>2, <2>2, <3>1, <3>2, <3>3 DEF Lex, LexState, Outside
    <2>. QED BY <1>0, <2>3, <2>4
  <1>3. CASE p[1] = "dash" /\ UpTo(p, "nl")
    <2>1. Len(p) > 1 /\ \A i \in 2 .. Len(p) : p[i] = "nl" <=> i = Len(p)  BY <1>3 DEF UpTo
    <2>3. CASE k = 0
      BY <1>0, <1>3, <2>1, <2>3 DEF Expected, Lex, Outside, Enter, LexState
    <2>4. CASE k > 0
      <3>1. Expected(p, k) = [in |-> "dash", depth |-> 0]  BY <1>0, <1>3, <2>4 DEF Expected
      <3>2. p[k + 1] = "nl" <=> k + 1 = Len(p)  BY <1>0, <2>1, <2>4
      <3>3. Expected(p, k + 1) = IF k + 1 = Len(p) THEN Outside ELSE [in |-> "dash", depth |-> 0]
        BY <1>0, <1>3, <2>4 DEF Expected
      <3>. QED BY <3>1, <3>2, <3>3 DEF Lex, LexState, Outside
    <2>. QED BY <1>0, <2>3, <2>4
  <1>4. CASE p[1] = "open" /\ \A j \in 1 .. Len(p) : Opened(p, j) - Closed(p, j) > 0 <=> j < Len(p)
    <2>1. /\ Opened(p, 0) = 0 /\ Closed(p, 0) = 0 /\ Opened(p, k) \in Nat /\ Closed(p, k) \in Nat
          /\ Opened(p, k + 1) = IF p[k + 1] = "open" THEN Opened(p, k) + 1 ELSE Opened(p, k)
          /\ Closed(p, k + 1) = IF p[k + 1] = "close" THEN Closed(p, k) + 1 ELSE Closed(p, k)
      BY <1>0, OneMore
    <2>2. Opened(p, k + 1) - Closed(p, k + 1) > 0 <=> k + 1 < Len(p)  BY <1>0, <1>4
    <2>3. CASE k = 0
      <3>1. Opened(p, 1) - Closed(p, 1) = 1  BY <1>4, <2>1, <2>3
      <3>2. Len(p) \in Nat /\ Len(p) > 1  BY <1>0, <2>2, <2>3, <3>1
      <3>3. Expected(p, 0) = Outside /\ Expected(p, 1) = [in |-> "open", depth |-> 1]
        <4>1. Len(p) # 1 /\ Len(p) # 0
          <5>. DEFINE n == Len(p)
          <5>1. n \in Nat /\ n > 1  BY <3>2
          <5>. HIDE DEF n
          <5>2. n # 1 /\ n # 0  BY <5>1
          <5>. QED BY <5>2 DEF n
        <4>2. Expected(p, 1) = [in |-> "open", depth |-> Opened(p, 1) - Closed(p, 1)]  BY <1>4, <4>1 DEF Expected
        <4>. QED BY <3>1, <4>2 DEF Expected
      <3>. QED BY <1>4, <2>3, <3>3 DEF Lex, Outside, Enter, LexState
    <2>4. CASE k > 0
      <3>. DEFINE d == Opened(p, k) - Closed(p, k)  e == Opened(p, k + 1) - Closed(p, k + 1)
      <3>0. k \in 1 .. Len(p) /\ k < Len(p)  BY <1>0, <2>4
      <3>1. d \in Nat \ {0} /\ e = (IF p[k + 1] = "open" THEN d + 1 ELSE IF p[k + 1] = "close" THEN d - 1 ELSE d)
        <4>1. d > 0  BY <1>4, <3>0
        <4>. QED BY <2>1, <4>1
      <3>2. Expected(p, k) = [in |-> "open", depth |-> d]  BY <1>0, <1>4, <2>4 DEF Expected
      <3>3. Expected(p, k + 1) = IF k + 1 = Len(p) THEN Outside ELSE [in |-> "open", depth |-> e]
        BY <1>0, <1>4, <2>4 DEF Expected
      <3>4. e > 0 <=> k + 1 # Len(p)  BY <1>0, <2>2
      <3>. HIDE DEF d, e
      <3>5. Lex([in |-> "open", depth |-> d], p[k + 1]) = IF e > 0 THEN [in |-> "open", depth |-> e] ELSE Outside
        BY <3>1 DEF Lex, LexComment
      <3>6. e \in Nat  BY <3>1
      <3>. QED BY <3>2, <3>3, <3>4, <3>5, <3>6 DEF LexState, Outside
    <2>. QED BY <1>0, <2>3, <2>4
  <1>. QED BY <1>0, <1>1, <1>2, <1>3, <1>4 DEF IsLexeme

-----------------------------------------------------------------------------
(* SqlSplitter: the inductive invariant *)

FileTyped ==
    /\ lexeme \in Lexeme \cup {<<>>, Semicolon} /\ pos \in 0 .. Len(lexeme)
    /\ cur \in Seq(Token) /\ begun \in Seq(Token) /\ ended \in BOOLEAN

\* A semicolon not yet read ends the statement the scanner is at
AtSemicolon == lexeme = Semicolon /\ pos = 0 /\ lex = Outside /\ begun = <<>> /\ parts = WithStatement(out, cur)
\* The scanner has the statements before, and the one begun but for what it has not read
AtLexeme ==
    /\ lexeme = Semicolon => pos = 1
    /\ lex = Expected(lexeme, pos) /\ out = parts
    /\ begun = cur \o SubSeq(lexeme, pos + 1, Len(lexeme))
ScanInv ==
    /\ FileTyped
    /\ ~ended => AtSemicolon \/ AtLexeme
    /\ ended => pos = Len(lexeme) /\ out = WithStatement(parts, begun)

\* What is scanned is a sequence of tokens.
LEMMA LexemeTyped == FileTyped => lexeme \in Seq(Token) /\ Len(lexeme) \in Nat /\ Len(Semicolon) = 1
  <1>1. Semicolon \in Seq(Token) /\ <<>> \in Seq(Token)  BY DEF Semicolon, Token, Mark
  <1>. QED BY <1>1, SplitterAssumption, LenProperties DEF FileTyped, Semicolon

\* A lexeme read to its end leaves nothing of it.
LEMMA ReadToTheEnd ==
    ASSUME FileTyped, AtSemicolon \/ AtLexeme, pos = Len(lexeme)
    PROVE  lex = Outside /\ out = parts /\ begun = cur
  <1>0. lexeme \in Seq(Token) /\ Len(lexeme) \in Nat /\ Len(Semicolon) = 1  BY LexemeTyped
  <1>1. AtLexeme
    <2>1. AtSemicolon => Len(lexeme) = 1 /\ pos = 0  BY <1>0 DEF AtSemicolon
    <2>. QED BY <2>1
  <1>2. SubSeq(lexeme, pos + 1, Len(lexeme)) = <<>>  BY <1>0, SubSeqEmpty
  <1>3. cur \o <<>> = cur  BY ConcatEmptySeq DEF FileTyped
  <1>. QED BY <1>1, <1>2, <1>3 DEF AtLexeme, Expected

\* What is appended to one may be put before the other.
LEMMA AppendOrPut ==
    ASSUME NEW S, NEW c \in Seq(S), NEW x \in S, NEW rest \in Seq(S)
    PROVE  Append(c, x) \in Seq(S) /\ Append(c, x) \o rest = c \o (<<x>> \o rest)
  <1>. DEFINE one == <<x>>
  <1>1. one \in Seq(S) /\ Append(c, x) = c \o one  OBVIOUS
  <1>. HIDE DEF one
  <1>2. (c \o one) \o rest = c \o (one \o rest)  BY <1>1, ConcatAssociative
  <1>. QED BY <1>1, <1>2 DEF one

\* A token that is read moves from what is left to what is collected.
LEMMA OneTokenOn ==
    ASSUME NEW S, NEW p \in Seq(S), NEW k \in 0 .. Len(p) - 1, NEW c \in Seq(S)
    PROVE  /\ Append(c, p[k + 1]) \in Seq(S)
           /\ Append(c, p[k + 1]) \o SubSeq(p, k + 2, Len(p)) = c \o SubSeq(p, k + 1, Len(p))
  <1>. DEFINE x == p[k + 1]  rest == SubSeq(p, k + 2, Len(p))
  <1>0. Len(p) \in Nat /\ k + 1 \in 1 .. Len(p) /\ Len(p) \in (k + 1) .. Len(p) /\ x \in S /\ k + 1 + 1 = k + 2
    BY LenProperties, ElementOfSeq
  <1>1. SubSeq(p, k + 1, Len(p)) = <<x>> \o rest  BY <1>0, SubSeqRecursiveFirst
  <1>2. rest \in Seq(S)
    <2>1. \A i \in k + 2 .. Len(p) : p[i] \in S  BY <1>0, ElementOfSeq
    <2>. QED BY <1>0, <2>1, SubSeqProperties
  <1>3. x \in S  BY <1>0
  <1>. HIDE DEF x, rest
  <1>4. Append(c, x) \in Seq(S) /\ Append(c, x) \o rest = c \o (<<x>> \o rest)  BY <1>2, <1>3, AppendOrPut
  <1>. QED BY <1>1, <1>4 DEF x, rest

\* Nothing is written and nothing read at the start.
LEMMA SplitInit == SplitterInit => ScanInv
  <1>. SUFFICES ASSUME SplitterInit PROVE ScanInv  OBVIOUS
  <1>1. FileTyped
    <2>1. lexeme = <<>> /\ pos = 0 /\ cur = <<>> /\ begun = <<>> /\ ended = FALSE  BY DEF SplitterInit
    <2>2. <<>> \in Seq(Token) /\ Len(<<>>) = 0  BY EmptySeq
    <2>3. pos \in 0 .. Len(lexeme)  BY <2>1, <2>2
    <2>4. ended \in BOOLEAN  BY <2>1
    <2>. QED BY <2>1, <2>2, <2>3, <2>4 DEF FileTyped
  <1>2. AtLexeme
    <2>1. lexeme = <<>> /\ Len(lexeme) = 0 /\ pos = 0 /\ begun = <<>> /\ cur = <<>>  BY DEF SplitterInit
    <2>2. SubSeq(lexeme, pos + 1, Len(lexeme)) = <<>>  BY <2>1, SubSeqEmpty
    <2>3. cur \o <<>> = <<>>  BY <2>1
    <2>4. lex = Outside /\ out = parts  BY DEF SplitterInit, Outside
    <2>. QED BY <2>1, <2>2, <2>3, <2>4 DEF AtLexeme, Expected, Semicolon
  <1>. QED BY <1>1, <1>2 DEF SplitterInit, ScanInv

\* A lexeme, or a semicolon, is written behind what the scanner has read.
LEMMA FileStep == ASSUME ScanInv, EndStatement \/ \E p \in Lexeme : AddLexeme(p) PROVE ScanInv'
  <1>0. ~ended /\ UNCHANGED ended /\ pos = Len(lexeme) /\ pos' = 0 /\ UNCHANGED <<lex, cur, out>>
    BY DEF EndStatement, AddLexeme, Written
  <1>1. lex = Outside /\ out = parts /\ begun = cur  BY <1>0, ReadToTheEnd DEF ScanInv
  <1>2. CASE EndStatement
    <2>1. lexeme' = Semicolon /\ begun' = <<>> /\ parts' = WithStatement(out, cur)
      BY <1>1, <1>2 DEF EndStatement, Written, Semicolon
    <2>2. FileTyped'
      <3>1. <<>> \in Seq(Token) /\ Len(Semicolon) = 1 /\ FileTyped  BY EmptySeq, LexemeTyped DEF ScanInv
      <3>. QED BY <1>0, <2>1, <3>1 DEF FileTyped
    <2>. QED BY <1>0, <1>1, <2>1, <2>2 DEF ScanInv, AtSemicolon
  <1>3. ASSUME NEW p \in Lexeme, AddLexeme(p) PROVE ScanInv'
    <2>1. lexeme' = p /\ begun' = begun \o p /\ UNCHANGED parts  BY <1>3 DEF AddLexeme, Written
    <2>2. p \in Seq(Token) /\ p # <<>>  BY SplitterAssumption
    <2>3. FileTyped'
      <3>1. Len(p) \in Nat /\ begun \o p \in Seq(Token)  BY <2>2, LenProperties, ConcatProperties DEF ScanInv, FileTyped
      <3>. QED BY <1>0, <2>1, <3>1 DEF ScanInv, FileTyped
    <2>4. SubSeq(p, 1, Len(p)) = p  BY <2>2, SubSeqFull
    <2>5. p # Semicolon
      <3>1. p = Semicolon => Len(p) = 1 /\ p[1] = "semi"  BY DEF Semicolon
      <3>2. "semi" \notin Code \cup {"nl", "dash", "open"} \cup Quote  BY SplitterAssumption DEF Quote, Mark
      <3>. QED BY <3>1, <3>2, SplitterAssumption DEF IsLexeme
    <2>6. AtLexeme'  BY <1>0, <1>1, <2>1, <2>4, <2>5 DEF AtLexeme, Expected
    <2>. QED BY <1>0, <2>3, <2>6 DEF ScanInv
  <1>. QED BY <1>2, <1>3

\* The scanner cuts at a semicolon of the file's, and collects everything else.
LEMMA ScanStep == ASSUME ScanInv, ScanToken PROVE ScanInv'
  <1>0. pos < Len(lexeme) /\ pos' = pos + 1 /\ UNCHANGED <<parts, begun, lexeme, ended>>
    BY DEF ScanToken, fileVars
  <1>1. FileTyped /\ lexeme \in Seq(Token) /\ Len(lexeme) \in Nat /\ pos \in 0 .. Len(lexeme) - 1 /\ Len(Semicolon) = 1
    BY <1>0, LexemeTyped DEF ScanInv, FileTyped
  <1>2. ~ended  BY <1>0, <1>1 DEF ScanInv
  <1>3. CASE ~ended /\ AtSemicolon
    <2>1. lexeme[pos + 1] = "semi" /\ lex.in = "sql"  BY <1>3 DEF AtSemicolon, Semicolon, Outside
    <2>2. out' = parts /\ cur' = <<>> /\ lex' = Outside
      BY <1>3, <2>1 DEF ScanToken, Flush, AtSemicolon
    <2>3. FileTyped'  BY <1>0, <1>1, <2>2 DEF FileTyped
    <2>4. begun' = cur' \o SubSeq(lexeme, pos' + 1, Len(lexeme))
      <3>1. SubSeq(lexeme, pos' + 1, Len(lexeme)) = <<>>
        <4>1. Len(lexeme) = 1 /\ pos' + 1 = 2  BY <1>0, <1>1, <1>3 DEF AtSemicolon
        <4>. QED BY <4>1, SubSeqEmpty
      <3>2. begun' = <<>> /\ cur' = <<>>  BY <1>0, <1>3, <2>2 DEF AtSemicolon
      <3>3. <<>> \o <<>> = <<>>  OBVIOUS
      <3>. QED BY <3>1, <3>2, <3>3
    <2>5. pos' = 1 /\ lex' = Expected(lexeme, 1)  BY <1>0, <1>1, <1>3, <2>2 DEF AtSemicolon, Expected
    <2>6. AtLexeme'  BY <1>0, <2>2, <2>4, <2>5 DEF AtLexeme
    <2>. QED BY <1>0, <1>3, <2>3, <2>6 DEF ScanInv
  <1>4. CASE ~ended /\ AtLexeme
    <2>1. lexeme \in Lexeme
      <3>1. lexeme # Semicolon  BY <1>0, <1>1, <1>4 DEF AtLexeme
      <3>2. lexeme # <<>>  BY <1>0, <1>1
      <3>. QED BY <1>1, <3>1, <3>2 DEF FileTyped
    <2>2. /\ Lex(lex, lexeme[pos + 1]) = Expected(lexeme, pos + 1)
          /\ lex.in = "sql" => lexeme[pos + 1] # "semi"
      BY <1>1, <1>4, <2>1, LexFollows DEF AtLexeme
    <2>3. lex' = Expected(lexeme, pos + 1) /\ cur' = Append(cur, lexeme[pos + 1]) /\ UNCHANGED out
      BY <2>2 DEF ScanToken
    <2>4. cur' \in Seq(Token) /\ cur' \o SubSeq(lexeme, pos + 2, Len(lexeme)) = begun
      BY <1>1, <1>4, <2>3, OneTokenOn DEF AtLexeme, FileTyped
    <2>5. FileTyped'  BY <1>0, <1>1, <2>4 DEF FileTyped
    <2>6. AtLexeme'
      <3>1. pos' + 1 = pos + 2 /\ lexeme # Semicolon  BY <1>0, <1>1, <1>4 DEF AtLexeme
      <3>. QED BY <1>0, <1>4, <2>3, <2>4, <3>1 DEF AtLexeme
    <2>. QED BY <1>0, <1>4, <2>5, <2>6 DEF ScanInv
  <1>. QED BY <1>1, <1>2, <1>3, <1>4 DEF ScanInv

\* Of any file written from lexemes, of any number and length, with any comments in each other: the splitter cuts at the
\* semicolons between them and nowhere else, and yields no blank statement (migrate.go, SplitStatements).
THEOREM SplitsBackAlways == SplitterSpec => []SplitsBack
  <1>1. ASSUME ScanInv, [SplitterNext]_splitterVars PROVE ScanInv'
    <2>1. CASE UNCHANGED splitterVars
      BY <1>1, <2>1 DEF splitterVars, fileVars, ScanInv, FileTyped, AtSemicolon, AtLexeme
    <2>2. CASE EndOfFile
      <3>1. ~ended /\ ended' /\ pos = Len(lexeme) /\ UNCHANGED <<parts, begun, lexeme, pos>> /\ out' = WithStatement(out, cur) /\ cur' = <<>>
        BY <2>2 DEF EndOfFile, Flush, fileVars
      <3>2. out = parts /\ begun = cur  BY <1>1, <3>1, ReadToTheEnd DEF ScanInv
      <3>3. FileTyped'  BY <1>1, <3>1 DEF ScanInv, FileTyped
      <3>. QED BY <3>1, <3>2, <3>3 DEF ScanInv
    <2>. QED BY <1>1, <2>1, <2>2, FileStep, ScanStep DEF SplitterNext
  <1>2. ScanInv => SplitsBack  BY DEF ScanInv, SplitsBack
  <1>. QED BY <1>1, <1>2, SplitInit, PTL DEF SplitterSpec
=============================================================================
