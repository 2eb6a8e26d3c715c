------------------------------- MODULE Migrate -------------------------------
(***************************************************************************)
(* The migration runner: it brings a database to the version of the files  *)
(* on disk, recording what it did in schema_migrations.  A migration runs  *)
(* in one transaction, statement by statement, each under a savepoint;     *)
(* deployers may run it at the same time, from a snapshot of the ledger    *)
(* that is not locked.  A statement CREATEs an object (an error when it    *)
(* exists) or changes data (never an error, never idempotent); PostgreSQL  *)
(* makes a concurrent CREATE of one object wait, so a transaction takes    *)
(* effect when it ends.                                                    *)
(***************************************************************************)
EXTENDS Naturals, Sequences, Functions

CONSTANTS Deployer,
          Script,      \* version |-> the statements of its file, versions 1..n in order
          ByHand,      \* objects a database migrated by hand already holds
          MaxRuns      \* bound: how often the command is started

VARIABLES schema,      \* objects that exist
          done,        \* data statements, with how often each ran
          ledger,      \* schema_migrations: version |-> how it got there
          deploy,      \* what each run of the command is doing
          runs

migrateVars == <<schema, done, ledger, deploy, runs>>

Version == DOMAIN Script
Creates(st) == st.does = "create"
Statements == UNION {Range(Script[v]) : v \in Version}
Objects(v) == {st.what : st \in {x \in Range(Script[v]) : Creates(x)}}
Waiting == [pc |-> "idle"]

\* Script is a sequence of sequences, and a data statement is of one file only
ASSUME MigrateAssumption ==
    /\ MaxRuns \in Nat
    /\ Script \in Seq(Range(Script))
    /\ \A v, w \in Version :
          v # w => \A st \in Range(Script[v]) \cap Range(Script[w]) : Creates(st)

-----------------------------------------------------------------------------
\* Pending: the files the ledger does not name ...
Pending(applied) == Version \ applied

\* ... gone through in the order Load sorted them in
NewestFirst(todo) == CHOOSE v \in todo : \A w \in todo : w <= v
InOrder(todo) == CHOOSE v \in todo : \A w \in todo : v <= w

\* AdoptSkippable: a duplicate object is stepped over, in adopt mode only
AdoptSkippable(adopt) == adopt

\* Apply: every statement in order, or nothing
Fails(st, adopt) == Creates(st) /\ st.what \in schema /\ ~AdoptSkippable(adopt)
Skipped(v) == {st \in Range(Script[v]) : Creates(st) /\ st.what \in schema}
CanApply(v, adopt) == \A st \in Range(Script[v]) : ~Fails(st, adopt)

\* What a committed migration leaves: a skipped statement does not stop the others
StopsAtSkip(v, st) == st \in Range(Script[v]) /\ Skipped(v) = {}
Landed(v, st) == st \in Range(Script[v])
HowUnsaid(v) == ""
HowAlwaysRan(v) == "ran"
HowRecorded(v) == IF Skipped(v) = {} THEN "ran" ELSE "adopted"

-----------------------------------------------------------------------------
MigrateInit ==
    /\ schema \in {{}, ByHand}
    /\ done = [st \in {x \in Statements : ~Creates(x)} |-> 0]
    /\ ledger = [v \in Version |-> "none"]
    /\ deploy = [d \in Deployer |-> Waiting]
    /\ runs = 0

AppliedVersions == {v \in Version : ledger[v] # "none"}

\* Up: EnsureLedger, then one SELECT of the applied versions fixes the work
Up(d, adopt) ==
    /\ deploy[d] = Waiting /\ runs < MaxRuns
    /\ runs' = runs + 1
    /\ deploy' = [deploy EXCEPT ![d] = [pc |-> "apply", adopt |-> adopt,
                                        todo |-> Pending(AppliedVersions)]]
    /\ UNCHANGED <<schema, done, ledger>>

\* Apply commits: the statements that did not have to be skipped, and the ledger row
Apply(d) ==
    LET p == deploy[d]
        v == InOrder(p.todo)
    IN
    /\ p.pc = "apply" /\ p.todo # {}
    /\ CanApply(v, p.adopt)
    /\ schema' = schema \cup Objects(v)
    /\ done' = [st \in DOMAIN done |-> IF Landed(v, st) THEN done[st] + 1 ELSE done[st]]
    /\ ledger' = [ledger EXCEPT ![v] = HowRecorded(v)]
    /\ deploy' = [deploy EXCEPT ![d].todo = @ \ {v}]
    /\ UNCHANGED runs

\* A statement fails, or the process dies: the transaction is rolled back and the
\* run ends; nothing of the migration stays
ApplyFails(d) ==
    /\ deploy[d].pc = "apply" /\ deploy[d].todo # {}
    /\ deploy' = [deploy EXCEPT ![d] = Waiting]
    /\ UNCHANGED <<schema, done, ledger, runs>>

UpDone(d) ==
    /\ deploy[d].pc = "apply" /\ deploy[d].todo = {}
    /\ deploy' = [deploy EXCEPT ![d] = Waiting]
    /\ UNCHANGED <<schema, done, ledger, runs>>

\* baseline: only with an empty ledger, and the operator vouches for the schema.  The
\* rows are inserted one by one; one that is there already stays.
Baseline(d, upTo) ==
    /\ deploy[d] = Waiting /\ runs < MaxRuns
    /\ AppliedVersions = {}
    /\ \A v \in 1..upTo : Objects(v) \subseteq schema
    /\ runs' = runs + 1
    /\ deploy' = [deploy EXCEPT ![d] = [pc |-> "baseline", todo |-> 1..upTo]]
    /\ UNCHANGED <<schema, done, ledger>>

BaselineRow(d) ==
    LET v == InOrder(deploy[d].todo) IN
    /\ deploy[d].pc = "baseline"
    /\ IF deploy[d].todo = {}
       THEN deploy' = [deploy EXCEPT ![d] = Waiting] /\ UNCHANGED ledger
       ELSE /\ ledger' = IF ledger[v] = "none" THEN [ledger EXCEPT ![v] = "baseline"]
                         ELSE ledger
            /\ deploy' = [deploy EXCEPT ![d].todo = @ \ {v}]
    /\ UNCHANGED <<schema, done, runs>>

MigrateNext ==
    \E d \in Deployer :
        \/ \E adopt \in BOOLEAN : Up(d, adopt)
        \/ \E v \in Version : Baseline(d, v)
        \/ Apply(d) \/ ApplyFails(d) \/ UpDone(d) \/ BaselineRow(d)

MigrateSpec == MigrateInit /\ [][MigrateNext]_migrateVars

-----------------------------------------------------------------------------
\* The ledger's own states
MigrateTypeOK ==
    /\ runs \in 0..MaxRuns
    /\ \A v \in Version : ledger[v] \in {"none", "ran", "adopted", "baseline"}
    /\ \A d \in Deployer : deploy[d].pc \in {"idle", "apply", "baseline"}

\* What the ledger says is there: every object of a recorded version exists, and no
\* data statement of a version "ran" or "adopted" was left out, however runs crash.
LedgerIsTrue ==
    \A v \in AppliedVersions :
        /\ Objects(v) \subseteq schema
        /\ ledger[v] # "baseline" => \A st \in Range(Script[v]) \cap DOMAIN done : done[st] >= 1

\* "Once each, in order": the ledger climbs the versions without a gap and without a
\* step back, whoever runs, adopts, baselines or dies at the same time.
Ladder == INSTANCE VersionLadder WITH Top <- Len(Script), climbed <- AppliedVersions
ClimbsInOrder == Ladder!LadderSpec

\* A version with a CREATE of its own whose run was clean has changed the data once,
\* even when two deployers raced for it.
RacedForOnce ==
    \A v \in Version :
        ledger[v] = "ran" /\ Objects(v) # {}
            => \A st \in Range(Script[v]) \cap DOMAIN done : done[st] <= 1

\* The ledger and the schema agree.
LedgerIsSound == MigrateTypeOK /\ LedgerIsTrue /\ RacedForOnce

\* Two deployers, every version: "once each" (package comment) also for a migration
\* that only changes data.
DataChangedOnce == \A st \in DOMAIN done : done[st] <= 1
=============================================================================
