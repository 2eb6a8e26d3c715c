---------------------------- MODULE VersionLadder ----------------------------
(***************************************************************************)
(* What the migration runner promises about schema_migrations, without     *)
(* saying who runs it or how: the database climbs the versions one at a    *)
(* time, each rung once, and never steps back or over one ("once each, in  *)
(* order", migrate.go).  Module Migrate is shown to implement it.          *)
(***************************************************************************)
EXTENDS Naturals

CONSTANT Top       \* the newest version on disk

VARIABLE climbed   \* the versions the ledger names

LadderInit == climbed = {}

\* The next rung, above all those below it
Climb == \E v \in 1 .. Top : climbed = 1 .. (v - 1) /\ climbed' = climbed \cup {v}

LadderSpec == LadderInit /\ [][Climb]_climbed

=============================================================================
