----------------------------- MODULE MCPlatform -----------------------------
(***************************************************************************)
(* Small instances of what runs beside the requests: the scheduled jobs,   *)
(* the migration runner and its statement splitter, and the decisions      *)
(* taken by the clock.  They share no state, so a behaviour is one         *)
(* component's, chosen at the start.                                       *)
(***************************************************************************)
EXTENDS Jobs, Migrate, SqlSplitter, RoomClock, TLC

CONSTANTS s1, s2

\* Two lectures, at the first and at the second minute
Starts == s1 :> 0 @@ s2 :> 1

\* Three migrations: an object and data, data alone, two objects and data
Files == << <<[does |-> "create", what |-> "t"], [does |-> "update", what |-> 1]>>,
            <<[does |-> "update", what |-> 2]>>,
            <<[does |-> "create", what |-> "c"], [does |-> "create", what |-> "p"],
              [does |-> "update", what |-> 3]>> >>

\* A word, an empty line, and literals and comments that hold semicolons, quotes and each other's marks
SqlLexemes == {<<"a">>, <<"nl">>, <<"quote", "semi", "quote">>, <<"dash", "semi", "quote", "nl">>,
               <<"dquote", "quote", "semi", "dquote">>,
               <<"open", "semi", "open", "quote", "close", "semi", "close">>,
               <<"$$", "quote", "semi", "$t$", "dash", "$$">>}

\* The days a phone may ask for, relative to today
Days == {-8, -7, -1, 0, 1, 2}

VARIABLE focus

platformVars == <<focus, jobsVars, migrateVars, splitterVars, clockVars>>

PlatformInit ==
    /\ focus \in {"jobs", "migrate", "splitter", "clock"}
    /\ JobsInit /\ MigrateInit /\ SplitterInit /\ ClockInit
    /\ focus # "jobs" => job = "remind"
    /\ focus # "migrate" => schema = {}

PlatformNext ==
    /\ UNCHANGED focus
    /\ \/ focus = "jobs" /\ JobsNext /\ UNCHANGED <<migrateVars, splitterVars, clockVars>>
       \/ focus = "migrate" /\ MigrateNext /\ UNCHANGED <<jobsVars, splitterVars, clockVars>>
       \/ focus = "splitter" /\ SplitterNext /\ UNCHANGED <<jobsVars, migrateVars, clockVars>>
       \/ focus = "clock" /\ ClockNext /\ UNCHANGED <<jobsVars, migrateVars, splitterVars>>

\* The gateway's scheduler runs whenever the process does
PlatformSpec ==
    /\ PlatformInit /\ [][PlatformNext]_platformVars
    /\ focus = "jobs" => JobsFairness

\* In every behaviour of the scheduler the job catches up with the clock and stays
\* there (JobsCatchUp): failed windows, dead gateways and two gateways that write one
\* watermark delay it, and no more.
SchedulerCatchesUp == focus = "jobs" => JobsCatchUp

=============================================================================
