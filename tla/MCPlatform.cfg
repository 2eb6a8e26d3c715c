SPECIFICATION PlatformSpec

CONSTANTS
    Gateway = {g1, g2}
    Slot = {s1, s2}
    s1 = s1
    s2 = s2
    Badge = {b1}
    SlotStart <- Starts
    Offset = 1
    Every = 1
    MaxCatchUp = 2
    BatchSize = 1
    CheckoutAt = 1
    DayMinutes = 3
    LastMinute = 3
    MaxFaults = 1

    Deployer = {d1, d2}
    Script <- Files
    ByHand = {"t", "p"}
    MaxRuns = 4

    Code = {"a"}
    Tag = {"$$", "$t$"}
    Lexeme <- SqlLexemes
    MaxLexemes = 3

    StepSeconds = 4
    SkewSteps = 1
    HourSeconds = 1
    TZ = 3
    Start = 7
    End = 21
    ActiveDays = {1, 2, 3, 4, 5, 6}
    AskedDays <- Days
    LastSecond = 60

INVARIANTS
    
    
    SplitsBack
    CodesAreTimely

PROPERTIES
    SchedulerCatchesUp
    ClimbsInOrder

CHECK_DEADLOCK FALSE
