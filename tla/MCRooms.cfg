SPECIFICATION RoomsSpec

CONSTANTS
    ann = ann
    Blank = Blank
    Clients = {r1, r2}
    Typed = {"ann", "ANN ", ""}
    Regs = {ann}
    Normalise <- Spellings
    Hold = 1
    Grace = 1
    Stall = 2
    AssumedCap = 2
    MaxTime = 6
    MaxCount = 3

    Coordinator = {k1}
    Lecturer = {l1}
    Student = {s1, s2}
    Handset = {p1}
    Cohort = {s1, s2}
    Biometric = {l1}
    Request = {r1, r2}
    RatioNum = 1
    RatioDen = 2
    MaxRooms = 2
    MaxProofs = 2
    MaxLostWrites = 1

    Req = {q1, q2}
    FailLimit = 2
    LockTime = 2
    TokenTTL = 2
    DayEnd = 1
    LastTick = 2
    MaxPw = 1
    MaxToken = 2
    MaxKey = 2

    Call = {e1, e2}
    Pupil = {u1, u2}
    Phone = {d1, d2, d3}
    RebindLimit = 2
    PinLimit = 2
    PinLockout = 2
    LinkLife = 2
    WindowEnd = 2
    WardenGrace = 1
    WardenLate = 2
    MaxPasskey = 4
    LastHour = 3

SYMMETRY Interchangeable

INVARIANTS
    WardenIsFair
    RoomsAreSound
    AttendanceIsTrue
    LockIsExact
    

PROPERTIES
    FinishedIsNotKept
    RefusedStaysRefused

CHECK_DEADLOCK FALSE
