SPECIFICATION TeachingSpec

CONSTANTS
    PReq = {q1, q2}
    Slot <- Lectures
    Unit = {"u1", "u2"}
    Rep <- Handlers
    NoCohort = "none"
    Week = 3
    DayHours = 2
    EastOfUTC = 1
    KeepDays = 2
    AskDays = 2
    MaxTick = 2
    MaxEntry = 1
    LastHourP = 2

    c1 = c1
    c2 = c2
    u1 = u1
    l1 = l1
    l2 = l2
    r1 = r1
    Editor = {q1, q2}
    Asked <- Wanted
    Group = {c1, c2}
    CourseUnit = {u1}
    Lecturer = {l1, l2}
    Room = {r1}
    Coord = {s1, s2}
    Issuer = {i1, i2, i3}
    Code = {q1, q2}
    NoOne = NoOne
    DayLen = 2
    Starts = {0, 1}
    Tries = 2
    MaxSlotEdits = 2

    Examinee = {q1, q2}
    Offering = {day}
    OfferingOf <- OneOffering
    MaxSessions = 4
    MaxUploads = 2
    MaxRows = 3

SYMMETRY Interchangeable

INVARIANTS
    TickArrives
    RecordIsTrue
    TimetableIsSound
    
    FiguresAreFair

PROPERTIES
    SummaryNeverGoesBack

CHECK_DEADLOCK FALSE
