SPECIFICATION OfficeSpec

CONSTANTS
    q1 = q1
    q2 = q2
    s1 = s1
    s2 = s2
    rep = rep
    dqa = dqa
    crs = crs
    dpt = dpt
    y1 = y1
    y2 = y2
    n1 = n1
    n2 = n2

    Fetcher = {q1, q2}
    Sitting = {m1}
    PanelStudent = {s1, s2}
    PageSize = 2
    MaxPages = 3
    MaxDocs = 5
    MaxOrder = 5
    MaxFetch = 2

    Clear = {q1, q2}
    Upload = {s1, s2}
    YearGroup = {y1, y2}
    Learner = {n1, n2}
    IntakeOf <- TwoIntakes
    Class = {k1}

    NoPlace = NoPlace
    Person = {s1, s2, rep, dqa}
    RoleOf <- Roles
    Posted <- Posts
    UpOf <- Ups
    Place = {crs, dpt}
    ListLimit = 1
    MaxSent = 2
    Mover = {rep}
    MaxMoves = 1

    Staff = {s1, s2}
    Import = {q1, q2}
    Dept = {d1, d2}
    Support = {d1}
    None = None
    Day = {1}
    Ticks = {1, 2}
    Deadline = 1
    OnDuty = 1
    MaxPunches = 2
    MaxEdits = 1

    Student = {a1}
    Cohort = {s1, s2}
    Intake = {q1, q2}
    Advance = {v1}
    Null = Null
    MaxYear = 2
    NoCap = 99
    MaxAdvances = 3
    MaxChanges = 3

SYMMETRY Interchangeable

INVARIANTS
    
    
    InboxIsTrue
    
    

PROPERTIES
    DismissedStaysGone

CHECK_DEADLOCK FALSE
