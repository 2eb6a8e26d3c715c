SPECIFICATION FairSpec

CONSTANTS
    s1 = s1
    s2 = s2
    s3 = s3
    x1 = x1
    x2 = x2
    r1 = r1
    r2 = r2
    r3 = r3
    NoDevice = NoDevice
    NoStudent = NoStudent
    NoJob = NoJob
    Free = Free
    Students = {s1, s2}
    Devices = {d1, d2}
    Sessions = {x1, x2}
    Requests = {r1, r2}
    Roster <- TwoRosters
    Credentials = {"REG", "QR_REVOKED"}
    EnforceDeviceLock = FALSE

INVARIANTS
    SuccessIsEarned

PROPERTIES
    LedgerPromise
    BindingsAreKept
    MonitorIsReleased
