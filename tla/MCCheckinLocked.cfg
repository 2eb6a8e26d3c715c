SPECIFICATION Spec

CONSTANTS
    s1 = s1
    s2 = s2
    s3 = s3
    x1 = x1
    x2 = x2
    r1 = r1
    r2 = r2
    r3 = r3
    NoDevice = NoDevice
    NoStudent = NoStudent
    NoJob = NoJob
    Free = Free
    Students = {s1, s2, s3}
    Devices = {d1, d2}
    Sessions = {x1}
    Requests = {r1, r2, r3}
    Roster <- OneRoster
    Credentials = {"QR", "QR_FORGED", "QR_REVOKED"}
    EnforceDeviceLock = TRUE

SYMMETRY ThreadsAlike

INVARIANTS
    TypeOK
    SequenceDense
    NobodyCountsTwice
