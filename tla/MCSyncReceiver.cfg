SPECIFICATION FairSpec

CONSTANTS
    None = None
    u1 = u1
    u2 = u2
    u3 = u3
    h1 = h1
    h2 = h2
    Uploads = {u1, u2}
    Handlers = {h1, h2}
    TotalChunks = 2
    MaxRows = 2
    Resolved = {2}
    InOrder = TRUE
    MaxFaults = 1

INVARIANTS
    UploadsAreSound

PROPERTIES
    CopyPromise
    

CHECK_DEADLOCK FALSE
