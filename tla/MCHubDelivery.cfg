SPECIFICATION FairSpec

CONSTANTS
    None = None
    s1 = s1
    s2 = s2
    c1 = c1
    c2 = c2
    Students = {s1}
    Sessions = {x1}
    Openers = {o1}
    Closers = {c1, c2}
    Threads = {t1}
    MaxCrashes = 1

PROPERTIES
    DeliveryPromise
    ClosedIsDelivered
    SessionRunsItsCourse

CHECK_DEADLOCK FALSE
