SPECIFICATION Spec
CONSTANTS
    c1 = c1
    c2 = c2
    t1 = t1
    t2 = t2
    NoClient = NoClient
    Client = {c1}
    Thread = {t1}
    Owner <- OneThread
    Buffer = {b1}
    Stream = {1, 2}
    Mode = {"safe", "direct"}
    Event = {"read", "error"}
    Ioctl <- DequeueAndInjectEach
    RecordAllocated = {TRUE}
    MaxRecords = 1
    LastFence = 5
    MaxJobsPerClient = 4
    MaxJobsPerDevice = 4
    b1 = b1
INVARIANTS
    OnlySupersededPresentsDrop
    NoMissedCompletionEvent
