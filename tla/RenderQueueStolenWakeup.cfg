SPECIFICATION FairSpec
CONSTANTS
    c1 = c1
    c2 = c2
    t1 = t1
    t2 = t2
    NoClient = NoClient
    Client = {c1}
    Thread = {t1, t2}
    Owner <- TwoThreadsOneClient
    Buffer = {b1}
    Stream = {}
    Mode = {"async"}
    Event = {}
    Ioctl <- WaitEach
    RecordAllocated = {TRUE}
    MaxRecords = 1
    LastFence = 3
    MaxJobsPerClient = 2
    MaxJobsPerDevice = 3
    b1 = b1
PROPERTIES
    WaitersWake
