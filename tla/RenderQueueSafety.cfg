SPECIFICATION Spec
CONSTANTS
    c1 = c1
    c2 = c2
    t1 = t1
    t2 = t2
    NoClient = NoClient
    Client = {c1, c2}
    Thread = {t1, t2}
    Owner <- OneThreadEach
    Buffer = {b1}
    Stream = {}
    Mode = {"async"}
    Event = {}
    Ioctl <- NoIoctl
    RecordAllocated = {TRUE}
    MaxRecords = 1
    LastFence = 3
    MaxJobsPerClient = 2
    MaxJobsPerDevice = 3
    b1 = b1
INVARIANTS
    IInv
    NoLostWork
    DeviceCountExact
PROPERTIES
    ImplementsTimeline
SYMMETRY SwapClients
