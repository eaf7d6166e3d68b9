SPECIFICATION StorageSpec
CONSTANTS
    Caller = {c1, c2}
    Quirk = {"StopTransmissionBusy", "CardOnNeedsBusOn"}
    Command = {"plain", "read"}
    MaxTickets = 2
    MaxLooks = 1
    DrainPasses = 1
    Recoveries = 1
    ResetOutcome = {TRUE, FALSE}
    Deck <- SomeCards
    NoCard = NoCard
    Capabilities <- EveryMode
    BaseClockKHz = 200000
    CardFault = {"refused", "silent", "tuning", "voltage", "clock"}
    MaxRequests = 1
    MaxCards = 2
    MaxEjects = 1
    MaxChunks = 2
    Polled = TRUE
    FlushFails = TRUE
    Storage = {"engine", "card"}
INVARIANTS
    IInv
    DmaOutlived
    BusInStep
SYMMETRY CallerSymmetry
