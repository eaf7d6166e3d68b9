SPECIFICATION StorageSpec
CONSTANTS
    Caller = {c1}
    Quirk = {"StopTransmissionBusy", "CardOnNeedsBusOn"}
    Command = {"plain", "opCond", "select", "read", "write", "tuning", "empty"}
    MaxTickets = 2
    MaxLooks = 2
    DrainPasses = 2
    Recoveries = 0
    ResetOutcome = {TRUE, FALSE}
    Deck = {}
    NoCard = NoCard
    Capabilities <- EveryMode
    BaseClockKHz = 200000
    CardFault = {}
    MaxRequests = 1
    MaxCards = 2
    MaxEjects = 1
    MaxChunks = 2
    Polled = TRUE
    FlushFails = TRUE
    Storage = {"engine", "media"}
INVARIANTS
    NoFalseSuccess
    WritesSentOnce
    NoStaleIo
    ChangeNotLost
    EjectHolds
    Quiesced
