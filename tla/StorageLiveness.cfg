SPECIFICATION StorageFairSpec
CONSTANTS
    Caller = {c1, c2}
    Quirk = {"StopTransmissionBusy", "CardOnNeedsBusOn"}
    Command = {"plain", "switch"}
    MaxTickets = 1
    MaxLooks = 1
    DrainPasses = 1
    Recoveries = 1
    ResetOutcome = {TRUE, FALSE}
    Deck = {}
    NoCard = NoCard
    Capabilities <- EveryMode
    BaseClockKHz = 200000
    CardFault = {}
    MaxRequests = 1
    MaxCards = 2
    MaxEjects = 1
    MaxChunks = 1
    Polled = FALSE
    FlushFails = TRUE
    Storage = {"engine", "media"}
PROPERTIES
    EveryCallReturns
    LineFalls
    EveryRequestAnswered
    TeardownCompletes
    OnlineFollowsCard
