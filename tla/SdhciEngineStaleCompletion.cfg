SPECIFICATION Spec
CONSTANTS
    Caller = {c1, c2}
    Quirk = {"StopTransmissionBusy", "CardOnNeedsBusOn"}
    Command = {"plain", "switch"}
    MaxTickets = 2
    MaxLooks = 1
    DrainPasses = 1
    Recoveries = 0
    ResetOutcome = {TRUE, FALSE}
INVARIANTS
    NoFalseSuccess
SYMMETRY CallerSymmetry
