SPECIFICATION PeripheralsSpec
CONSTANTS
    AudioThread = {"t1"}
    RingId = {1, 2, 3}
    DspFault = {}
    MaxOwed = 1
    Slot = {0, 1}
    MessageLimit = 2
    FrameBatch = 1
    RingCapacity = 1
    TouchFault = {"bus", "count"}
    Opener = {o1}
    Key = {42, 157}
    BufferLimit = 2
    TokenLimit = 1
    KeyRingSize = 1
    KeyboardFault = {"late", "reset", "pause"}
    Pin = {p1}
    Consumer = {a, b}
    DirectIrq = {}
    Edge = {"both", "rising"}
    EventLimit = 2
    CallbackMay = {}
    Volume = {0}
    Mixer = {m1}
    RefusedAfter = {1, 5}
    FaultLimit = 1
    MoveLimit = 1
    HookLimit = 4
    SpeakerTuning = TRUE
    CodecFault = {"i2c", "gpio", "firmware"}
INVARIANTS
    
    CodecAgrees
    
    KeysAgree
    LevelFollowed
    
CHECK_DEADLOCK FALSE
