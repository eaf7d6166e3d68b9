SPECIFICATION GraphicsSpec
CONSTANTS
    GpuFault = {"forcewake", "write", "hang", "map"}
    RenderClient = {c1, c2}
    ThreadCount = 1
    EngineLoss = FALSE
    OtherUsers = TRUE
    Buffer = {b1, b2, b3}
    BufferSize <- OneUnitEach
    Budget = 2
    QueueLimit = 1
    MemoryFault = {"lock", "unlock", "delete", "pte", "ggtt", "gpu"}
INVARIANTS
    ReferencedIsKept
    RestIsBaseline
    CurrentHasImage
    NamedIsWired
    QueuedObjectsReady
CHECK_DEADLOCK FALSE
SYMMETRY GraphicsSymmetry
