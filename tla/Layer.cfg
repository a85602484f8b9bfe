SPECIFICATION PrefetchSpec
CONSTANTS
    NoExpert = NoExpert
    Layer = {0, 1, 2}
    ExpertId = {0, 1}
    Expert <- MCExpert
    TopK = 1
    MaxTokens = 2
    Policy = "lru"
    GpuSlots = 1
    CpuSlots = 2
    PoolSlots = 2
    MaxConcurrent = 2
    Request <- MCRequest
    MaxStream = 3
    Faults = {"stage", "copy", "reconstruct"}
    LayerFaults = {"load", "compute"}
    PrefetchPolicy = "lookahead"
    Depth = 2
INVARIANTS
    PrefetchTypeOK
    SlotsOwned
    OwnWeights
    NothingLeftBehind
    GpuCopiesBounded
    ExecutesOwn
    CanStillCancel
    NothingStale
