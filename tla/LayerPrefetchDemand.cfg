SPECIFICATION PrefetchSpec
CONSTANTS
    NoExpert = NoExpert
    Layer = {0, 1}
    ExpertId = {0, 1}
    Expert <- MCExpert
    TopK = 1
    MaxTokens = 2
    Policy = "lru"
    GpuSlots = 1
    CpuSlots = 2
    PoolSlots = 2
    MaxConcurrent = 2
    Request <- MCRequest
    MaxStream = 3
    Faults = {}
    LayerFaults = {}
    PrefetchPolicy = "next_layer"
    Depth = 1
INVARIANT
    FaultFreePass
