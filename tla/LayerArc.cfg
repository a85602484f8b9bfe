SPECIFICATION LayerSpec
CONSTANTS
    NoExpert = NoExpert
    Layer = {0, 1, 2}
    ExpertId = {0, 1}
    Expert <- MCExpert
    TopK = 1
    MaxTokens = 2
    Policy = "arc"
    GpuSlots = 1
    CpuSlots = 2
    PoolSlots = 1
    MaxConcurrent = 1
    Request <- Demands
    MaxStream = 3
    Faults = {}
    LayerFaults = {}
INVARIANTS
    FaultFreePass
    ArcListsDisjoint
    CpuWithinSlots
    GhostsBounded
