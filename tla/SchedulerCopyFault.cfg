SPECIFICATION Spec
CONSTANTS
    a = a
    b = b
    NoExpert = NoExpert
    Expert = {a, b}
    Policy = "lru"
    GpuSlots = 1
    CpuSlots = 2
    PoolSlots = 2
    MaxConcurrent = 2
    Request <- TwoExperts
    MaxStream = 4
    Faults = {"copy"}
INVARIANT
    NoReuseDuringDma
