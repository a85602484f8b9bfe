SPECIFICATION Spec
CONSTANTS
    e1 = e1
    e2 = e2
    e3 = e3
    e4 = e4
    Expert = {e1, e2, e3}
    Policy = "lfu"
    GpuSlots = 2
    CpuSlots = 2
    Devices = {"cuda", "cpu"}
    MaxCount = 4
    MaxArcList = 4
INVARIANTS
    TypeOK
    WithinSlots
    SlotsUsedExact
PROPERTIES
    KeepsPromise
    LfuSparesTheUsed
