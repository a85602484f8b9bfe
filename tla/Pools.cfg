SPECIFICATION PoolsSpec
CONSTANTS
    a = a
    b = b
    Name = {a, b}
    Budget = 6
    Size = {0, 2, 3}
    SlotSize = 2
    DestroyAlone = TRUE
INVARIANTS
    PoolsTypeOK
    Accounted
