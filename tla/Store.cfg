SPECIFICATION StoreSpec
CONSTANTS
    r1 = r1
    r2 = r2
    d1 = d1
    d2 = d2
    d3 = d3
    NoExpert = NoExpert
    RamExpert = {r1, r2}
    DiskExpert = {d1, d2, d3}
    MaxCrashes = 3
INVARIANTS
    StoreTypeOK
    ServesEveryExpert
PROPERTIES
    KeepsCopied
    Resumes
