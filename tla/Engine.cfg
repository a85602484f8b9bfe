SPECIFICATION EngineSpec
CONSTANTS
    Token <- MCToken
    NumLayers = 2
    Query <- MCQuery
    Predict <- MCPredict
    EngineFaults = {"load", "attention", "moe", "head"}
INVARIANTS
    EngineTypeOK
    MaskCoversKeys
PROPERTIES
    Recomputes
    CallEnds
