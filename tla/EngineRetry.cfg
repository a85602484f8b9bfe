SPECIFICATION EngineSpec
CONSTANTS
    Token <- MCToken
    NumLayers = 2
    Query <- MCQuery
    Predict <- MCPredict
    EngineFaults = {"load_layer", "load_head"}
INVARIANT
    BuiltOnce
