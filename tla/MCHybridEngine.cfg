SPECIFICATION HybridSpec
CONSTANTS
    Ranks = {r1, r2}
    Root = r1
    Configs <- MCConfigs
    MaxCalls = 4
INVARIANTS
    EngineIsCurrent
    RandomStatesApart
    MemoryIsShared
