SPECIFICATION Spec
CONSTANTS
    EpochLength = 3
    TotalEpochs = 2
    TotalTrainingSteps = 5
    SaveFreq = 2
    TestFreq = 3
    ValBeforeTrain = TRUE
    CriticWarmup = 2
    Tensors = 2
    LoaderCanFail = TRUE
    MaxKills = 2
INVARIANTS
    SyncIsAtomic
    WeightsAreRecent
    ResumeSkipsAtMostOne
    EndsInOrder
PROPERTIES
    Ends
CHECK_DEADLOCK FALSE
