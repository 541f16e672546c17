SPECIFICATION Spec
CONSTANTS
    WorldSize = 2
    BatchesPerEpoch = 2
    TotalEpochs = 2
    ConfiguredSteps = 3
    SaveFreq = 2
    CriticWarmup = 2
    UseCritic = TRUE
    MaxActorCkptToKeep = 2
    MaxCriticCkptToKeep = 2
    SaveContents = {"model", "extra"}
    ResumeModes = {"auto"}
    EsiCanExpire = TRUE
    MaxRestarts = 2
    Absent = Absent
    Torn = Torn
INVARIANTS
    CheckpointsOK
    LineageExact
    SavesOnTime
PROPERTIES
    TrackerAdvances
    Ends
    ImplementsDurableTraining
CHECK_DEADLOCK FALSE
