SPECIFICATION Spec
CONSTANTS
    WorldSize = 2
    BatchesPerEpoch = 3
    TotalEpochs = 2
    ConfiguredSteps = 5
    SaveFreq = 2
    CriticWarmup = 2
    UseCritic = TRUE
    MaxActorCkptToKeep = 2
    MaxCriticCkptToKeep = 2
    SaveContents = {"model", "extra"}
    ResumeModes = {"auto"}
    EsiCanExpire = FALSE
    MaxRestarts = 2
    Absent = Absent
    Torn = Torn
INVARIANTS
    AutoResumes
CHECK_DEADLOCK FALSE
