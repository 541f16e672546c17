SPECIFICATION Spec
CONSTANTS
    WorldSize = 2
    Steps <- MCSteps
    MaxCkptToKeep = 2
    SaveContents = {"model", "hf_model"}
    c1 = c1
    c2 = c2
    Contents <- MCContents
    Absent = Absent
    MaxRestarts = 1
INVARIANTS
    SavedIsWhole
    NoWriteDuringRotation
    NewestSurvives
PROPERTY SaveReturns
CHECK_DEADLOCK FALSE
