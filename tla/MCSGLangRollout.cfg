SPECIFICATION RolloutSpec
CONSTANTS
    NRequests = 2
    Configs <- MCConfigs
    PromptLength = 3
    ResponseLength = 5
    MaxModelLen = 9
    MaxAssistantTurns = 2
    MaxUserTurns = 1
    PromptLens = {2, 6, 9}
    AnswerLens = {1, 2}
    ReplyLens = {0, 2}
INVARIANTS
    BatchIsComplete
    RowsAreRight
    CallsAreAccepted
PROPERTY RolloutEnds
CHECK_DEADLOCK FALSE
