SPECIFICATION Spec
CONSTANTS
    PromptLength = 2
    ResponseLength = 7
    MaxAssistantTurns = 0
    MaxUserTurns = 0
    MaxParallelCalls = 2
    CalculateLogProbs = TRUE
    MaxToolCalls = 3
    LongestPrompt = 9
    MaxToolTokens = 2
INVARIANTS
    OutputIsRight
    FittingPromptIsServed
    InstancesReleased
PROPERTIES
    Returns
\* A coroutine that has returned does nothing more.
CHECK_DEADLOCK FALSE
