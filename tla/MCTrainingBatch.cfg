SPECIFICATION Spec
CONSTANTS
    Callers <- MCCallers
    Lists = {}
    DPSize = 2
    Lengths = {1, 3}
    MaxTokenLen = 5
    MiniBatchSize = 2
    MicroBatchSize = 2
    PPOEpochs = 2
    ValSizes = {1, 3, 6}
    Configs <- MCConfigs
INVARIANTS
    RowsStayTogether
    PartitionsAreExact
    RanksInStep
    EveryRowIsTrainedOn
    WorkIsBalanced
PROPERTIES
    Ends
CHECK_DEADLOCK FALSE
