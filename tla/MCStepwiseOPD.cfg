SPECIFICATION OPDSpec
CONSTANTS
    Masks <- MCMasks
    Diffs = {0, 2, 5}
    MaxDiff = 5
    Epsilon = 1
    Cap <- MCCap
INVARIANTS
    BoundariesAreTurns
    WeightsAreRight
CHECK_DEADLOCK FALSE
