SPECIFICATION Spec
CONSTANTS
    AccumulationSteps = 3
    MaxU64 = 8
    TokenWeighted = TRUE
    AllowZeroTokens = TRUE
    TokenElements = 2
    MaxExactCount = 6
    WindowLossReport = TRUE
    BlocksPerReplay = 1
    NoCheckpoint = NoCheckpoint
INVARIANTS RecordsAgree NothingIsRefused OpenWindowNeverTrapped
PROPERTY RestoreIsExact
