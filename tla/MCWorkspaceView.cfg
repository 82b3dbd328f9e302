CONSTANTS
    Null = Null
    Answers <- AnswersMC
    Moments <- MomentsMC
SPECIFICATION ViewSpec
INVARIANTS
    FoldingFollowsTheTree
    ChartIsInScale
    FullSetupIsFull
CHECK_DEADLOCK FALSE
