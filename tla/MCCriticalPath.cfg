CONSTANTS
    Tasks = {1, 2, 3}
    Outside = {9}
    Plans <- SmallPlans
SPECIFICATION FairSpec
INVARIANTS
    OrderIsTopological
    EarlyIsEarliest
    LateIsLatest
    CriticalChain
PROPERTIES
    CalculationEnds
CHECK_DEADLOCK FALSE
