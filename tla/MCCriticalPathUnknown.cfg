CONSTANTS
    Tasks = {1, 2, 3}
    Outside = {9}
    Plans <- SmallPlans
SPECIFICATION Spec
INVARIANTS
    UnknownPredecessorsAreSkipped
CHECK_DEADLOCK FALSE
