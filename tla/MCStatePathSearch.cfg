CONSTANTS
    here = here
    there = there
    s2 = s2
    s3 = s3
    s4 = s4
    TypeStates <- Five
    Workflows <- SparseOrDense
    Changes <- HereToThere
SPECIFICATION FairSearch
INVARIANTS
    FoundIsShortest
    NoneIsUnreachable
PROPERTIES
    SearchEnds
CHECK_DEADLOCK FALSE
