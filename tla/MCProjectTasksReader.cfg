CONSTANTS
    Projects = {p1, p2}
    None = None
    Slots = {c1, c2}
    PageSize = 1
    FirstBoard <- TwoTasks
    MaxId = 2
    MaxToken = 3
    CanAdd = FALSE
    CanEdit = FALSE
SPECIFICATION FairSpec
INVARIANTS
    RowsOfSelected
PROPERTIES
    LoadingEnds
CHECK_DEADLOCK FALSE
