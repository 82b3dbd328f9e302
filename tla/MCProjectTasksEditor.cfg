CONSTANTS
    Projects = {p1, p2}
    None = None
    Slots = {c1, c2}
    PageSize = 1
    FirstBoard <- NoTask
    MaxId = 1
    MaxToken = 2
    CanAdd = TRUE
    CanEdit = TRUE
SPECIFICATION Spec
SYMMETRY Symmetry
INVARIANTS
    DetailOfSelected
CHECK_DEADLOCK FALSE
