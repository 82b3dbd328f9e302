SPECIFICATION Spec
CONSTANTS
    pA = pA
    pB = pB
    pGone = pGone
    None = None
    Projects <- MCProjects
    Listed <- MCListed
    InPlay <- MCInPlay
    MaxPage = 1
    MaxCalls = 4
INVARIANTS
    PanelsOfSelected
    WorkspaceOfSelected
    LoadingHasACall
    NeverInferred
CHECK_DEADLOCK FALSE
