SPECIFICATION Spec
CONSTANTS
    uA = uA
    uB = uB
    p1 = p1
    p2 = p2
    dashboard = dashboard
    local = local
    plans = plans
    wiki = wiki
    None = None
    Anonymous = Anonymous
    Root = Root
    Users <- MCUsers
    Projects <- MCProjects
    Pages <- MCPages
    Plans <- MCPlans
    Dashboard <- dashboard
    Local <- local
    InPlay <- MCInPlay
INVARIANTS
    TabsAreRestored
    OnlyOwnTabs
PROPERTIES
    ClosingShowsTheNextTab
    SwitchKeepsProjects
