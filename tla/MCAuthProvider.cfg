CONSTANTS
    Users = {ann, bob}
    Mapped = {ann}
    Nobody = Nobody
    Calls = {c1, c2}
    Routes = {"create", "data"}
    RoleSets <- SomeRoles
    Options <- SomeOptions
    Lifetime = 1
    MaxSessions = 2
    MaxTime = 1
SPECIFICATION Spec
SYMMETRY Symmetry
INVARIANTS
    OwnCredential
    RightsWereGranted
    
PROPERTIES
    EndedIsOver
CHECK_DEADLOCK FALSE
