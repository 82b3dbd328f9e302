CONSTANTS
    Runs = {r1, r2}
    Users = {ann, bob}
    Nobody = Nobody
    Forms <- TwoForms
SPECIFICATION Spec
SYMMETRY Symmetry
INVARIANTS
    Delivered
    MembersCanView
    OnlyOverlapsCollide
CHECK_DEADLOCK FALSE
