CONSTANTS
    Requests = {q1, q2}
    Fields <- MCFields
    FieldValues <- MCFieldValues
    States <- MCStates
    Transitions <- MCTransitions
    Removed = "Removed"
    Items <- MCItems
    Wants <- MCWants
    FirstVersions <- MCFirstVersions
    Contents <- MCContents
    MaxForeignRev = 3
    Keep = Keep
    Unusable = Unusable
    NoHours = NoHours
    NoParent = NoParent
    NoItem = NoItem
    Nobody = Nobody
SPECIFICATION FairSpec
INVARIANTS
    FreshDocument
    NoBlindOverwrite
    SavedOnce
    AcknowledgedAsAsked
    HalfwayIsOnPath
    NeverMalformed
PROPERTIES
    KeepsPromise
    EveryRequestAnswered
CHECK_DEADLOCK FALSE
