SPECIFICATION Spec
CONSTANTS
    MaxSockets = 2
    MaxCurrent = 2
    MaxPublished = 2
    MaxAttached = 2
INVARIANTS
    NobodyIsPassedBy
    OneSocketPerAttachment
PROPERTIES
    GoneAreDropped
    ShowsTheCurrentWait
CHECK_DEADLOCK FALSE
