SPECIFICATION Spec
CONSTANTS
    Cameras <- OneTenant
    Trackers = {1}
    Kinds = {"queue"}
    OrderEvents = {"check_open"}
    Times = {0, 1, 2}
    MaxSilence = 1
    Minute = 1
    Window = 2
    PosWindow = 1
    Burst = 1
    StaleAfter = 1
    MinSamples = 2
    MinDwell = 1
    Tolerance = 1
    Keep = 2
    Cadence = 3
    MinGap = 2
    JumpSpan = 1
    OrdersSpan = 1
    LongQueue = 1
    HighCount = 2
    HistoryMax = 2
    BaselineMin = 1
    BaselineMax = 2
    Absent = Absent
    MaxFrames = 3
    MaxOrders = 1
    MaxMishaps = 1
INVARIANTS
    LiveCountAgrees
    AnswersAreFresh
    VanishedHaveExited
    EventsArePersisted
CHECK_DEADLOCK FALSE
