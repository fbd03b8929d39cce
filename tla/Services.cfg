SPECIFICATION MCSpec
CONSTANTS
    Tolerance = 1
    Keep = 4
    MaxTime = 6
    MaxLag = 2
    MaxAhead = 1
    MaxExits = 3
    MaxOpens = 3
    Cadence = 3
    MinGap = 2
    JumpSpan = 3
    OrdersSpan = 5
    LongQueue = 4
    HighCount = 4
    HistoryMax = 2
    BaselineMin = 1
    BaselineMax = 2
    Absent = Absent
    Times = {0, 1, 2, 3, 5}
    Scenes <- QuietCrowdUnattendedSlowFlat
    Dwells = {1, 2}
    MaxCalls = 4
    Observations <- MCObservations
    Step = 2
    Day = 8
    Week = 16
    Horizon = 8
    Fits <- MCFits
    MinSlotObs = 2
    ColdDays = 2
    MinGapSteps = 2
    Best = 3
    Start = 32
    MaxClock = 36
    MaxTrainings = 2
    None = None
INVARIANTS
    PairingIsMaximal
    CallsAreSpaced
    JumpIsNoticed
    BestTimesAreBest
    ForecastStaysInRange
    NewestTrainingIsServed
CHECK_DEADLOCK FALSE
