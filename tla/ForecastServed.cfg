SPECIFICATION ForecastSpec
CONSTANTS
    Observations <- MCObservations
    Step = 2
    Day = 8
    Week = 16
    Horizon = 8
    Fits <- MCFits
    MinSlotObs = 2
    ColdDays = 2
    MinGapSteps = 2
    Best = 3
    Start = 32
    MaxClock = 36
    MaxTrainings = 2
    None = None
INVARIANT SomethingIsServed
CHECK_DEADLOCK FALSE
