SPECIFICATION Spec
CONSTANTS
    Minute = 1
    Window = 5
    PosWindow = 4
    Burst = 2
    StaleAfter = 4
    MinSamples = 2
    MinDwell = 2
    Absent = Absent
    Times = {0, 4, 9, 14}
    People = {p1}
    MaxSamples = 3
    MaxOrders = 3
INVARIANTS
    NoSampleLost
    ReadsDoNotDisturb
    SourceIsHonest
    BandCoversEstimate
