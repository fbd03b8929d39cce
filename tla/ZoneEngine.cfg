SPECIFICATION Spec
CONSTANTS
    Trackers = {t1, t2}
    Kinds = {queue}
    MaxSilence = 1
    Absent = Absent
    Times = {0, 1, 2, 3}
INVARIANTS
    TypeOK
    OpenKeysCanClose
    BoundedSilence
    OpenMeansLastShownInside
    StaysAreWitnessed
    ReplaysHeal
    OccupancyIsExact
    OpenStayIsUnbroken
PROPERTIES
    ContractSpec
