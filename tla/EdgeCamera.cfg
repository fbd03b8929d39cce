SPECIFICATION CameraSpec
CONSTANTS
    LostTrackBuffer = 2
    IouThreshold = 3
    Trackers <- MCTrackers
    Kinds <- MCKinds
    MaxSilence = 3
    Absent = Absent
    Boxes <- MCBoxes
    MaxPeople = 2
    Foot = 2
    Zones <- MCZones
    Active = 1
    Idle = 2
    IdleAfter = 1
    MaxFrames = 5
INVARIANTS
    NobodyIsCountedTwice
    MissedPeopleKeepTheirStay
PROPERTIES
    AssociationIsStable
    IdsStayWithTheirPlace
CHECK_DEADLOCK FALSE
