SPECIFICATION HSpec
CONSTANTS
    Frames = {f1, f2, f3, f4}
    DrainBatch = 2
    SpoolBound = 3
    MaxRestarts = 1
    MaxLostAnswers = 1
    NoFrame = NoFrame
INVARIANTS
    DuplicatesHaveACause
    ReplayIsInOrder
PROPERTIES
    LossesHaveACause
    SoundFilesAreReplayed
