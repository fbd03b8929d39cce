SPECIFICATION Spec
CONSTANTS
    order = order
    check = check
    otherCheck = otherCheck
    booking = booking
    update = update
    Orders = {order, check, otherCheck, booking, update}
    Payload <- MCPayload
    Absent = Absent
    MaxSize = 2
    TTL = 2
    MaxClock = 2
    MaxFaults = 1
INVARIANTS
    LossHasACause
    LiveAgreesWithTable
PROPERTY OnlyForgottenOrdersCountAgain
SYMMETRY CheckSymmetry
CHECK_DEADLOCK FALSE
