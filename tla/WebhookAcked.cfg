SPECIFICATION Spec
CONSTANTS
    order = order
    check = check
    otherCheck = otherCheck
    booking = booking
    update = update
    Orders = {order, booking}
    Payload <- MCPayload
    Absent = Absent
    MaxSize = 2
    TTL = 2
    MaxClock = 2
    MaxFaults = 1
PROPERTY AckedIsStored
CHECK_DEADLOCK FALSE
