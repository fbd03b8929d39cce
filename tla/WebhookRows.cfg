SPECIFICATION Spec
CONSTANTS
    order = order
    check = check
    otherCheck = otherCheck
    booking = booking
    update = update
    Orders = {order}
    Payload <- MCPayload
    Absent = Absent
    MaxSize = 2
    TTL = 2
    MaxClock = 2
    MaxFaults = 1
INVARIANT OneRowPerEvent
CHECK_DEADLOCK FALSE
