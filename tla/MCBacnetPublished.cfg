SPECIFICATION Spec
CONSTANTS
    d1 = d1
    d2 = d2
    zero = zero
    o2 = o2
    None = None
    Devices = {d1, d2}
    Objects = {zero, o2}
    ObjectList <- TwoLists
    ObjectZero = zero
    Multistate = {o2}
    Readings = {1}
    MaxId = 2
    Retries = 1
    MaxTroubles = 1
INVARIANT PublishedOfDevice
CHECK_DEADLOCK FALSE
