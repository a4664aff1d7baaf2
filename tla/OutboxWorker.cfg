CONSTANTS
    MaxRows = 4
    MaxFaults = 2
    Limit = 2
    Tick = {t1, t2}
    t1 = t1
    t2 = t2
SPECIFICATION FairSpec
INVARIANTS
    AtMostOneTick
    MarkedWasPublished
    BoundedDuplicates
PROPERTIES
    EventuallyProcessed
    ImplementsFairDelivery
