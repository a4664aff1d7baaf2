CONSTANTS
    Upload = {a, b}
    a = a
    b = b
    MaxAvatars = 1
    Retries = 2
    MaxFaults = 2
SPECIFICATION FairSpec
INVARIANTS
    CreatedIsStored
    StoredTogether
    ExcessNeedsOverlap
PROPERTIES
    UploadEnds
CHECK_DEADLOCK FALSE
