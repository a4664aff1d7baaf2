CONSTANTS
    Request = {q1, q2, q3, q4}
    q1 = q1
    q2 = q2
    q3 = q3
    q4 = q4
    FAILURE_THRESHOLD = 3
SPECIFICATION FairSpec
INVARIANTS
    HalfOpenHasProbe
    RejectsOnlyAfterFailures
PROPERTIES
    ProbeIsDecided
    OpenIsProbed
