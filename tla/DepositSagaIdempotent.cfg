CONSTANTS
    Deposit = {d1}
    d1 = d1
    MaxRetry = 2
    DropReplies = FALSE
    MaxTxRows = 1
    MaxUserRows = 2
    MaxFaults = 1
SPECIFICATION Spec
CHECK_DEADLOCK FALSE
INVARIANTS
    Idempotent
