CONSTANTS
    Deposit = {d1}
    d1 = d1
    MaxRetry = 2
    DropReplies = TRUE
    MaxTxRows = 3
    MaxUserRows = 3
    MaxFaults = 2
SPECIFICATION Spec
CHECK_DEADLOCK FALSE
INVARIANTS
    SagaInv
    CreditedOncePerKey
    RetryBudget
    ExactlyOnceWithoutFaults
PROPERTIES
    StatusFlow
