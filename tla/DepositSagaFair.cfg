CONSTANTS
    Deposit = {d1}
    d1 = d1
    MaxRetry = 2
    DropReplies = FALSE
    MaxTxRows = 3
    MaxUserRows = 5
    MaxFaults = 1
SPECIFICATION FairSpec
CHECK_DEADLOCK FALSE
PROPERTIES
    PaidIsSettled
    CreditIsNotified
