CONSTANTS
    Transfer = {t2}
    Account = {ann, bob}
    t1 = t1
    t2 = t2
    ann = ann
    bob = bob
    Consumer = {c1}
    c1 = c1
    From <- MCFrom
    To <- MCTo
    Amount <- MCAmount
    InitialBalance <- MCInitialBalance
    MaxRetry = 2
    FaultKinds = {"republish", "redelivery", "crash"}
    MaxTxRows = 3
    MaxUserRows = 5
    MaxFaults = 1
SPECIFICATION FairSpec
PROPERTIES
    TransferIsSettled
    MoveIsNotified
CHECK_DEADLOCK FALSE
