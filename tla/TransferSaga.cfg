CONSTANTS
    Transfer = {t2}
    Account = {ann, bob}
    t1 = t1
    t2 = t2
    ann = ann
    bob = bob
    Consumer = {c1, c2}
    c1 = c1
    c2 = c2
    From <- MCFrom
    To <- MCTo
    Amount <- MCAmount
    InitialBalance <- MCInitialBalance
    MaxRetry = 2
    FaultKinds = {"republish", "redelivery", "rebalance", "crash", "lostAnswer", "dropReply"}
    MaxTxRows = 3
    MaxUserRows = 3
    MaxFaults = 2
SPECIFICATION Spec
SYMMETRY ConsumerSymmetry
INVARIANTS
    SagaInv
    BalancesExplained
    RetryBudget
    MovesAreExplained
PROPERTIES
    OutcomeIsFinal
CHECK_DEADLOCK FALSE
