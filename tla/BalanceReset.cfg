CONSTANTS
    Accounts = 2
    there = there
    back = back
    topUp = topUp
    Deposit = {topUp}
    Transfer = {there, back}
    From <- MCFrom
    To <- MCTo
    Amount <- MCAmount
    InitialBalance <- MCInitialBalance
    MaxBegun = 2
    Reset <- MCReset
    Job = {j}
    j = j
    Attempts = 2
    Retries = 1
    MaxCalls = 6
    MaxFaults = 1
SPECIFICATION FairSpec
INVARIANTS
    NeverOverdrawn
    NoDeadlockWithoutReset
    ResetsAreExplained
    NoLateReset
PROPERTIES
    JobEnds
CHECK_DEADLOCK FALSE
