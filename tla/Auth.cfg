CONSTANTS
    Request = {r1, r2}
    Limit = 2
    MaxCodes = 2
    MaxTokens = 2
SPECIFICATION Spec
SYMMETRY RequestSymmetry
INVARIANTS
    GuessBudget
    CodesExpire
    AcceptedCodeLeavesNothing
    SpentTokensStaySpent
    NoTokenAfterDeletion
CHECK_DEADLOCK FALSE
