CONSTANTS
    b1 = b1
    b2 = b2
    b3 = b3
    f1 = f1
    f2 = f2
    None = None
    Branches <- BranchNames
    Files <- FileNames
    Histories <- BranchHistories
    Requests <- Orders
SPECIFICATION Spec
CHECK_DEADLOCK FALSE
INVARIANTS
    AbortUndone
    WorkSurvives
    SuccessMeansMerged
PROPERTY OnlyStagingMoves
