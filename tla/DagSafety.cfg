\* Every acyclic graph over four tasks, two at a time, no worktrees; any
\* callback, event handler or set-up may raise.
SPECIFICATION Spec
SYMMETRY TaskSymmetry
CONSTANTS
    Tasks = {t1, t2, t3, t4}
    MaxParallel = 2
    Branches = {}
    NoBranch = NoBranch
    Branch <- PlainBranch
    MergeFrom <- NoMerges
    KeepOnSuccess = {}
    DropOnFailure = {}
    Raising = {t1, t2, t3, t4}
INVARIANTS
    VerdictsAgree
    BlockedForCause
    EveryTaskCounted
    ReportedOnce
