\* Every acyclic graph over three tasks, of which two claim the same branch;
\* worktrees and branches may be left over from an earlier execution.
SPECIFICATION Spec
CONSTANTS
    t1 = t1
    t2 = t2
    t3 = t3
    b1 = b1
    b2 = b2
    Tasks = {t1, t2, t3}
    MaxParallel = 2
    Branches = {b1, b2}
    NoBranch = NoBranch
    Branch <- SharedBranch
    MergeFrom <- MergeUpstream
    KeepOnSuccess = {t2}
    DropOnFailure = {t2}
    Raising = {}
INVARIANTS
    MergeConflictFailsTask
