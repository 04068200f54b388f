\* Every acyclic graph over three tasks, of which two claim the same branch;
\* worktrees and branches may be left over from an earlier execution.
\* No symmetry: liveness is checked.
SPECIFICATION Spec
CONSTANTS
    t1 = t1
    t2 = t2
    t3 = t3
    b1 = b1
    b2 = b2
    Tasks = {t1, t2, t3}
    MaxParallel = 2
    Branches = {b1, b2}
    NoBranch = NoBranch
    Branch <- SharedBranch
    MergeFrom <- MergeUpstream
    KeepOnSuccess = {t2}
    DropOnFailure = {t2}
    Raising = {t1, t2, t3}
INVARIANTS
    WorksInOwnWorktree
    FailedWorktreeKept
PROPERTIES
    Terminates
    ImplementsSchedule
\* An execution that can go on no further is a violation of Terminates.
CHECK_DEADLOCK FALSE
