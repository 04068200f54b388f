---------------------------- MODULE DagExecutorMC ----------------------------
(* Instances of DagExecutor for TLC in which no task has a worktree.        *)
EXTENDS DagExecutor

PlainBranch == [t \in Tasks |-> NoBranch]
NoMerges == [t \in Tasks |-> {}]

(* Tasks are interchangeable where none has a configuration of its own.     *)
TaskSymmetry == Permutations(Tasks)

==============================================================================
