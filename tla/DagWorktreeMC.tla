---------------------------- MODULE DagWorktreeMC ----------------------------
(* An instance of DagExecutor for TLC with worktrees: two tasks claim the   *)
(* same branch, a third has one of its own and merges the first's into it.  *)
EXTENDS DagExecutor

CONSTANTS t1, t2, t3, b1, b2

SharedBranch == t1 :> b1 @@ t2 :> b1 @@ t3 :> b2
MergeUpstream == t1 :> {} @@ t2 :> {} @@ t3 :> {b1}

==============================================================================
