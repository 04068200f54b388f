------------------------------ MODULE Compare ------------------------------
(***************************************************************************)
(* grind compare, grind/compare.py, with the steps of                      *)
(* grind/worktree.py that it takes: one coroutine for each model creates a *)
(* worktree, grinds in it and removes it again.  An action is what a       *)
(* coroutine does between two awaits with the git command it awaits.       *)
(***************************************************************************)
EXTENDS FiniteSets

CONSTANTS
    Models,     \* session.models
    Ids,        \* the sanitized names, in directories and in branches
    Name        \* _sanitize_model: several models may have one name

ASSUME CompareAssumption == Name \in [Models -> Ids]

VARIABLES
    at,         \* where the coroutine of a model is
    status,     \* CompareResult.status
    main,       \* the life of run_compare
    dirs,       \* directories under .worktrees
    worktrees,  \* worktrees that git has on its list
    branches,   \* branches compare/<slug>/<name>
    before,     \* directories and branches there were at first (history)
    troubled    \* names for which git failed or was cut short (history)

worktreeVars == <<dirs, worktrees, branches>>
compareVars == <<at, status, main, worktreeVars, before, troubled>>

\* Leftovers of earlier comparisons: a directory without its worktree, a
\* worktree whose directory was deleted, a branch without both.
CompareInit ==
    /\ at = [m \in Models |-> "created"]
    /\ status = [m \in Models |-> "none"]
    /\ main = "awaiting"
    /\ dirs \in SUBSET Ids
    /\ branches \in SUBSET Ids
    /\ worktrees \in SUBSET branches
    /\ before = [dirs |-> dirs, branches |-> branches]
    /\ troubled = {}

Step(m, from, to) == at[m] = from /\ at' = [at EXCEPT ![m] = to]

\* Slip: what a failed set-up left is removed as well.
SetupFailsCleanly(m) ==
    /\ at' = [at EXCEPT ![m] = "removing"]
    /\ status' = [status EXCEPT ![m] = "error"]

\* "Worktree setup failed": the result is returned, and nothing is removed.
SetupFails(m) ==
    /\ at' = [at EXCEPT ![m] = "ended"]
    /\ status' = [status EXCEPT ![m] = "error"]

---------------------------------------------------------------------------
(* WorktreeManager.create.                                                 *)

CheckPath(m) ==
    /\ at[m] = "created"
    /\ IF Name[m] \in dirs THEN SetupFails(m)
       ELSE Step(m, "created", "checking") /\ UNCHANGED status
    /\ UNCHANGED <<main, worktreeVars, before, troubled>>

CheckBranch(m) ==
    /\ at[m] = "checking"
    /\ IF Name[m] \in branches THEN SetupFails(m)
       ELSE Step(m, "checking", "adding") /\ UNCHANGED status
    /\ UNCHANGED <<main, worktreeVars, before, troubled>>

\* git worktree add refuses a branch or a directory that exists by now.
Taken(i) == i \in dirs \cup branches

Add(i) ==
    /\ dirs' = dirs \cup {i}
    /\ worktrees' = worktrees \cup {i}
    /\ branches' = branches \cup {i}

\* The command fails for a reason of its own: before it has made the branch,
\* after that, or, when a hook of the repository fails, after all is made.
AddFails(i) ==
    /\ troubled' = troubled \cup {i}
    /\ \/ UNCHANGED worktreeVars
       \/ branches' = branches \cup {i} /\ UNCHANGED <<dirs, worktrees>>
       \/ Add(i)

AddWorktree(m) ==
    /\ at[m] = "adding"
    /\ LET i == Name[m] IN
       \/ Taken(i) /\ SetupFails(m) /\ UNCHANGED <<worktreeVars, troubled>>
       \/ ~Taken(i) /\ SetupFails(m) /\ AddFails(i)
       \/ ~Taken(i) /\ Step(m, "adding", "grinding") /\ Add(i) /\ UNCHANGED <<status, troubled>>
    /\ UNCHANGED <<main, before>>

---------------------------------------------------------------------------
(* grind() in the worktree.                                                *)

\* Slip: the worktree of a failed run is kept, as worktree tasks keep theirs.
AfterGrindIfComplete(s) == IF s = "complete" THEN "removing" ELSE "ended"

\* Every run is cleaned up, whatever its status.
AfterGrind(s) == "removing"

\* grind() returns, raises, or is cut short by the time limit.
GrindEnds(m) ==
    /\ at[m] = "grinding"
    /\ \E s \in {"complete", "stuck", "error", "timeout"} :
         /\ status' = [status EXCEPT ![m] = s]
         /\ at' = [at EXCEPT ![m] = AfterGrind(s)]
    /\ UNCHANGED <<main, worktreeVars, before, troubled>>

\* The agent's client is closed: the cancellation goes on, or grind() makes
\* a result of an error met on the way.
LeaveGrind(m) ==
    /\ Step(m, "leaving", "removing")
    /\ \E s \in {"none", "error"} : status' = [status EXCEPT ![m] = s]
    /\ UNCHANGED <<main, worktreeVars, before, troubled>>

---------------------------------------------------------------------------
(* _cleanup_worktree_and_branch.                                           *)

\* git worktree remove --force.  What is no working tree is let pass; a
\* failure, which is logged, leaves all as it was, or the directory alone.
RemoveWorktree(m) ==
    /\ Step(m, "removing", "pruning")
    /\ LET i == Name[m] IN
       \/ /\ worktrees' = worktrees \ {i}
          /\ dirs' = IF i \in worktrees THEN dirs \ {i} ELSE dirs
          /\ UNCHANGED troubled
       \/ /\ worktrees' \in {worktrees, worktrees \ {i}}
          /\ troubled' = troubled \cup {i}
          /\ UNCHANGED dirs
    /\ UNCHANGED <<status, main, branches, before>>

\* git worktree prune forgets all worktrees whose directory is missing.
Prune(m) ==
    /\ Step(m, "pruning", "deleting")
    /\ worktrees' = worktrees \cap dirs
    /\ UNCHANGED <<status, main, dirs, branches, before, troubled>>

\* git branch -D refuses a branch that is checked out; its exit code is not
\* looked at.  Behind it the result is returned, or the cancellation goes on.
DeleteBranch(m) ==
    /\ Step(m, "deleting", IF status[m] = "none" THEN "cancelled" ELSE "ended")
    /\ \/ /\ branches' = IF Name[m] \in worktrees THEN branches ELSE branches \ {Name[m]}
          /\ UNCHANGED troubled
       \/ /\ troubled' = troubled \cup {Name[m]}
          /\ UNCHANGED branches
    /\ UNCHANGED <<status, main, dirs, worktrees, before>>

---------------------------------------------------------------------------
(* run_compare.                                                            *)

Ended == {m \in Models : at[m] \in {"ended", "cancelled"}}

\* Every result is there; or asyncio.run has nothing left to wait for.
Return ==
    /\ Ended = Models
    /\ \/ main = "awaiting" /\ main' = "returned"
       \/ main = "closing" /\ main' = "cancelled"
    /\ UNCHANGED <<at, status, worktreeVars, before, troubled>>

Named(point) == {Name[m] : m \in {n \in Models : at[n] = point}}

\* What the git commands that are awaited did when they are cut short: they
\* are not waited for, and had their effect, a part of it, or none.
Interrupted ==
    \E made \in SUBSET {i \in Named("adding") : ~Taken(i)},
       removed \in SUBSET (Named("removing") \cap worktrees),
       deleted \in SUBSET (Named("deleting") \ worktrees) :
      \E added \in SUBSET made,
         unlisted \in SUBSET (removed \cup IF Named("pruning") = {} THEN {} ELSE worktrees \ dirs) :
        /\ dirs' = (dirs \cup added) \ removed
        /\ worktrees' = (worktrees \cup added) \ unlisted
        /\ branches' = (branches \cup made) \ deleted

\* A cancellation takes a grind out through what it has to close, and from
\* there into the finally clause.  A set-up or a removal stops where it is:
\* no handler of theirs takes a CancelledError.
WhenCancelled(point) ==
    IF point = "grinding" THEN "leaving"
    ELSE IF point = "leaving" THEN "removing"
    ELSE IF point = "ended" THEN "ended" ELSE "cancelled"

CancelEach ==
    /\ at' = [m \in Models |-> WhenCancelled(at[m])]
    /\ troubled' = troubled \cup UNION {Named(p) : p \in {"adding", "removing", "pruning", "deleting"}}
    /\ Interrupted
    /\ UNCHANGED <<status, before>>

\* Ctrl-C: gather cancels every coroutine.
CancelAll ==
    /\ main = "awaiting"
    /\ main' = "cancelling"
    /\ CancelEach

\* gather raises as soon as one coroutine was cancelled, or when all have
\* ended, and run_compare with it; asyncio.run cancels the others once more.
CancelRest ==
    /\ main = "cancelling"
    /\ Ended = Models \/ \E m \in Models : at[m] = "cancelled"
    /\ main' = "closing"
    /\ CancelEach

---------------------------------------------------------------------------
ModelStep(m) ==
    \/ CheckPath(m) \/ CheckBranch(m) \/ AddWorktree(m)
    \/ GrindEnds(m) \/ LeaveGrind(m)
    \/ RemoveWorktree(m) \/ Prune(m) \/ DeleteBranch(m)

CompareNext == (\E m \in Models : ModelStep(m)) \/ Return \/ CancelAll \/ CancelRest

CompareSpec == CompareInit /\ [][CompareNext]_compareVars

---------------------------------------------------------------------------
(* Properties.                                                             *)

Points ==
    {"created", "checking", "adding", "grinding", "leaving", "removing", "pruning", "deleting",
     "ended", "cancelled"}

CompareTypeOK ==
    /\ at \in [Models -> Points]
    /\ status \in [Models -> {"none", "complete", "stuck", "error", "timeout"}]
    /\ main \in {"awaiting", "returned", "cancelling", "closing", "cancelled"}
    /\ dirs \subseteq Ids /\ worktrees \subseteq branches /\ branches \subseteq Ids
    /\ troubled \subseteq Ids
    /\ before \in [dirs : SUBSET Ids, branches : SUBSET Ids]

\* A model grinds in a worktree that is there, and that is its own: no other
\* model of the same name grinds in it, nor removes it, nor deletes its
\* branch meanwhile.
GrindsInOwnWorktree ==
    \A m \in Models : at[m] \in {"grinding", "leaving"} =>
        /\ Name[m] \in dirs \cap worktrees \cap branches
        /\ \A n \in Models \ {m} :
             at[n] \in {"grinding", "leaving", "removing", "pruning", "deleting"} => Name[n] # Name[m]

\* When all coroutines have ended, directories and branches are those there
\* were before, except under names for which a git command failed, or whose
\* set-up or removal a cancellation cut short: a failed model does not block a
\* retry.  Ctrl-C while a model grinds is none of these; that another one is
\* cancelled before its removal is over, is.
LeavesNoTrace ==
    main \in {"returned", "cancelled"} =>
        /\ dirs \ troubled = before.dirs \ troubled
        /\ branches \ troubled = before.branches \ troubled
=============================================================================
