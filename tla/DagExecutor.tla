----------------------------- MODULE DagExecutor -----------------------------
(****************************************************************************)
(* DAGExecutor.execute (grind/dag.py): the tasks of a validated graph are   *)
(* run in waves.  One wave is every pending task whose dependencies have    *)
(* completed; asyncio.gather waits for the whole wave, a semaphore bounds   *)
(* how many of its tasks run at once, and tasks that rest on an             *)
(* unsuccessful one are marked blocked before the next wave.  An action is  *)
(* what a coroutine does between two awaits.                                *)
(****************************************************************************)
EXTENDS Naturals, FiniteSets, Sequences, SequencesExt, DependencyGraph

CONSTANTS
    Tasks,         \* graph.nodes
    MaxParallel,   \* execute's max_parallel
    Branches,      \* the branch names of the worktree configurations
    NoBranch,      \* stands for a task without a worktree configuration
    Branch,        \* Branch[t]: node.worktree.branch, or NoBranch
    MergeFrom,     \* MergeFrom[t]: the branches of node.worktree.merge_from
    KeepOnSuccess, \* tasks with cleanup_on_success false
    DropOnFailure, \* tasks with cleanup_on_failure true
    Raising        \* tasks for which a callback, an event handler, the
                   \* set-up of grind() or the provider path may raise

ASSUME DagAssumption ==
    /\ IsFiniteSet(Tasks)
    /\ MaxParallel \in Nat \ {0}
    /\ NoBranch \notin Branches
    /\ Branch \in [Tasks -> Branches \cup {NoBranch}]
    /\ MergeFrom \in [Tasks -> SUBSET Branches]
    /\ KeepOnSuccess \subseteq Tasks
    /\ DropOnFailure \subseteq Tasks
    /\ Raising \subseteq Tasks

VARIABLES
    depends_on,      \* the dependencies of each node
    pending, execution_order, phase,                  \* locals of execute
    completed, stuck, max_iterations, failed, blocked, results,
    status,          \* node.status
    pc,              \* where each task's coroutine is suspended
    started,         \* tasks that on_task_start was called for
    notified,        \* how often on_task_complete was called for a task
    events,          \* the task events published for a task
    worktrees,       \* tasks whose directory under .worktrees exists
    branches,        \* branches of the repository
    unmerged         \* worktrees where merge_branches returned False

graphVars == <<depends_on>>
loopVars == <<pending, execution_order>>
verdictVars == <<completed, stuck, max_iterations, failed, blocked, results>>
reportVars == <<started, notified, events>>
gitVars == <<worktrees, branches, unmerged>>
vars == <<graphVars, loopVars, phase, verdictVars, status, pc, reportVars, gitVars>>

Outcomes == {"COMPLETE", "STUCK", "MAX_ITERATIONS", "ERROR"}
NoResult == "NoResult"
Statuses == {"pending", "running", "completed", "stuck", "max_iterations",
             "failed", "blocked"}
Phases == {"executing", "returned", "raised", "closed"}
Points == {"idle", "queued", "checking", "adding", "merging", "starting",
           "grinding", "cleaning", "reporting", "finished", "raised"}

Isolated(t) == Branch[t] # NoBranch

(* Slip: the semaphore is not released at the end of a task.                *)
HoldersUnreleased == {t \in Tasks : pc[t] \notin {"idle", "queued"}}

(* A task holds the semaphore from its acquisition to its end.              *)
Holders == {t \in Tasks : pc[t] \notin {"idle", "queued", "finished", "raised"}}

Unsuccessful == failed \cup stuck \cup max_iterations \cup blocked

TypeOK ==
    /\ depends_on \in AcyclicGraphs(Tasks)
    /\ pending \subseteq Tasks
    /\ execution_order \in Seq(Tasks)
    /\ phase \in Phases
    /\ completed \subseteq Tasks
    /\ stuck \subseteq Tasks
    /\ max_iterations \subseteq Tasks
    /\ failed \subseteq Tasks
    /\ blocked \subseteq Tasks
    /\ results \in [Tasks -> Outcomes \cup {NoResult}]
    /\ status \in [Tasks -> Statuses]
    /\ pc \in [Tasks -> Points]
    /\ started \subseteq Tasks
    /\ notified \in [Tasks -> Nat]
    /\ events \in [Tasks -> Seq({"TASK_STARTED", "TASK_COMPLETED", "TASK_FAILED"})]
    /\ worktrees \subseteq Tasks
    /\ branches \subseteq Branches
    /\ unmerged \subseteq Tasks

(* Worktrees and branches of an earlier execution may be left over.         *)
Init ==
    /\ depends_on \in AcyclicGraphs(Tasks)
    /\ pending = Tasks
    /\ execution_order = <<>>
    /\ phase = "executing"
    /\ completed = {} /\ stuck = {} /\ max_iterations = {}
    /\ failed = {} /\ blocked = {}
    /\ results = [t \in Tasks |-> NoResult]
    /\ status = [t \in Tasks |-> "pending"]
    /\ pc = [t \in Tasks |-> "idle"]
    /\ started = {}
    /\ notified = [t \in Tasks |-> 0]
    /\ events = [t \in Tasks |-> <<>>]
    /\ worktrees \in SUBSET {t \in Tasks : Isolated(t)}
    /\ branches \in SUBSET Branches
    /\ unmerged = {}

------------------------------------------------------------------------------
(* The execution loop.                                                      *)

(* Slips: _has_failed_dependencies that forgets the blocked set, or takes   *)
(* "not completed" for "failed".                                            *)
NewlyBlockedNotTransitive ==
    {t \in pending : depends_on[t] \cap (failed \cup stuck \cup max_iterations) # {}}
NewlyBlockedUnlessCompleted == {t \in pending : ~(depends_on[t] \subseteq completed)}

NewlyBlocked == {t \in pending : depends_on[t] \cap Unsuccessful # {}}

(* Slip: any() for all() in _dependencies_completed.                        *)
ReadyOnAny ==
    {t \in pending \ NewlyBlocked :
        depends_on[t] = {} \/ depends_on[t] \cap completed # {}}

Ready == {t \in pending \ NewlyBlocked : depends_on[t] \subseteq completed}

(* gather has returned, or no wave was started yet.                         *)
WaveOver == \A t \in Tasks : pc[t] \in {"idle", "finished"}

(* Slip: on_task_complete is not called for a blocked task.                 *)
MarkTasksBlockedSilently(S) ==
    /\ blocked' = blocked \cup S
    /\ status' = [t \in Tasks |-> IF t \in S THEN "blocked" ELSE status[t]]
    /\ results' = [t \in Tasks |-> IF t \in S THEN "ERROR" ELSE results[t]]
    /\ UNCHANGED <<completed, stuck, max_iterations, failed, started, notified, events>>

MarkTasksBlocked(S) ==
    /\ blocked' = blocked \cup S
    /\ status' = [t \in Tasks |-> IF t \in S THEN "blocked" ELSE status[t]]
    /\ results' = [t \in Tasks |-> IF t \in S THEN "ERROR" ELSE results[t]]
    /\ notified' = [t \in Tasks |-> IF t \in S THEN notified[t] + 1 ELSE notified[t]]
    /\ UNCHANGED <<completed, stuck, max_iterations, failed, started, events>>

(* Blocked tasks are marked and the next wave is handed to gather; the      *)
(* order of the wave is the iteration order of a Python set.                *)
ScheduleWave ==
    /\ phase = "executing"
    /\ WaveOver
    /\ NewlyBlocked \cup Ready # {}
    /\ MarkTasksBlocked(NewlyBlocked)
    /\ pending' = pending \ (NewlyBlocked \cup Ready)
    /\ \E wave \in SetToSeqs(Ready) : execution_order' = execution_order \o wave
    /\ pc' = [t \in Tasks |-> IF t \in Ready THEN "queued" ELSE pc[t]]
    /\ UNCHANGED <<graphVars, phase, gitVars>>

(* on_task_complete raises for one of the tasks being marked: the ones      *)
(* after it are not marked and execute raises.                              *)
MarkingRaises ==
    /\ phase = "executing"
    /\ WaveOver
    /\ \E S \in SUBSET NewlyBlocked :
           /\ S \cap Raising # {}
           /\ MarkTasksBlocked(S)
           /\ pending' = pending \ S
    /\ phase' = "raised"
    /\ UNCHANGED <<graphVars, execution_order, pc, gitVars>>

Return ==
    /\ phase = "executing"
    /\ WaveOver
    /\ NewlyBlocked \cup Ready = {}
    /\ phase' = "returned"
    /\ UNCHANGED <<graphVars, loopVars, verdictVars, status, pc, reportVars, gitVars>>

(* The exception leaves asyncio.run, which cancels the tasks that gather    *)
(* left behind: they take no further step.                                  *)
LoopCloses ==
    /\ phase = "raised"
    /\ phase' = "closed"
    /\ UNCHANGED <<graphVars, loopVars, verdictVars, status, pc, reportVars, gitVars>>

------------------------------------------------------------------------------
(* One task of the wave.                                                    *)

Goto(t, point) == pc' = [pc EXCEPT ![t] = point]

(* An exception of t's coroutine releases the semaphore and, through        *)
(* gather, raises in execute; its siblings keep running.                    *)
Raise(t) ==
    /\ t \in Raising
    /\ Goto(t, "raised")
    /\ phase' = "raised"

(* The last step: on_task_complete is called, and may raise.                *)
Notify(t) ==
    /\ notified' = [notified EXCEPT ![t] = @ + 1]
    /\ \/ Goto(t, "finished") /\ UNCHANGED phase
       \/ Raise(t)

SetupFails(t) ==
    /\ failed' = failed \cup {t}
    /\ status' = [status EXCEPT ![t] = "failed"]
    /\ results' = [results EXCEPT ![t] = "ERROR"]
    /\ Notify(t)
    /\ UNCHANGED <<completed, stuck, max_iterations, blocked, started, events>>

StartsRunning(t) ==
    /\ status' = [status EXCEPT ![t] = "running"]
    /\ Goto(t, "starting")
    /\ UNCHANGED <<phase, verdictVars, reportVars>>

(* On to the next git command.                                              *)
Proceeds(t, point) ==
    /\ Goto(t, point)
    /\ UNCHANGED <<phase, verdictVars, status, reportVars>>

(* The waiters of an asyncio.Semaphore are served in order of arrival.      *)
FirstInLine(t) ==
    \E i \in DOMAIN execution_order :
        /\ execution_order[i] = t
        /\ \A j \in 1..(i - 1) : pc[execution_order[j]] # "queued"

(* The semaphore is acquired.  A task with a worktree first looks for a     *)
(* directory of its name.                                                   *)
Acquire(t) ==
    /\ pc[t] = "queued"
    /\ FirstInLine(t)
    /\ Cardinality(Holders) < MaxParallel
    /\ \/ ~Isolated(t) /\ StartsRunning(t)
       \/ Isolated(t) /\ t \in worktrees /\ SetupFails(t)
       \/ Isolated(t) /\ t \notin worktrees /\ Proceeds(t, "checking")
    /\ UNCHANGED <<graphVars, loopVars, gitVars>>

(* git rev-parse --verify refs/heads/<branch>                               *)
CheckBranch(t) ==
    /\ pc[t] = "checking"
    /\ \/ Branch[t] \in branches /\ SetupFails(t)
       \/ Branch[t] \notin branches /\ Proceeds(t, "adding")
    /\ UNCHANGED <<graphVars, loopVars, gitVars>>

(* Slip: git worktree add -B, which takes a branch over.                    *)
AddWorktreeTakingOver(t) ==
    /\ pc[t] = "adding"
    /\ worktrees' = worktrees \cup {t}
    /\ branches' = branches \cup {Branch[t]}
    /\ \/ MergeFrom[t] = {} /\ StartsRunning(t)
       \/ MergeFrom[t] # {} /\ Proceeds(t, "merging")
    /\ UNCHANGED <<graphVars, loopVars, unmerged>>

(* git worktree add <path> -b <branch> <base>: fails when the branch was    *)
(* created since the check, and for reasons of git's own.                   *)
AddWorktree(t) ==
    /\ pc[t] = "adding"
    /\ \/ SetupFails(t) /\ UNCHANGED gitVars
       \/ /\ Branch[t] \notin branches
          /\ worktrees' = worktrees \cup {t}
          /\ branches' = branches \cup {Branch[t]}
          /\ UNCHANGED unmerged
          /\ \/ MergeFrom[t] = {} /\ StartsRunning(t)
             \/ MergeFrom[t] # {} /\ Proceeds(t, "merging")
    /\ UNCHANGED <<graphVars, loopVars>>

(* merge_branches stops at the first merge that fails and returns False;    *)
(* _setup_worktree does not look at what it returned.                       *)
MergeBranches(t) ==
    /\ pc[t] = "merging"
    /\ \/ MergeFrom[t] \subseteq branches /\ UNCHANGED unmerged
       \/ unmerged' = unmerged \cup {t}
    /\ StartsRunning(t)
    /\ UNCHANGED <<graphVars, loopVars, worktrees, branches>>

(* TASK_STARTED is published, on_task_start called, grind() entered.        *)
Announce(t) ==
    /\ pc[t] = "starting"
    /\ events' = [events EXCEPT ![t] = Append(@, "TASK_STARTED")]
    /\ \/ started' = started \cup {t} /\ Goto(t, "grinding") /\ UNCHANGED phase
       \/ started' \in {started, started \cup {t}} /\ Raise(t)
    /\ UNCHANGED <<graphVars, loopVars, verdictVars, status, notified, gitVars>>

(* Slip: cleanup_on_failure is not consulted.                               *)
ShouldCleanAlways(t, success) == Isolated(t) /\ (success => t \notin KeepOnSuccess)

ShouldClean(t, success) ==
    Isolated(t) /\ IF success THEN t \notin KeepOnSuccess ELSE t \in DropOnFailure

With(S, t, joins) == IF joins THEN S \cup {t} ELSE S

StatusFor == [COMPLETE |-> "completed", STUCK |-> "stuck",
              MAX_ITERATIONS |-> "max_iterations", ERROR |-> "failed"]

(* Slip: an unlisted outcome is recorded without its status.                *)
UpdateTaskStatusPartly(t, outcome) ==
    /\ completed' = With(completed, t, outcome = "COMPLETE")
    /\ stuck' = With(stuck, t, outcome = "STUCK")
    /\ failed' = With(failed, t, outcome \in {"ERROR", "MAX_ITERATIONS"})
    /\ status' = [status EXCEPT ![t] = StatusFor[outcome]]
    /\ UNCHANGED max_iterations

UpdateTaskStatus(t, outcome) ==
    /\ completed' = With(completed, t, outcome = "COMPLETE")
    /\ stuck' = With(stuck, t, outcome = "STUCK")
    /\ max_iterations' = With(max_iterations, t, outcome = "MAX_ITERATIONS")
    /\ failed' = With(failed, t, outcome = "ERROR")
    /\ status' = [status EXCEPT ![t] = StatusFor[outcome]]

(* grind() returns; the verdict is recorded before the next await.          *)
GrindReturns(t) ==
    /\ pc[t] = "grinding"
    /\ \E outcome \in Outcomes :
           /\ results' = [results EXCEPT ![t] = outcome]
           /\ UpdateTaskStatus(t, outcome)
           /\ Goto(t, IF ShouldClean(t, outcome = "COMPLETE")
                      THEN "cleaning" ELSE "reporting")
    /\ UNCHANGED <<graphVars, loopVars, phase, blocked, reportVars, gitVars>>

(* grind() itself raises: on the provider path nothing is caught.           *)
GrindRaises(t) ==
    /\ pc[t] = "grinding"
    /\ Raise(t)
    /\ UNCHANGED <<graphVars, loopVars, verdictVars, status, reportVars, gitVars>>

(* git worktree remove refuses a worktree with local changes; the error is  *)
(* swallowed.                                                               *)
CleanupWorktree(t) ==
    /\ pc[t] = "cleaning"
    /\ worktrees' \in {worktrees, worktrees \ {t}}
    /\ Goto(t, "reporting")
    /\ UNCHANGED <<graphVars, loopVars, phase, verdictVars, status, reportVars,
                   branches, unmerged>>

(* The final event is published and on_task_complete called.                *)
Report(t) ==
    /\ pc[t] = "reporting"
    /\ events' = [events EXCEPT ![t] = Append(@,
                     IF results[t] = "COMPLETE" THEN "TASK_COMPLETED" ELSE "TASK_FAILED")]
    /\ \/ Notify(t)
       \/ Raise(t) /\ UNCHANGED notified
    /\ UNCHANGED <<graphVars, loopVars, verdictVars, status, started, gitVars>>

RunSingleTask(t) ==
    \/ Acquire(t) \/ CheckBranch(t) \/ AddWorktree(t) \/ MergeBranches(t)
    \/ Announce(t) \/ GrindReturns(t) \/ GrindRaises(t)
    \/ CleanupWorktree(t) \/ Report(t)

TaskStep(t) == phase \in {"executing", "raised"} /\ RunSingleTask(t)

Loop == ScheduleWave \/ MarkingRaises \/ Return \/ LoopCloses

(* Nothing happens after execute returned or the event loop was closed.     *)
Over == phase \in {"returned", "closed"} /\ UNCHANGED vars

Next == Loop \/ (\E t \in Tasks : TaskStep(t)) \/ Over

(* The event loop runs every coroutine that can go on, and grind() returns: *)
(* its queries and responses are under timeouts and its iterations bounded. *)
Fairness == WF_vars(Loop) /\ \A t \in Tasks : WF_vars(TaskStep(t))

Spec == Init /\ [][Next]_vars /\ Fairness

(* The process exit code of the dag command (cli.py _get_dag_exit_code).    *)
DagExitCode ==
    IF completed = Tasks THEN 0
    ELSE IF failed \cup blocked # {} THEN 1
    ELSE IF max_iterations # {} THEN 3
    ELSE IF stuck # {} THEN 2
    ELSE 1

------------------------------------------------------------------------------
(* Properties.                                                              *)

(* The five outcome sets are disjoint and say the same as the results and   *)
(* the node's status: the three records that _update_task_status, the       *)
(* worktree failure path and _mark_tasks_blocked keep never disagree.       *)
VerdictsAgree ==
    \A t \in Tasks :
        /\ results[t] = "COMPLETE" <=> t \in completed
        /\ results[t] = "STUCK" <=> t \in stuck
        /\ results[t] = "MAX_ITERATIONS" <=> t \in max_iterations
        /\ results[t] = "ERROR" <=> t \in failed \cup blocked
        /\ ~(t \in failed /\ t \in blocked)
        /\ t \in completed <=> status[t] = "completed"
        /\ t \in stuck <=> status[t] = "stuck"
        /\ t \in max_iterations <=> status[t] = "max_iterations"
        /\ t \in failed <=> status[t] = "failed"
        /\ t \in blocked <=> status[t] = "blocked"

(* Once its coroutine exists, a task has every dependency completed: no     *)
(* interleaving of a wave's tasks starts one on an unsuccessful base.       *)
RunsAfterDependencies ==
    \A t \in Tasks : pc[t] # "idle" => depends_on[t] \subseteq completed

(* A task is blocked only if something it rests on, however far down, was   *)
(* run and did not succeed: blame always leads to a task that really ran.   *)
BlockedForCause ==
    \A t \in blocked :
        Ancestors(depends_on, t) \cap (failed \cup stuck \cup max_iterations) # {}

(* The semaphore: at most max_parallel tasks set up, run, clean up or       *)
(* report at once, also while an exception is unwinding the execution.      *)
BoundedParallelism == Cardinality(Holders) <= MaxParallel

(* When execute returns, every task of the graph is in exactly one of the   *)
(* five counts of DAGResult: the loop's break leaves nothing pending.  Then *)
(* exit code 0 says that grind() reported COMPLETE for every task, and      *)
(* codes 2 and 3 that a task which was stuck or out of iterations had no    *)
(* dependents.                                                              *)
EveryTaskCounted ==
    phase = "returned" =>
        /\ pending = {}
        /\ Tasks = completed \cup Unsuccessful
        /\ Cardinality(completed) + Cardinality(stuck) + Cardinality(max_iterations)
             + Cardinality(failed) + Cardinality(blocked) = Cardinality(Tasks)
        /\ DagExitCode = 0 <=> \A t \in Tasks : results[t] = "COMPLETE"
        /\ DagExitCode \in {2, 3} =>
               \A t \in Tasks : depends_on[t] \cap Unsuccessful = {}

(* A caller that counts callbacks or events sees every task end once: each  *)
(* one completes on_task_complete once, and a task that announced its start *)
(* announced an end of the right kind.                                      *)
Lifecycle(t) ==
    CASE t \in completed -> <<"TASK_STARTED", "TASK_COMPLETED">>
      [] t \in started \ completed -> <<"TASK_STARTED", "TASK_FAILED">>
      [] OTHER -> <<>>

ReportedOnce ==
    phase = "returned" =>
        \A t \in Tasks : notified[t] = 1 /\ events[t] = Lifecycle(t)

(* A task with a worktree configuration works in its own directory, on a    *)
(* branch that no other task of this execution works on.                    *)
WorksInOwnWorktree ==
    \A t \in Tasks :
        Isolated(t) /\ pc[t] \in {"merging", "starting", "grinding"} =>
            /\ t \in worktrees
            /\ Branch[t] \in branches
            /\ \A u \in Tasks \ {t} :
                   pc[u] \in {"merging", "starting", "grinding"} => Branch[u] # Branch[t]

(* With cleanup_on_failure off, the worktree of a task that ran and did not *)
(* succeed is there to be inspected when execute returns.                   *)
FailedWorktreeKept ==
    \A t \in started \ DropOnFailure :
        Isolated(t) /\ t \in Unsuccessful => t \in worktrees

(* A verdict is final: no later step, and no later wave, takes a task out   *)
(* of the set it was put in or replaces its result.                         *)
VerdictsFinal ==
    [][/\ \A t \in Tasks : results[t] # NoResult => results'[t] = results[t]
       /\ completed \subseteq completed'
       /\ Unsuccessful \subseteq Unsuccessful']_vars

(* execute returns, or raises: no wave waits for ever on the semaphore.     *)
Terminates == <>(phase \in {"returned", "closed"})

(* What the tasks look like from outside.  A coroutine that raised before   *)
(* its verdict counts as unsuccessful.                                      *)
Verdict(t) ==
    IF t \in completed THEN "succeeded"
    ELSE IF t \in blocked THEN "blocked"
    ELSE IF t \in Unsuccessful \/ pc[t] = "raised" THEN "unsuccessful"
    ELSE IF pc[t] \in {"idle", "queued"} THEN "waiting"
    ELSE "running"

Schedule == INSTANCE DagSchedule
    WITH verdict <- [t \in Tasks |-> Verdict(t)], halted <- (phase = "closed")

(* The waves, the semaphore and the worktree set-up implement the schedule  *)
(* that DagSchedule promises.                                               *)
ImplementsSchedule == Schedule!Spec

(* docs/guide/git-worktrees.md:409: "If `merge_from` causes conflicts, the  *)
(* task will fail."                                                         *)
MergeConflictFailsTask == \A t \in Tasks : t \in unmerged => t \notin completed

==============================================================================
