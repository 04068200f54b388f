-------------------------- MODULE DagExecutorProofs --------------------------
(****************************************************************************)
(* Theorems about DagExecutor for every set of tasks, every acyclic graph,  *)
(* every max_parallel and every worktree configuration.                     *)
(****************************************************************************)
EXTENDS DagExecutor, FiniteSetTheorems, WellFoundedInduction, TLAPS

USE DagAssumption

Ran == completed \cup failed \cup stuck \cup max_iterations

(* Where a task is tells what is known of it: pending tasks have no         *)
(* coroutine yet, blocked ones never get one, and a task has the verdict of *)
(* a run exactly once its coroutine is past grind() or a failed set-up.     *)
(* Only tasks with a worktree configuration are in the git steps.           *)
Placement ==
    \A t \in Tasks :
        /\ t \in pending => pc[t] = "idle"
        /\ t \in blocked => pc[t] = "idle" /\ t \notin pending
        /\ pc[t] = "idle" /\ t \notin pending => t \in blocked
        /\ t \in Ran => pc[t] \in {"cleaning", "reporting", "finished", "raised"}
        /\ pc[t] \in {"cleaning", "reporting", "finished"} => t \in Ran
        /\ pc[t] \in {"checking", "adding", "merging"} => Isolated(t)

(* execute returns only after its last wave, with nothing pending.          *)
AfterReturn == phase = "returned" => WaveOver /\ pending = {}

(* The inductive invariant.                                                 *)
DagInv ==
    /\ TypeOK
    /\ Placement
    /\ VerdictsAgree
    /\ RunsAfterDependencies
    /\ AfterReturn

------------------------------------------------------------------------------
(* A wave is a sequence of tasks.                                           *)
LEMMA WaveType ==
    ASSUME NEW S \in SUBSET Tasks, NEW wave \in SetToSeqs(S)
    PROVE  wave \in Seq(Tasks)
<1>1. IsFiniteSet(S)
  BY FS_Subset
<1>2. Cardinality(S) \in Nat
  BY <1>1, FS_CardinalityType
<1>3. wave \in [1..Cardinality(S) -> S]
  BY DEF SetToSeqs
<1> QED
  BY <1>2, <1>3

(* The initial states satisfy the invariant.                                *)
LEMMA InitInv == Init => DagInv
<1> SUFFICES ASSUME Init PROVE DagInv
  OBVIOUS
<1>1. TypeOK
  BY DEF Init, TypeOK, Phases, Outcomes, Statuses, Points, AcyclicGraphs
<1>2. Placement /\ VerdictsAgree /\ RunsAfterDependencies /\ AfterReturn
  BY DEF Init, Placement, Ran, VerdictsAgree, RunsAfterDependencies, AfterReturn,
         NoResult
<1> QED
  BY <1>1, <1>2 DEF DagInv


(* Marking a set of pending tasks as blocked.                               *)
LEMMA MarkingInv ==
    ASSUME DagInv, NEW S \in SUBSET NewlyBlocked, MarkTasksBlocked(S),
           UNCHANGED <<graphVars, gitVars>>,
           pending' \subseteq pending \ S,
           pc' \in [Tasks -> Points],
           phase' \in Phases, execution_order' \in Seq(Tasks)
    PROVE  TypeOK' /\ VerdictsAgree'
<1>1. S \subseteq Tasks /\ S \subseteq pending
  BY DEF NewlyBlocked, DagInv, TypeOK
<1>2. \A t \in S : pc[t] = "idle" /\ t \notin Ran /\ t \notin blocked
  BY <1>1 DEF DagInv, Placement
<1>3. TypeOK'
  BY <1>1 DEF DagInv, TypeOK, MarkTasksBlocked, graphVars, gitVars, Outcomes, Statuses
<1>4. VerdictsAgree'
  BY <1>1, <1>2 DEF DagInv, TypeOK, VerdictsAgree, MarkTasksBlocked, Ran
<1> QED
  BY <1>3, <1>4

LEMMA ScheduleWaveInv == DagInv /\ ScheduleWave => DagInv'
<1> SUFFICES ASSUME DagInv, ScheduleWave PROVE DagInv'
  OBVIOUS
<1>0. /\ TypeOK
      /\ NewlyBlocked \subseteq pending
      /\ Ready \subseteq pending
      /\ NewlyBlocked \cap Ready = {}
  BY DEF DagInv, TypeOK, NewlyBlocked, Ready
<1>1. pc' \in [Tasks -> Points] /\ phase' = phase
  BY <1>0 DEF ScheduleWave, TypeOK, Points
<1>2. execution_order' \in Seq(Tasks)
  <2>1. PICK wave \in SetToSeqs(Ready) : execution_order' = execution_order \o wave
    BY DEF ScheduleWave
  <2>2. wave \in Seq(Tasks)
    BY <1>0, <2>1, WaveType DEF TypeOK
  <2> QED
    BY <1>0, <2>1, <2>2 DEF TypeOK
<1>3. TypeOK' /\ VerdictsAgree'
  BY <1>0, <1>1, <1>2, MarkingInv DEF ScheduleWave, TypeOK
<1>4. Placement'
  BY <1>0 DEF DagInv, TypeOK, Placement, Ran, ScheduleWave, MarkTasksBlocked, Points
<1>5. RunsAfterDependencies'
  BY <1>0 DEF DagInv, TypeOK, RunsAfterDependencies, ScheduleWave, MarkTasksBlocked,
              Ready, graphVars
<1>6. AfterReturn'
  BY DEF ScheduleWave, AfterReturn
<1> QED
  BY <1>3, <1>4, <1>5, <1>6 DEF DagInv

LEMMA MarkingRaisesInv == DagInv /\ MarkingRaises => DagInv'
<1> SUFFICES ASSUME DagInv, MarkingRaises PROVE DagInv'
  OBVIOUS
<1>1. PICK S \in SUBSET NewlyBlocked : MarkTasksBlocked(S) /\ pending' = pending \ S
  BY DEF MarkingRaises
<1>2. TypeOK /\ NewlyBlocked \subseteq pending
  BY DEF DagInv, TypeOK, NewlyBlocked
<1>3. TypeOK' /\ VerdictsAgree'
  BY <1>1, <1>2, MarkingInv DEF MarkingRaises, TypeOK, Phases
<1>4. Placement'
  BY <1>1, <1>2 DEF DagInv, TypeOK, Placement, Ran, MarkingRaises, MarkTasksBlocked
<1>5. RunsAfterDependencies' /\ AfterReturn'
  BY <1>1, <1>2 DEF DagInv, RunsAfterDependencies, AfterReturn, MarkingRaises,
                    MarkTasksBlocked, graphVars
<1> QED
  BY <1>3, <1>4, <1>5 DEF DagInv

(* The loop's break leaves nothing pending: of the tasks still pending, the *)
(* acyclic graph has one that depends on none of the others, and that one   *)
(* is ready or newly blocked.                                               *)
LEMMA NothingLeft ==
    ASSUME DagInv, WaveOver, NewlyBlocked \cup Ready = {}
    PROVE  pending = {}
<1> SUFFICES ASSUME pending # {} PROVE FALSE
  OBVIOUS
<1>1. PICK t \in pending : depends_on[t] \cap pending = {}
  BY DEF DagInv, TypeOK, AcyclicGraphs, Acyclic
<1>2. t \in Tasks /\ depends_on[t] \subseteq Tasks
  BY <1>1 DEF DagInv, TypeOK, AcyclicGraphs
<1>3. \A d \in depends_on[t] : d \in completed \cup Unsuccessful
  BY <1>1, <1>2 DEF WaveOver, DagInv, Placement, Ran, Unsuccessful
<1>4. CASE depends_on[t] \subseteq completed
  BY <1>1, <1>4 DEF NewlyBlocked, Ready
<1>5. CASE ~(depends_on[t] \subseteq completed)
  BY <1>1, <1>3, <1>5 DEF NewlyBlocked
<1> QED
  BY <1>4, <1>5

LEMMA ReturnInv == DagInv /\ Return => DagInv'
<1> SUFFICES ASSUME DagInv, Return PROVE DagInv'
  OBVIOUS
<1>1. pending = {}
  BY NothingLeft DEF Return
<1> QED
  BY <1>1 DEF DagInv, Return, TypeOK, Placement, Ran, VerdictsAgree,
     RunsAfterDependencies, AfterReturn, WaveOver, Phases, graphVars, loopVars,
     verdictVars, reportVars, gitVars

LEMMA LoopClosesInv == DagInv /\ LoopCloses => DagInv'
BY DEF DagInv, LoopCloses, TypeOK, Placement, Ran, VerdictsAgree,
     RunsAfterDependencies, AfterReturn, WaveOver, Phases, graphVars, loopVars,
     verdictVars, reportVars, gitVars

------------------------------------------------------------------------------
(* The steps of a task.  Three of them are shared by several actions.       *)

InSetup(t) == pc[t] \in {"queued", "checking", "adding", "merging"}

GitTyped == worktrees \subseteq Tasks /\ branches \subseteq Branches /\ unmerged \subseteq Tasks

LEMMA SetupFailsInv ==
    ASSUME DagInv, NEW t \in Tasks, InSetup(t), phase # "returned", SetupFails(t),
           UNCHANGED <<graphVars, loopVars>>, GitTyped'
    PROVE  DagInv'
<1>1. TypeOK'
  <2>1. results' \in [Tasks -> Outcomes \cup {NoResult}] /\ status' \in [Tasks -> Statuses]
    BY DEF DagInv, TypeOK, SetupFails, Outcomes, Statuses
  <2>2. pc' \in [Tasks -> Points] /\ phase' \in Phases
    BY DEF DagInv, TypeOK, SetupFails, Notify, Raise, Goto, Phases, Points
  <2>3. notified' \in [Tasks -> Nat]
    BY DEF DagInv, TypeOK, SetupFails, Notify
  <2> QED
    BY <2>1, <2>2, <2>3 DEF DagInv, TypeOK, SetupFails, graphVars, loopVars, GitTyped
<1>2. Placement' /\ VerdictsAgree'
  BY DEF DagInv, TypeOK, Placement, Ran, VerdictsAgree, InSetup, SetupFails, Notify,
         Raise, Goto, loopVars
<1>3. RunsAfterDependencies' /\ AfterReturn'
  BY DEF DagInv, TypeOK, RunsAfterDependencies, AfterReturn, InSetup, SetupFails,
         Notify, Raise, Goto, graphVars
<1> QED
  BY <1>1, <1>2, <1>3 DEF DagInv

LEMMA StartsRunningInv ==
    ASSUME DagInv, NEW t \in Tasks, InSetup(t), phase # "returned", StartsRunning(t),
           UNCHANGED <<graphVars, loopVars>>, GitTyped'
    PROVE  DagInv'
<1>1. TypeOK'
  BY DEF DagInv, TypeOK, StartsRunning, Goto, graphVars, loopVars, verdictVars,
         reportVars, GitTyped, Points, Statuses
<1>2. Placement' /\ VerdictsAgree'
  BY DEF DagInv, TypeOK, Placement, Ran, VerdictsAgree, InSetup, StartsRunning, Goto,
         loopVars, verdictVars
<1>3. RunsAfterDependencies' /\ AfterReturn'
  BY DEF DagInv, TypeOK, RunsAfterDependencies, AfterReturn, InSetup, StartsRunning,
         Goto, graphVars, verdictVars
<1> QED
  BY <1>1, <1>2, <1>3 DEF DagInv

LEMMA ProceedsInv ==
    ASSUME DagInv, NEW t \in Tasks, InSetup(t), phase # "returned",
           NEW point \in {"checking", "adding", "merging"}, Proceeds(t, point),
           Isolated(t),
           UNCHANGED <<graphVars, loopVars>>, GitTyped'
    PROVE  DagInv'
<1>1. TypeOK'
  BY DEF DagInv, TypeOK, Proceeds, Goto, graphVars, loopVars, verdictVars,
         reportVars, GitTyped, Points
<1>2. Placement' /\ VerdictsAgree'
  BY DEF DagInv, TypeOK, Placement, Ran, VerdictsAgree, InSetup, Proceeds, Goto,
         loopVars, verdictVars
<1>3. RunsAfterDependencies' /\ AfterReturn'
  BY DEF DagInv, TypeOK, RunsAfterDependencies, AfterReturn, InSetup, Proceeds,
         Goto, graphVars, verdictVars
<1> QED
  BY <1>1, <1>2, <1>3 DEF DagInv

(* Publishing an event extends the list of one task.                        *)
LEMMA EventAppended ==
    ASSUME TypeOK, NEW t \in Tasks,
           NEW e \in {"TASK_STARTED", "TASK_COMPLETED", "TASK_FAILED"}
    PROVE  [events EXCEPT ![t] = Append(@, e)]
               \in [Tasks -> Seq({"TASK_STARTED", "TASK_COMPLETED", "TASK_FAILED"})]
BY DEF TypeOK

LEMMA TaskStepInv ==
    ASSUME DagInv, NEW t \in Tasks, TaskStep(t)
    PROVE  DagInv'
<1> USE DEF TaskStep
<1>0. TypeOK /\ phase # "returned"
  BY DEF DagInv
<1>1. CASE Acquire(t)
  <2>1. InSetup(t) /\ UNCHANGED <<graphVars, loopVars>> /\ GitTyped'
    BY <1>0, <1>1 DEF Acquire, InSetup, GitTyped, TypeOK, gitVars
  <2>2. \/ StartsRunning(t)
        \/ SetupFails(t)
        \/ Proceeds(t, "checking") /\ Isolated(t)
    BY <1>1 DEF Acquire
  <2> QED
    BY <1>0, <2>1, <2>2, StartsRunningInv, SetupFailsInv, ProceedsInv
<1>2. CASE CheckBranch(t)
  <2>1. InSetup(t) /\ UNCHANGED <<graphVars, loopVars>> /\ GitTyped'
    BY <1>0, <1>2 DEF CheckBranch, InSetup, GitTyped, TypeOK, gitVars
  <2>2. SetupFails(t) \/ Proceeds(t, "adding")
    BY <1>2 DEF CheckBranch
  <2>3. Isolated(t)
    BY <1>2 DEF CheckBranch, DagInv, Placement
  <2> QED
    BY <1>0, <2>1, <2>2, <2>3, SetupFailsInv, ProceedsInv
<1>3. CASE AddWorktree(t)
  <2>1. InSetup(t) /\ Isolated(t) /\ UNCHANGED <<graphVars, loopVars>>
    BY <1>3 DEF AddWorktree, InSetup, DagInv, Placement
  <2>2. CASE SetupFails(t) /\ UNCHANGED gitVars
    BY <1>0, <2>1, <2>2, SetupFailsInv DEF GitTyped, TypeOK, gitVars
  <2>3. CASE /\ worktrees' = worktrees \cup {t}
             /\ branches' = branches \cup {Branch[t]}
             /\ UNCHANGED unmerged
             /\ StartsRunning(t) \/ Proceeds(t, "merging")
    <3>1. GitTyped'
      BY <1>0, <2>1, <2>3 DEF GitTyped, TypeOK, Isolated
    <3> QED
      BY <1>0, <2>1, <2>3, <3>1, StartsRunningInv, ProceedsInv
  <2> QED
    BY <1>3, <2>2, <2>3 DEF AddWorktree
<1>4. CASE MergeBranches(t)
  <2>1. /\ InSetup(t) /\ UNCHANGED <<graphVars, loopVars>> /\ GitTyped'
        /\ StartsRunning(t)
    BY <1>0, <1>4 DEF MergeBranches, InSetup, GitTyped, TypeOK
  <2> QED
    BY <1>0, <2>1, StartsRunningInv
<1>5. CASE Announce(t)
  <2>0. events' \in [Tasks -> Seq({"TASK_STARTED", "TASK_COMPLETED", "TASK_FAILED"})]
    BY <1>0, <1>5, EventAppended DEF Announce
  <2>1. TypeOK'
    BY <1>0, <1>5, <2>0 DEF TypeOK, Announce, Raise, Goto, graphVars, loopVars, verdictVars,
           gitVars, Phases, Points
  <2>2. Placement' /\ VerdictsAgree'
    BY <1>5 DEF DagInv, TypeOK, Placement, Ran, VerdictsAgree, Announce, Raise, Goto,
           loopVars, verdictVars
  <2>3. RunsAfterDependencies' /\ AfterReturn'
    BY <1>0, <1>5 DEF DagInv, TypeOK, RunsAfterDependencies, AfterReturn, Announce,
           Raise, Goto, graphVars, verdictVars
  <2> QED
    BY <2>1, <2>2, <2>3 DEF DagInv
<1>9. CASE GrindRaises(t)
  <2>1. TypeOK'
    BY <1>0, <1>9 DEF TypeOK, GrindRaises, Raise, Goto, graphVars, loopVars, verdictVars,
           reportVars, gitVars, Phases, Points
  <2>2. Placement' /\ VerdictsAgree'
    BY <1>9 DEF DagInv, TypeOK, Placement, Ran, VerdictsAgree, GrindRaises, Raise, Goto,
           loopVars, verdictVars
  <2>3. RunsAfterDependencies' /\ AfterReturn'
    BY <1>0, <1>9 DEF DagInv, TypeOK, RunsAfterDependencies, AfterReturn, GrindRaises,
           Raise, Goto, graphVars, verdictVars
  <2> QED
    BY <2>1, <2>2, <2>3 DEF DagInv
<1>6. CASE GrindReturns(t)
  <2>1. PICK outcome \in Outcomes :
            /\ results' = [results EXCEPT ![t] = outcome]
            /\ UpdateTaskStatus(t, outcome)
            /\ pc' = [pc EXCEPT ![t] = IF ShouldClean(t, outcome = "COMPLETE")
                                       THEN "cleaning" ELSE "reporting"]
    BY <1>6 DEF GrindReturns, Goto
  <2>2. TypeOK'
    BY <1>0, <1>6, <2>1 DEF TypeOK, GrindReturns, UpdateTaskStatus, With, StatusFor,
           graphVars, loopVars, reportVars, gitVars, Points, Outcomes, Statuses
  <2>3. Placement' /\ VerdictsAgree'
    BY <1>6, <2>1 DEF DagInv, TypeOK, Placement, Ran, VerdictsAgree, GrindReturns,
           UpdateTaskStatus, With, StatusFor, Outcomes, loopVars
  <2>4. RunsAfterDependencies' /\ AfterReturn'
    BY <1>0, <1>6, <2>1 DEF DagInv, TypeOK, RunsAfterDependencies, AfterReturn,
           GrindReturns, UpdateTaskStatus, With, graphVars
  <2> QED
    BY <2>2, <2>3, <2>4 DEF DagInv
<1>7. CASE CleanupWorktree(t)
  <2>1. TypeOK'
    BY <1>0, <1>7 DEF TypeOK, CleanupWorktree, Goto, graphVars, loopVars, verdictVars,
           reportVars, Points
  <2>2. Placement' /\ VerdictsAgree'
    BY <1>7 DEF DagInv, TypeOK, Placement, Ran, VerdictsAgree, CleanupWorktree, Goto,
           loopVars, verdictVars
  <2>3. RunsAfterDependencies' /\ AfterReturn'
    BY <1>0, <1>7 DEF DagInv, TypeOK, RunsAfterDependencies, AfterReturn,
           CleanupWorktree, Goto, graphVars, verdictVars
  <2> QED
    BY <2>1, <2>2, <2>3 DEF DagInv
<1>8. CASE Report(t)
  <2>0. events' \in [Tasks -> Seq({"TASK_STARTED", "TASK_COMPLETED", "TASK_FAILED"})]
    BY <1>0, <1>8, EventAppended DEF Report
  <2>9. notified' \in [Tasks -> Nat] /\ pc' \in [Tasks -> Points] /\ phase' \in Phases
    <3>1. /\ notified' \in {notified, [notified EXCEPT ![t] = @ + 1]}
          /\ pc' \in {[pc EXCEPT ![t] = "finished"], [pc EXCEPT ![t] = "raised"]}
          /\ phase' \in {phase, "raised"}
      BY <1>8 DEF Report, Notify, Raise, Goto
    <3>2. notified \in [Tasks -> Nat] /\ pc \in [Tasks -> Points] /\ phase \in Phases
      BY <1>0 DEF TypeOK
    <3>3. notified' \in [Tasks -> Nat]
      BY <3>1, <3>2
    <3>4. pc' \in [Tasks -> Points]
      BY <3>1, <3>2 DEF Points
    <3> QED
      BY <3>1, <3>2, <3>3, <3>4 DEF Phases
  <2>1. TypeOK'
    BY <1>0, <1>8, <2>0, <2>9 DEF TypeOK, Report, graphVars, loopVars, verdictVars,
           gitVars
  <2>2. Placement' /\ VerdictsAgree'
    BY <1>8 DEF DagInv, TypeOK, Placement, Ran, VerdictsAgree, Report, Notify, Raise,
           Goto, loopVars, verdictVars
  <2>3. RunsAfterDependencies' /\ AfterReturn'
    BY <1>0, <1>8 DEF DagInv, TypeOK, RunsAfterDependencies, AfterReturn, Report,
           Notify, Raise, Goto, graphVars, verdictVars
  <2> QED
    BY <2>1, <2>2, <2>3 DEF DagInv
<1> QED
  BY <1>1, <1>2, <1>3, <1>4, <1>5, <1>6, <1>7, <1>8, <1>9 DEF RunSingleTask

LEMMA StutterInv == DagInv /\ UNCHANGED vars => DagInv'
BY DEF DagInv, TypeOK, Placement, Ran, VerdictsAgree, RunsAfterDependencies,
     AfterReturn, WaveOver, vars, graphVars, loopVars, verdictVars, reportVars, gitVars

(* The invariant is inductive.                                              *)
THEOREM Invariance == Spec => []DagInv
<1>1. DagInv /\ [Next]_vars => DagInv'
  BY ScheduleWaveInv, MarkingRaisesInv, ReturnInv, LoopClosesInv, TaskStepInv,
     StutterInv DEF Next, Loop, Over
<1> QED
  BY InitInv, <1>1, PTL DEF Spec

(* Every variable keeps its type.                                           *)
THEOREM TypeCorrect == Spec => []TypeOK
BY Invariance, PTL DEF DagInv

(* The outcome sets, the results and the statuses agree in every state.     *)
THEOREM RecordsAgree == Spec => []VerdictsAgree
BY Invariance, PTL DEF DagInv

(* No task is given to gather before all its dependencies completed.        *)
THEOREM DependenciesFirst == Spec => []RunsAfterDependencies
BY Invariance, PTL DEF DagInv

------------------------------------------------------------------------------
(* Two disjoint sets of tasks are counted apart.                            *)
LEMMA CountApart ==
    ASSUME NEW A \in SUBSET Tasks, NEW B \in SUBSET Tasks, A \cap B = {}
    PROVE  /\ Cardinality(A \cup B) = Cardinality(A) + Cardinality(B)
           /\ Cardinality(A) \in Nat
           /\ Cardinality(B) \in Nat
<1>1. IsFiniteSet(A) /\ IsFiniteSet(B)
  BY FS_Subset
<1>2. Cardinality(A) \in Nat /\ Cardinality(B) \in Nat
  BY <1>1, FS_CardinalityType
<1>3. Cardinality(A \cap B) = 0
  BY FS_EmptySet
<1>4. Cardinality(A \cup B) = Cardinality(A) + Cardinality(B) - Cardinality(A \cap B)
  BY <1>1, FS_Union
<1> QED
  BY <1>2, <1>3, <1>4

(* When execute returns, every task is in exactly one count of the result.  *)
LEMMA ReturnCounts == DagInv => EveryTaskCounted
<1> SUFFICES ASSUME DagInv, phase = "returned" PROVE EveryTaskCounted
  BY DEF EveryTaskCounted
<1>1. pending = {} /\ WaveOver
  BY DEF DagInv, AfterReturn
<1>2. Tasks = completed \cup Unsuccessful
  <2>1. completed \cup Unsuccessful \subseteq Tasks
    BY DEF DagInv, TypeOK, Unsuccessful
  <2>2. \A t \in Tasks : t \in completed \cup Unsuccessful
    BY <1>1 DEF WaveOver, DagInv, Placement, Ran, Unsuccessful
  <2> QED
    BY <2>1, <2>2
<1>3. /\ completed \in SUBSET Tasks /\ stuck \in SUBSET Tasks
      /\ max_iterations \in SUBSET Tasks
      /\ failed \in SUBSET Tasks /\ blocked \in SUBSET Tasks
  BY DEF DagInv, TypeOK
<1>0. \A t \in Tasks :
          /\ t \in completed <=> results[t] = "COMPLETE"
          /\ t \in stuck <=> results[t] = "STUCK"
          /\ t \in max_iterations <=> results[t] = "MAX_ITERATIONS"
          /\ t \in failed \cup blocked <=> results[t] = "ERROR"
          /\ ~(t \in failed /\ t \in blocked)
  BY DEF DagInv, VerdictsAgree
<1>4. \A t \in Tasks :
          /\ t \in completed => t \notin stuck \cup max_iterations \cup failed \cup blocked
          /\ t \in stuck => t \notin max_iterations \cup failed \cup blocked
          /\ t \in max_iterations => t \notin failed \cup blocked
          /\ t \in failed => t \notin blocked
  BY <1>0
<1> DEFINE AB == completed \cup stuck
           ABC == AB \cup max_iterations
           ABCD == ABC \cup failed
<1>5. /\ completed \cap stuck = {}
      /\ AB \cap max_iterations = {}
      /\ ABC \cap failed = {}
      /\ ABCD \cap blocked = {}
      /\ AB \in SUBSET Tasks /\ ABC \in SUBSET Tasks /\ ABCD \in SUBSET Tasks
      /\ ABCD \cup blocked = Tasks
  BY <1>2, <1>3, <1>4 DEF Unsuccessful
<1>6. Cardinality(AB) = Cardinality(completed) + Cardinality(stuck)
  BY <1>3, <1>5, CountApart
<1>7. Cardinality(ABC) = Cardinality(AB) + Cardinality(max_iterations)
  BY <1>3, <1>5, CountApart
<1>8. Cardinality(ABCD) = Cardinality(ABC) + Cardinality(failed)
  BY <1>3, <1>5, CountApart
<1>9. Cardinality(Tasks) = Cardinality(ABCD) + Cardinality(blocked)
  BY <1>3, <1>5, CountApart
<1>10. DagExitCode = 0 <=> \A t \in Tasks : results[t] = "COMPLETE"
  BY <1>0, <1>3 DEF DagExitCode
<1>11. ASSUME DagExitCode \in {2, 3}, NEW t \in Tasks
       PROVE  depends_on[t] \cap Unsuccessful = {}
  <2>1. blocked = {}
    BY <1>11 DEF DagExitCode
  <2>2. depends_on[t] \subseteq completed
    BY <1>1, <2>1 DEF DagInv, Placement, RunsAfterDependencies
  <2> QED
    BY <1>3, <1>4, <2>2 DEF Unsuccessful
<1> QED
  BY <1>1, <1>2, <1>6, <1>7, <1>8, <1>9, <1>10, <1>11 DEF EveryTaskCounted

THEOREM Accounting == Spec => []EveryTaskCounted
BY Invariance, ReturnCounts, PTL

------------------------------------------------------------------------------
(* No step revises a verdict: a wave marks only pending tasks, and only a   *)
(* coroutine that has no verdict yet records one.                           *)
LEMMA MarkingFinal ==
    ASSUME DagInv, NEW S \in SUBSET NewlyBlocked, MarkTasksBlocked(S)
    PROVE  /\ \A t \in Tasks : results[t] # NoResult => results'[t] = results[t]
           /\ completed \subseteq completed'
           /\ Unsuccessful \subseteq Unsuccessful'
<1>1. \A t \in S : t \in Tasks /\ results[t] = NoResult
  BY DEF NewlyBlocked, DagInv, TypeOK, Placement, Ran, VerdictsAgree, Outcomes
<1> QED
  BY <1>1 DEF MarkTasksBlocked, Unsuccessful

LEMMA TaskFinal ==
    ASSUME DagInv, NEW u \in Tasks, TaskStep(u)
    PROVE  /\ \A t \in Tasks : results[t] # NoResult => results'[t] = results[t]
           /\ completed \subseteq completed'
           /\ Unsuccessful \subseteq Unsuccessful'
<1>1. CASE pc[u] \in {"queued", "checking", "adding", "merging", "starting", "grinding"}
  <2>1. results[u] = NoResult
    BY <1>1 DEF DagInv, TypeOK, Placement, Ran, VerdictsAgree, Outcomes
  <2>2. results \in [Tasks -> Outcomes \cup {NoResult}]
    BY DEF DagInv, TypeOK
  <2> QED
    BY <1>1, <2>1, <2>2 DEF TaskStep, RunSingleTask, Acquire, CheckBranch, AddWorktree,
       MergeBranches, Announce, GrindReturns, GrindRaises, CleanupWorktree, Report, SetupFails,
       StartsRunning, Proceeds, UpdateTaskStatus, With, Unsuccessful, verdictVars
<1>2. CASE pc[u] \notin {"queued", "checking", "adding", "merging", "starting", "grinding"}
  BY <1>2 DEF TaskStep, RunSingleTask, Acquire, CheckBranch, AddWorktree,
     MergeBranches, Announce, GrindReturns, GrindRaises, CleanupWorktree, Report, verdictVars,
     Unsuccessful
<1> QED
  BY <1>1, <1>2

THEOREM Finality == Spec => VerdictsFinal
<1>1. DagInv /\ [Next]_vars =>
          [/\ \A t \in Tasks : results[t] # NoResult => results'[t] = results[t]
           /\ completed \subseteq completed'
           /\ Unsuccessful \subseteq Unsuccessful']_vars
  <2> SUFFICES ASSUME DagInv, Next
               PROVE  /\ \A t \in Tasks : results[t] # NoResult => results'[t] = results[t]
                      /\ completed \subseteq completed'
                      /\ Unsuccessful \subseteq Unsuccessful'
    OBVIOUS
  <2>1. CASE ScheduleWave
    BY <2>1, MarkingFinal DEF ScheduleWave
  <2>2. CASE MarkingRaises
    BY <2>2, MarkingFinal DEF MarkingRaises
  <2>3. CASE Return \/ LoopCloses \/ Over
    BY <2>3 DEF Return, LoopCloses, Over, vars, verdictVars, Unsuccessful
  <2>4. CASE \E t \in Tasks : TaskStep(t)
    BY <2>4, TaskFinal
  <2> QED
    BY <2>1, <2>2, <2>3, <2>4 DEF Next, Loop
<1> QED
  BY Invariance, <1>1, PTL DEF Spec, VerdictsFinal

------------------------------------------------------------------------------
(* Every task that is blocked rests on one that ran and did not succeed.    *)
RunUnsuccessful == failed \cup stuck \cup max_iterations

(* A dependency is an ancestor, and so is everything it rests on.           *)
LEMMA AncestorsOfDependency ==
    ASSUME NEW g \in [Tasks -> SUBSET Tasks], NEW t \in Tasks, NEW d \in g[t]
    PROVE  d \in Ancestors(g, t) /\ Ancestors(g, d) \subseteq Ancestors(g, t)
<1>1. d \in Tasks /\ DOMAIN g = Tasks
  OBVIOUS
<1>2. d \in Ancestors(g, t)
  BY <1>1 DEF Ancestors
<1>3. ASSUME NEW a \in Ancestors(g, d), NEW S \in SUBSET Tasks,
             g[t] \subseteq S, DownClosed(g, S)
      PROVE  a \in S
  <2>1. d \in S /\ g[d] \subseteq S
    BY <1>3 DEF DownClosed
  <2> QED
    BY <1>1, <1>3, <2>1 DEF Ancestors
<1>4. ASSUME NEW a \in Ancestors(g, d) PROVE a \in Ancestors(g, t)
  BY <1>1, <1>3 DEF Ancestors
<1> QED
  BY <1>2, <1>4

LEMMA MarkingCause ==
    ASSUME DagInv, BlockedForCause, NEW S \in SUBSET NewlyBlocked, MarkTasksBlocked(S),
           UNCHANGED graphVars
    PROVE  BlockedForCause'
<1>1. /\ depends_on' = depends_on /\ RunUnsuccessful' = RunUnsuccessful
      /\ blocked' = blocked \cup S
  BY DEF MarkTasksBlocked, graphVars, RunUnsuccessful
<1>2. ASSUME NEW t \in S PROVE Ancestors(depends_on, t) \cap RunUnsuccessful # {}
  <2>1. PICK d \in depends_on[t] : d \in Unsuccessful
    BY DEF NewlyBlocked
  <2>2. depends_on \in [Tasks -> SUBSET Tasks] /\ t \in Tasks
    BY DEF DagInv, TypeOK, NewlyBlocked, AcyclicGraphs
  <2>3. /\ d \in Ancestors(depends_on, t)
        /\ Ancestors(depends_on, d) \subseteq Ancestors(depends_on, t)
    BY <2>2, AncestorsOfDependency
  <2>4. CASE d \in RunUnsuccessful
    BY <2>3, <2>4
  <2>5. CASE d \in blocked
    BY <2>3, <2>5 DEF BlockedForCause, RunUnsuccessful
  <2> QED
    BY <2>1, <2>4, <2>5 DEF Unsuccessful, RunUnsuccessful
<1>3. \A t \in blocked : Ancestors(depends_on, t) \cap RunUnsuccessful # {}
  BY DEF BlockedForCause, RunUnsuccessful
<1>4. \A t \in blocked' : Ancestors(depends_on', t) \cap RunUnsuccessful' # {}
  BY <1>1, <1>2, <1>3
<1> QED
  BY <1>4 DEF BlockedForCause, RunUnsuccessful

LEMMA TaskCause ==
    ASSUME BlockedForCause, NEW u \in Tasks, TaskStep(u)
    PROVE  BlockedForCause'
<1>1. /\ depends_on' = depends_on /\ blocked' = blocked
      /\ failed \subseteq failed' /\ stuck \subseteq stuck'
      /\ max_iterations \subseteq max_iterations'
  BY DEF TaskStep, RunSingleTask, Acquire, CheckBranch, AddWorktree, MergeBranches,
     Announce, GrindReturns, GrindRaises, CleanupWorktree, Report, SetupFails,
     StartsRunning, Proceeds, UpdateTaskStatus, With, verdictVars, graphVars
<1>2. \A t \in blocked : Ancestors(depends_on, t) \cap (failed' \cup stuck' \cup max_iterations') # {}
  BY <1>1 DEF BlockedForCause
<1> QED
  BY <1>1, <1>2 DEF BlockedForCause

THEOREM Blame == Spec => []BlockedForCause
<1>1. Init => BlockedForCause
  BY DEF Init, BlockedForCause
<1>2. DagInv /\ BlockedForCause /\ [Next]_vars => BlockedForCause'
  <2> SUFFICES ASSUME DagInv, BlockedForCause, [Next]_vars PROVE BlockedForCause'
    OBVIOUS
  <2>1. CASE ScheduleWave
    BY <2>1, MarkingCause DEF ScheduleWave
  <2>2. CASE MarkingRaises
    BY <2>2, MarkingCause DEF MarkingRaises
  <2>3. CASE Return \/ LoopCloses \/ Over \/ UNCHANGED vars
    <3>1. UNCHANGED <<depends_on, blocked, failed, stuck, max_iterations>>
      BY <2>3 DEF Return, LoopCloses, Over, vars, verdictVars, graphVars
    <3> QED
      BY <3>1 DEF BlockedForCause
  <2>4. CASE \E t \in Tasks : TaskStep(t)
    BY <2>4, TaskCause
  <2> QED
    BY <2>1, <2>2, <2>3, <2>4 DEF Next, Loop
<1> QED
  BY Invariance, <1>1, <1>2, PTL DEF Spec

------------------------------------------------------------------------------
(* What was called and published about a task, by where it is.  A coroutine *)
(* that raised may have stopped anywhere.                                   *)
ReportsAt(t) ==
    /\ t \in blocked => notified[t] = 1 /\ events[t] = <<>> /\ t \notin started
    /\ pc[t] = "idle" /\ t \notin blocked =>
           notified[t] = 0 /\ events[t] = <<>> /\ t \notin started
    /\ pc[t] \in {"queued", "checking", "adding", "merging", "starting"} =>
           notified[t] = 0 /\ events[t] = <<>> /\ t \notin started
    /\ pc[t] \in {"grinding", "cleaning", "reporting"} =>
           notified[t] = 0 /\ events[t] = <<"TASK_STARTED">> /\ t \in started
    /\ pc[t] = "finished" => notified[t] = 1 /\ events[t] = Lifecycle(t)

Reports == \A t \in Tasks : ReportsAt(t)

LEMMA ReportsAtEnd == DagInv /\ Reports => ReportedOnce
<1> SUFFICES ASSUME DagInv, Reports, phase = "returned", NEW t \in Tasks
             PROVE  notified[t] = 1 /\ events[t] = Lifecycle(t)
  BY DEF ReportedOnce
<1>1. pc[t] = "finished" \/ t \in blocked
  BY DEF DagInv, AfterReturn, WaveOver, Placement
<1>2. t \in blocked => t \notin completed
  BY DEF DagInv, VerdictsAgree
<1> QED
  BY <1>1, <1>2 DEF Reports, ReportsAt, Lifecycle

LEMMA MarkingReports ==
    ASSUME DagInv, Reports, NEW S \in SUBSET NewlyBlocked, MarkTasksBlocked(S),
           \A t \in Tasks : pc'[t] = pc[t] \/ (pc[t] = "idle" /\ t \notin blocked \cup S /\ pc'[t] = "queued")
    PROVE  Reports'
<1>1. \A t \in S : t \in Tasks /\ t \notin blocked /\ pc[t] = "idle"
  BY DEF NewlyBlocked, DagInv, TypeOK, Placement
<1>2. /\ blocked' = blocked \cup S
      /\ notified' = [t \in Tasks |-> IF t \in S THEN notified[t] + 1 ELSE notified[t]]
      /\ UNCHANGED <<completed, started, events>>
  BY DEF MarkTasksBlocked
<1>3. ASSUME NEW t \in Tasks PROVE ReportsAt(t)'
  <2>1. ReportsAt(t) /\ Lifecycle(t)' = Lifecycle(t)
    BY <1>2 DEF Reports, Lifecycle
  <2>2. CASE t \in S
    BY <1>1, <1>2, <2>1, <2>2 DEF ReportsAt
  <2>3. CASE t \notin S
    BY <1>2, <2>1, <2>3 DEF ReportsAt
  <2> QED
    BY <2>2, <2>3
<1> QED
  BY <1>3 DEF Reports

(* A step of one task leaves what is known of the others alone.             *)
LEMMA OthersReports ==
    ASSUME TypeOK, NEW t \in Tasks, TaskStep(t), NEW u \in Tasks, u # t, ReportsAt(u)
    PROVE  ReportsAt(u)'
<1>1. /\ pc'[u] = pc[u] /\ notified'[u] = notified[u] /\ events'[u] = events[u]
      /\ blocked' = blocked
      /\ u \in started' <=> u \in started
      /\ u \in completed' <=> u \in completed
  BY DEF TaskStep, RunSingleTask, Acquire, CheckBranch, AddWorktree, MergeBranches,
     Announce, GrindReturns, GrindRaises, CleanupWorktree, Report, SetupFails, Notify,
     StartsRunning, Proceeds, Raise, Goto, UpdateTaskStatus, With, verdictVars,
     reportVars, TypeOK
<1>2. Lifecycle(u)' = Lifecycle(u)
  BY <1>1 DEF Lifecycle
<1> QED
  BY <1>1, <1>2 DEF ReportsAt

LEMMA TaskReports ==
    ASSUME DagInv, DagInv', Reports, NEW t \in Tasks, TaskStep(t)
    PROVE  Reports'
<1> USE DEF TaskStep
<1>0. ReportsAt(t) /\ TypeOK
  BY DEF Reports, DagInv
<1>a. pc[t] # "idle" => t \notin blocked
  BY DEF DagInv, Placement
<1>b. notified \in [Tasks -> Nat] /\ DOMAIN events = Tasks /\ DOMAIN pc = Tasks
  BY <1>0 DEF TypeOK
<1>s. ASSUME pc[t] \in {"queued", "checking", "adding", "merging"},
             SetupFails(t) \/ StartsRunning(t) \/ \E p \in {"checking", "adding", "merging"} : Proceeds(t, p)
      PROVE  ReportsAt(t)'
  <2>1. notified[t] = 0 /\ events[t] = <<>> /\ t \notin started /\ t \notin blocked
        /\ t \notin completed
    BY <1>0, <1>a, <1>s DEF ReportsAt, DagInv, Placement, Ran
  <2>2. /\ events'[t] = <<>> /\ started' = started /\ blocked' = blocked
        /\ completed' = completed
        /\ \/ pc'[t] = "raised"
           \/ pc'[t] = "finished" /\ notified'[t] = 1
           \/ pc'[t] \in {"checking", "adding", "merging", "starting"} /\ notified'[t] = 0
    BY <1>b, <1>s, <2>1 DEF SetupFails, Notify, Raise, StartsRunning, Proceeds, Goto,
       verdictVars, reportVars
  <2> QED
    BY <2>1, <2>2 DEF ReportsAt, Lifecycle
<1>1. ASSUME Acquire(t) \/ CheckBranch(t) \/ AddWorktree(t) \/ MergeBranches(t)
      PROVE  ReportsAt(t)'
  BY <1>1, <1>s DEF Acquire, CheckBranch, AddWorktree, MergeBranches
<1>2. ASSUME Announce(t) PROVE ReportsAt(t)'
  <2>1. notified[t] = 0 /\ events[t] = <<>> /\ t \notin blocked
    BY <1>0, <1>2, <1>a DEF ReportsAt, Announce
  <2>2. events'[t] = <<"TASK_STARTED">>
    BY <1>2, <1>b, <2>1 DEF Announce
  <2>3. /\ blocked' = blocked /\ notified'[t] = 0
        /\ pc'[t] = "raised" \/ (pc'[t] = "grinding" /\ t \in started')
    BY <1>2, <1>b, <2>1 DEF Announce, Raise, Goto, verdictVars
  <2> QED
    BY <2>1, <2>2, <2>3 DEF ReportsAt
<1>3. ASSUME GrindReturns(t) \/ GrindRaises(t) \/ CleanupWorktree(t)
      PROVE  ReportsAt(t)'
  <2>1. notified[t] = 0 /\ events[t] = <<"TASK_STARTED">> /\ t \in started /\ t \notin blocked
    BY <1>0, <1>3, <1>a DEF ReportsAt, GrindReturns, GrindRaises, CleanupWorktree
  <2>2. /\ blocked' = blocked /\ notified' = notified /\ events' = events /\ started' = started
        /\ pc'[t] \in {"raised", "cleaning", "reporting"}
    BY <1>3, <1>b DEF GrindReturns, GrindRaises, CleanupWorktree, Raise, Goto, verdictVars,
       reportVars
  <2> QED
    BY <2>1, <2>2 DEF ReportsAt
<1>4. ASSUME Report(t) PROVE ReportsAt(t)'
  <2>1. notified[t] = 0 /\ events[t] = <<"TASK_STARTED">> /\ t \in started /\ t \notin blocked
    BY <1>0, <1>4, <1>a DEF ReportsAt, Report
  <2>2. t \in completed <=> results[t] = "COMPLETE"
    BY DEF DagInv, VerdictsAgree
  <2>3. events'[t] = Lifecycle(t)
    BY <1>4, <1>b, <2>1, <2>2 DEF Report, Lifecycle
  <2>4. /\ blocked' = blocked /\ started' = started /\ completed' = completed
        /\ pc'[t] = "raised" \/ (pc'[t] = "finished" /\ notified'[t] = 1)
    BY <1>4, <1>b, <2>1 DEF Report, Notify, Raise, Goto, verdictVars
  <2>5. Lifecycle(t)' = Lifecycle(t)
    BY <2>4 DEF Lifecycle
  <2> QED
    BY <2>1, <2>3, <2>4, <2>5 DEF ReportsAt
<1>5. ReportsAt(t)'
  BY <1>1, <1>2, <1>3, <1>4 DEF RunSingleTask
<1>6. ASSUME NEW u \in Tasks, u # t PROVE ReportsAt(u)'
  BY <1>0, <1>6, OthersReports DEF Reports
<1> QED
  BY <1>5, <1>6 DEF Reports

(* Whoever listens hears of every task's end once, in the right words.      *)
THEOREM Reporting == Spec => []ReportedOnce
<1>1. Init => Reports
  BY DEF Init, Reports, ReportsAt
<1>2. DagInv /\ DagInv' /\ Reports /\ [Next]_vars => Reports'
  <2> SUFFICES ASSUME DagInv, DagInv', Reports, [Next]_vars PROVE Reports'
    OBVIOUS
  <2>1. CASE ScheduleWave
    <3>1. MarkTasksBlocked(NewlyBlocked)
          /\ pc' = [t \in Tasks |-> IF t \in Ready THEN "queued" ELSE pc[t]]
      BY <2>1 DEF ScheduleWave
    <3>2. \A t \in Ready : pc[t] = "idle" /\ t \notin blocked \cup NewlyBlocked
      BY DEF Ready, NewlyBlocked, DagInv, Placement, TypeOK
    <3> QED
      BY <3>1, <3>2, MarkingReports
  <2>2. CASE MarkingRaises
    BY <2>2, MarkingReports DEF MarkingRaises
  <2>3. CASE Return \/ LoopCloses \/ Over \/ UNCHANGED vars
    <3>1. UNCHANGED <<verdictVars, pc, reportVars>>
      BY <2>3 DEF Return, LoopCloses, Over, vars
    <3> QED
      BY <3>1 DEF Reports, ReportsAt, Lifecycle, verdictVars, reportVars
  <2>4. CASE \E t \in Tasks : TaskStep(t)
    BY <2>4, TaskReports
  <2> QED
    BY <2>1, <2>2, <2>3, <2>4 DEF Next, Loop
<1>3. []ReportedOnce \/ ~([]DagInv /\ []Reports)
  BY ReportsAtEnd, PTL
<1> QED
  BY Invariance, <1>1, <1>2, <1>3, PTL DEF Spec

------------------------------------------------------------------------------
(* The worktree of a task: made by the task itself, on a branch that did    *)
(* not exist, and taken away by nobody else.                                *)
Working == {"merging", "starting", "grinding"}

LEMMA TaskWorktrees ==
    ASSUME DagInv, WorksInOwnWorktree, NEW u \in Tasks, TaskStep(u)
    PROVE  WorksInOwnWorktree'
<1> USE DEF TaskStep
<1>0. DOMAIN pc = Tasks /\ (pc[u] \in {"checking", "adding", "merging"} => Isolated(u))
  BY DEF DagInv, TypeOK, Placement
<1>1. CASE AddWorktree(u) /\ pc'[u] \in Working
  <2>1. /\ Branch[u] \notin branches
        /\ worktrees' = worktrees \cup {u} /\ branches' = branches \cup {Branch[u]}
        /\ \A t \in Tasks \ {u} : pc'[t] = pc[t]
    BY <1>0, <1>1 DEF AddWorktree, SetupFails, Notify, Raise, StartsRunning, Proceeds,
       Goto, Working
  <2>2. ASSUME NEW t \in Tasks \ {u}, pc[t] \in Working PROVE Branch[t] # Branch[u]
    BY <1>0, <1>1, <2>1, <2>2 DEF WorksInOwnWorktree, Isolated, AddWorktree, Working
  <2> QED
    BY <2>1, <2>2 DEF WorksInOwnWorktree, Working
<1>2. CASE ~(AddWorktree(u) /\ pc'[u] \in Working)
  <2>1. /\ branches \subseteq branches' /\ \A t \in Tasks \ {u} : pc'[t] = pc[t]
        /\ \A t \in Tasks \ {u} : t \in worktrees => t \in worktrees'
    BY <1>0 DEF RunSingleTask, Acquire, CheckBranch, AddWorktree,
       MergeBranches, Announce, GrindReturns, GrindRaises, CleanupWorktree, Report,
       SetupFails, Notify, StartsRunning, Proceeds, Raise, Goto, gitVars
  <2>2. \/ pc'[u] \notin Working
        \/ pc[u] \in Working /\ (u \in worktrees => u \in worktrees')
        \/ ~Isolated(u)
    BY <1>0, <1>2 DEF RunSingleTask, Acquire, CheckBranch, MergeBranches, Announce,
       GrindReturns, GrindRaises, CleanupWorktree, Report, SetupFails, Notify, StartsRunning,
       Proceeds, Raise, Goto, gitVars, Working
  <2>3. CASE pc'[u] \notin Working
    BY <2>1, <2>3 DEF WorksInOwnWorktree, Working
  <2>4. CASE pc[u] \in Working /\ (u \in worktrees => u \in worktrees')
    BY <2>1, <2>4 DEF WorksInOwnWorktree, Working
  <2>5. CASE ~Isolated(u)
    BY <2>1, <2>5 DEF WorksInOwnWorktree, Isolated
  <2> QED
    BY <2>2, <2>3, <2>4, <2>5
<1> QED
  BY <1>1, <1>2

(* No two tasks with a worktree configuration share a directory or a        *)
(* branch while they work, whatever an earlier execution left behind.       *)
THEOREM Isolation == Spec => []WorksInOwnWorktree
<1>1. Init => WorksInOwnWorktree
  BY DEF Init, WorksInOwnWorktree
<1>2. DagInv /\ WorksInOwnWorktree /\ [Next]_vars => WorksInOwnWorktree'
  <2> SUFFICES ASSUME DagInv, WorksInOwnWorktree, [Next]_vars PROVE WorksInOwnWorktree'
    OBVIOUS
  <2>1. CASE Loop \/ Over \/ UNCHANGED vars
    <3>1. /\ UNCHANGED <<worktrees, branches>>
          /\ \A t \in Tasks : pc'[t] = pc[t] \/ pc'[t] = "queued"
      BY <2>1 DEF Loop, ScheduleWave, MarkingRaises, Return, LoopCloses, Over, vars, gitVars
    <3> QED
      BY <3>1 DEF WorksInOwnWorktree
  <2>2. CASE \E t \in Tasks : TaskStep(t)
    BY <2>2, TaskWorktrees
  <2> QED
    BY <2>1, <2>2 DEF Next
<1> QED
  BY Invariance, <1>1, <1>2, PTL DEF Spec

(* What was started keeps its directory until it is cleaned, and it is only *)
(* cleaned after a success or when the configuration asks for it.           *)
Inspectable ==
    /\ \A t \in started \ DropOnFailure :
           Isolated(t) /\ t \notin completed => t \in worktrees
    /\ \A t \in Tasks : pc[t] = "cleaning" => t \in completed \cup DropOnFailure

LEMMA TaskInspectable ==
    ASSUME DagInv, WorksInOwnWorktree, Inspectable, NEW u \in Tasks, TaskStep(u)
    PROVE  Inspectable'
<1> USE DEF TaskStep
<1>0. DOMAIN pc = Tasks /\ started \subseteq Tasks
  BY DEF DagInv, TypeOK
<1>1. CASE GrindReturns(u)
  <2>1. PICK outcome \in Outcomes :
            /\ completed' = With(completed, u, outcome = "COMPLETE")
            /\ pc' = [pc EXCEPT ![u] = IF ShouldClean(u, outcome = "COMPLETE")
                                       THEN "cleaning" ELSE "reporting"]
    BY <1>1 DEF GrindReturns, Goto, UpdateTaskStatus
  <2>2. UNCHANGED <<started, worktrees>>
    BY <1>1 DEF GrindReturns, reportVars, gitVars
  <2> QED
    BY <1>0, <2>1, <2>2 DEF Inspectable, With, ShouldClean
<1>2. CASE CleanupWorktree(u)
  <2>1. /\ UNCHANGED <<started, completed>> /\ pc' = [pc EXCEPT ![u] = "reporting"]
        /\ worktrees \ {u} \subseteq worktrees'
        /\ pc[u] = "cleaning"
    BY <1>2 DEF CleanupWorktree, Goto, verdictVars, reportVars
  <2> QED
    BY <1>0, <2>1 DEF Inspectable
<1>3. CASE Announce(u)
  <2>1. Isolated(u) => u \in worktrees
    BY <1>3 DEF Announce, WorksInOwnWorktree
  <2>2. /\ UNCHANGED <<completed, worktrees>> /\ started' \subseteq started \cup {u}
        /\ \A t \in Tasks : pc'[t] = "cleaning" => pc[t] = "cleaning"
    BY <1>0, <1>3 DEF Announce, Raise, Goto, verdictVars, gitVars
  <2> QED
    BY <2>1, <2>2 DEF Inspectable
<1>4. CASE \/ Acquire(u) \/ CheckBranch(u) \/ AddWorktree(u) \/ MergeBranches(u)
           \/ GrindRaises(u) \/ Report(u)
  <2>1. UNCHANGED <<started, completed>> /\ worktrees \subseteq worktrees'
    BY <1>4 DEF Acquire, CheckBranch, AddWorktree, MergeBranches, GrindRaises, Report,
       SetupFails, StartsRunning, Proceeds, verdictVars, reportVars, gitVars
  <2>2. \A t \in Tasks : pc'[t] = "cleaning" => pc[t] = "cleaning"
    BY <1>0, <1>4 DEF Acquire, CheckBranch, AddWorktree, MergeBranches, GrindRaises, Report,
       SetupFails, Notify, StartsRunning, Proceeds, Raise, Goto
  <2> QED
    BY <2>1, <2>2 DEF Inspectable
<1> QED
  BY <1>1, <1>2, <1>3, <1>4 DEF RunSingleTask

(* The work of an unsuccessful task is there to be looked at.               *)
THEOREM WorkIsKept == Spec => []FailedWorktreeKept
<1>1. Init => Inspectable
  BY DEF Init, Inspectable
<1>2. DagInv /\ WorksInOwnWorktree /\ Inspectable /\ [Next]_vars => Inspectable'
  <2> SUFFICES ASSUME DagInv, WorksInOwnWorktree, Inspectable, [Next]_vars
               PROVE  Inspectable'
    OBVIOUS
  <2>1. CASE Loop \/ Over \/ UNCHANGED vars
    <3>1. /\ UNCHANGED <<worktrees, started, completed>>
          /\ \A t \in Tasks : pc'[t] = pc[t] \/ pc'[t] = "queued"
      BY <2>1 DEF Loop, ScheduleWave, MarkingRaises, Return, LoopCloses, Over,
         MarkTasksBlocked, vars, gitVars, verdictVars, reportVars
    <3> QED
      BY <3>1 DEF Inspectable
  <2>2. CASE \E t \in Tasks : TaskStep(t)
    BY <2>2, TaskInspectable
  <2> QED
    BY <2>1, <2>2 DEF Next
<1>3. DagInv /\ Inspectable => FailedWorktreeKept
  BY DEF DagInv, TypeOK, VerdictsAgree, Inspectable, FailedWorktreeKept, Unsuccessful
<1> QED
  BY Invariance, Isolation, <1>1, <1>2, <1>3, PTL DEF Spec

------------------------------------------------------------------------------
(* The semaphore bounds the tasks under way, and the executor implements    *)
(* DagSchedule: every step of its waves and coroutines is a step of the     *)
(* schedule or leaves it unchanged.                                         *)

(* A set of tasks can be counted.                                           *)
LEMMA Countable ==
    ASSUME NEW S \in SUBSET Tasks
    PROVE  IsFiniteSet(S) /\ Cardinality(S) \in Nat
BY FS_Subset, FS_CardinalityType

(* Only an acquisition adds to the holders, and it adds one.                *)
LEMMA HoldersStep ==
    ASSUME DagInv, Next
    PROVE  \/ Holders' \subseteq Holders
           \/ /\ Cardinality(Holders) < MaxParallel
              /\ \E t \in Tasks : Holders' = Holders \cup {t}
<1>0. pc \in [Tasks -> Points]
  BY DEF DagInv, TypeOK
<1>1. CASE ScheduleWave
  BY <1>0, <1>1 DEF ScheduleWave, Holders, Ready
<1>2. CASE MarkingRaises \/ Return \/ LoopCloses \/ Over
  BY <1>2 DEF MarkingRaises, Return, LoopCloses, Over, vars, Holders
<1>3. ASSUME NEW t \in Tasks, TaskStep(t)
      PROVE  \/ Holders' \subseteq Holders
             \/ Cardinality(Holders) < MaxParallel /\ Holders' = Holders \cup {t}
  <2>1. CASE Acquire(t)
    <3>1. /\ pc[t] = "queued" /\ Cardinality(Holders) < MaxParallel
          /\ pc' \in {[pc EXCEPT ![t] = p] : p \in {"starting", "finished", "raised", "checking"}}
      BY <2>1 DEF Acquire, StartsRunning, SetupFails, Proceeds, Notify, Raise, Goto
    <3> QED
      BY <1>0, <3>1 DEF Holders
  <2>2. CASE ~Acquire(t)
    <3>1. /\ pc[t] \in {"checking", "adding", "merging", "starting", "grinding",
                        "cleaning", "reporting"}
          /\ \E p \in Points : pc' = [pc EXCEPT ![t] = p]
      BY <1>3, <2>2 DEF TaskStep, RunSingleTask, CheckBranch, AddWorktree, MergeBranches,
         Announce, GrindReturns, GrindRaises, CleanupWorktree, Report, StartsRunning, SetupFails,
         Proceeds, Notify, Raise, Goto, Points
    <3> QED
      BY <1>0, <3>1 DEF Holders
  <2> QED
    BY <2>1, <2>2
<1> QED
  BY <1>1, <1>2, <1>3 DEF Next, Loop

(* At most max_parallel tasks are under way, in every state.                *)
THEOREM Parallelism == Spec => []BoundedParallelism
<1>1. Init => BoundedParallelism
  <2> SUFFICES ASSUME Init PROVE BoundedParallelism
    OBVIOUS
  <2>1. Holders = {}
    BY DEF Init, Holders
  <2> QED
    <3>1. Cardinality(Holders) = 0
      BY <2>1, FS_EmptySet
    <3> QED
      BY <3>1 DEF BoundedParallelism
<1>2. DagInv /\ DagInv' /\ BoundedParallelism /\ [Next]_vars => BoundedParallelism'
  <2> SUFFICES ASSUME DagInv, DagInv', BoundedParallelism, [Next]_vars
               PROVE  BoundedParallelism'
    OBVIOUS
  <2>0. /\ IsFiniteSet(Holders) /\ Cardinality(Holders) \in Nat
        /\ IsFiniteSet(Holders') /\ Cardinality(Holders') \in Nat
    BY Countable DEF Holders
  <2>1. CASE UNCHANGED vars
    BY <2>1 DEF vars, BoundedParallelism, Holders
  <2>2. CASE Holders' \subseteq Holders
    <3>1. Cardinality(Holders') <= Cardinality(Holders)
      BY <2>0, <2>2, FS_Subset
    <3> QED
      BY <2>0, <3>1 DEF BoundedParallelism
  <2>3. CASE /\ Cardinality(Holders) < MaxParallel
             /\ \E t \in Tasks : Holders' = Holders \cup {t}
    <3>1. Cardinality(Holders') <= Cardinality(Holders) + 1
      BY <2>0, <2>3, FS_AddElement
    <3> QED
      BY <2>0, <2>3, <3>1 DEF BoundedParallelism
  <2> QED
    BY <2>1, <2>2, <2>3, HoldersStep
<1> QED
  BY Invariance, <1>1, <1>2, PTL DEF Spec

------------------------------------------------------------------------------
(* The refinement.  What a step of one task does to its own verdict, and    *)
(* that it leaves the others alone.                                         *)
LEMMA OthersKeepVerdict ==
    ASSUME DagInv, NEW t \in Tasks, TaskStep(t), NEW u \in Tasks \ {t}
    PROVE  Verdict(u)' = Verdict(u)
<1>1. pc \in [Tasks -> Points]
  BY DEF DagInv, TypeOK
<1> QED
  BY <1>1 DEF TaskStep, RunSingleTask, Acquire, CheckBranch, AddWorktree, MergeBranches,
     Announce, GrindReturns, GrindRaises, CleanupWorktree, Report, StartsRunning, SetupFails, Proceeds,
     Notify, Raise, Goto, UpdateTaskStatus, With, verdictVars, Verdict, Unsuccessful

LEMMA OwnVerdict ==
    ASSUME DagInv, NEW t \in Tasks, TaskStep(t)
    PROVE  \/ Verdict(t)' = Verdict(t)
           \/ /\ Verdict(t) = "waiting" /\ Verdict(t)' = "running"
              /\ Cardinality(Holders) < MaxParallel
           \/ Verdict(t) = "waiting" /\ Verdict(t)' = "unsuccessful"
           \/ Verdict(t) = "running" /\ Verdict(t)' \in {"succeeded", "unsuccessful"}
<1>0. pc \in [Tasks -> Points]
  BY DEF DagInv, TypeOK
<1>1. CASE pc[t] \in {"queued", "checking", "adding", "merging", "starting", "grinding"}
  <2>1. t \notin Ran /\ t \notin blocked
    BY <1>1 DEF DagInv, Placement
  <2>2. CASE Acquire(t)
    BY <1>0, <2>1, <2>2 DEF Acquire, StartsRunning, SetupFails, Proceeds, Notify, Raise,
       Goto, verdictVars, Verdict, Unsuccessful, Ran
  <2>3. CASE \/ CheckBranch(t) \/ AddWorktree(t) \/ MergeBranches(t)
             \/ Announce(t) \/ GrindRaises(t)
    BY <1>0, <2>1, <2>3 DEF CheckBranch, AddWorktree, MergeBranches, Announce, GrindRaises,
       StartsRunning, SetupFails, Proceeds, Notify, Raise, Goto, verdictVars, Verdict,
       Unsuccessful, Ran
  <2>4. CASE GrindReturns(t)
    BY <1>0, <2>1, <2>4 DEF GrindReturns, Goto, UpdateTaskStatus, With, Verdict,
       Unsuccessful, Ran, Outcomes
  <2>5. CASE CleanupWorktree(t) \/ Report(t)
    BY <1>1, <2>5 DEF CleanupWorktree, Report
  <2> QED
    BY <2>2, <2>3, <2>4, <2>5 DEF TaskStep, RunSingleTask
<1>2. CASE pc[t] \in {"cleaning", "reporting"}
  <2>1. t \in Ran
    BY <1>2 DEF DagInv, Placement
  <2>2. UNCHANGED verdictVars
    BY <1>2 DEF TaskStep, RunSingleTask, Acquire, CheckBranch, AddWorktree,
       MergeBranches, Announce, GrindReturns, GrindRaises, CleanupWorktree, Report
  <2> QED
    BY <2>1, <2>2 DEF Verdict, Unsuccessful, Ran, verdictVars
<1> QED
  BY <1>0, <1>1, <1>2 DEF TaskStep, RunSingleTask, Acquire, CheckBranch, AddWorktree,
     MergeBranches, Announce, GrindReturns, GrindRaises, CleanupWorktree, Report

LEMMA PhaseStaysOpen ==
    ASSUME NEW t \in Tasks, TaskStep(t)
    PROVE  phase # "closed" /\ phase' # "closed" /\ UNCHANGED depends_on
BY DEF TaskStep, RunSingleTask, Acquire, CheckBranch, AddWorktree, MergeBranches,
     Announce, GrindReturns, GrindRaises, CleanupWorktree, Report, StartsRunning, SetupFails, Proceeds,
     Notify, Raise, graphVars

(* A task whose verdict is "waiting" and that takes a step is queued, so    *)
(* everything it depends on has succeeded.                                  *)
LEMMA QueuedSatisfied ==
    ASSUME DagInv, NEW t \in Tasks, TaskStep(t), Verdict(t) = "waiting"
    PROVE  Schedule!Satisfied(t)
<1>1. pc[t] \in {"idle", "queued"}
  BY DEF Verdict
<1>2. pc[t] # "idle"
  BY DEF TaskStep, RunSingleTask, Acquire, CheckBranch, AddWorktree, MergeBranches,
     Announce, GrindReturns, GrindRaises, CleanupWorktree, Report
<1>3. depends_on[t] \subseteq completed
  BY <1>2 DEF DagInv, RunsAfterDependencies
<1>4. depends_on[t] \subseteq Tasks
  BY DEF DagInv, TypeOK, AcyclicGraphs
<1> QED
  BY <1>3, <1>4 DEF Schedule!Satisfied, Verdict

LEMMA TaskRefines ==
    ASSUME DagInv, NEW t \in Tasks, TaskStep(t)
    PROVE  Schedule!Start(t) \/ Schedule!Finish(t) \/ UNCHANGED Schedule!vars
<1> DEFINE V == [u \in Tasks |-> Verdict(u)]
<1>1. V' = [V EXCEPT ![t] = Verdict(t)']
  BY OthersKeepVerdict
<1>2. (phase = "closed")' = (phase = "closed") /\ UNCHANGED depends_on
  BY PhaseStaysOpen
<1>3. CASE Verdict(t)' = Verdict(t)
  <2>1. V' = V
    BY <1>1, <1>3
  <2> QED
    BY <1>2, <2>1 DEF Schedule!vars
<1>4. CASE /\ Verdict(t) = "waiting" /\ Verdict(t)' = "running"
           /\ Cardinality(Holders) < MaxParallel
  <2>1. Schedule!Running \subseteq Holders
    BY DEF Schedule!Running, Holders, Verdict, DagInv, Placement, Ran, Unsuccessful
  <2>2. Cardinality(Schedule!Running) <= Cardinality(Holders)
    BY <2>1, Countable, FS_Subset DEF Holders
  <2>3. Cardinality(Schedule!Running) \in Nat /\ Cardinality(Holders) \in Nat
    BY Countable DEF Holders, Schedule!Running
  <2>4. Cardinality(Schedule!Running) < MaxParallel
    BY <1>4, <2>2, <2>3
  <2>5. Schedule!Cardinality(Schedule!Running) = Cardinality(Schedule!Running)
    BY DEF Schedule!Cardinality, Cardinality
  <2> QED
    BY <1>1, <1>2, <1>4, <2>4, <2>5, QueuedSatisfied DEF Schedule!Start
<1>5. CASE Verdict(t) = "waiting" /\ Verdict(t)' = "unsuccessful"
  BY <1>1, <1>2, <1>5, QueuedSatisfied DEF Schedule!Start
<1>6. CASE Verdict(t) = "running" /\ Verdict(t)' \in {"succeeded", "unsuccessful"}
  BY <1>1, <1>2, <1>6 DEF Schedule!Finish
<1> QED
  BY <1>3, <1>4, <1>5, <1>6, OwnVerdict

(* Marking blocked tasks is a Block of the schedule.                        *)
LEMMA MarkingRefines ==
    ASSUME DagInv, NEW S \in SUBSET NewlyBlocked, MarkTasksBlocked(S),
           UNCHANGED depends_on, phase # "closed", phase' # "closed",
           \A t \in Tasks : pc'[t] = pc[t] \/ (pc[t] = "idle" /\ pc'[t] = "queued")
    PROVE  Schedule!Block(S)
<1>1. \A t \in S : t \in Tasks /\ pc[t] = "idle" /\ t \notin Ran /\ t \notin blocked
  BY DEF NewlyBlocked, DagInv, TypeOK, Placement
<1>2. \A t \in S : Verdict(t) = "waiting"
  BY <1>1 DEF Verdict, Ran, Unsuccessful
<1>3. \A t \in S : Schedule!Doomed(t)
  <2> TAKE t \in S
  <2>1. PICK d \in depends_on[t] : d \in Unsuccessful
    BY DEF NewlyBlocked
  <2>2. d \in Tasks /\ d \notin completed
    BY <2>1 DEF DagInv, TypeOK, VerdictsAgree, Unsuccessful
  <2>3. Verdict(d) \in {"unsuccessful", "blocked"}
    BY <2>1, <2>2 DEF Verdict
  <2> QED
    BY <2>1, <2>2, <2>3 DEF Schedule!Doomed
<1>4. \A t \in Tasks : Verdict(t)' = IF t \in S THEN "blocked" ELSE Verdict(t)
  BY <1>1 DEF MarkTasksBlocked, Verdict, Unsuccessful, Ran
<1> QED
  BY <1>1, <1>2, <1>3, <1>4 DEF Schedule!Block

(* The executor implements the safety part of the schedule.                 *)
THEOREM ScheduleImplemented == Spec => Schedule!SafeSpec
<1>1. Init => Schedule!Init
  BY DEF Init, Schedule!Init, Verdict, Unsuccessful, AcyclicGraphs, Acyclic,
         Schedule!AcyclicGraphs, Schedule!Acyclic
<1>2. DagInv /\ [Next]_vars => [Schedule!Next]_(Schedule!vars)
  <2> SUFFICES ASSUME DagInv, [Next]_vars
               PROVE  Schedule!Next \/ UNCHANGED Schedule!vars
    BY DEF Schedule!vars
  <2>0. NewlyBlocked \subseteq Tasks
    BY DEF NewlyBlocked, DagInv, TypeOK
  <2>1. CASE ScheduleWave
    <3>1. \A t \in Tasks : pc'[t] = pc[t] \/ (pc[t] = "idle" /\ pc'[t] = "queued")
      BY <2>1 DEF ScheduleWave, Ready, DagInv, Placement
    <3>2. Schedule!Block(NewlyBlocked)
      BY <2>1, <3>1, MarkingRefines DEF ScheduleWave, graphVars
    <3> QED
      BY <2>0, <3>2 DEF Schedule!Next
  <2>2. CASE MarkingRaises
    <3>1. PICK S \in SUBSET NewlyBlocked : MarkTasksBlocked(S)
      BY <2>2 DEF MarkingRaises
    <3>2. Schedule!Block(S)
      BY <2>2, <3>1, MarkingRefines DEF MarkingRaises, graphVars
    <3> QED
      BY <2>0, <3>2 DEF Schedule!Next
  <2>3. CASE Return \/ Over \/ UNCHANGED vars
    BY <2>3 DEF Return, Over, vars, graphVars, loopVars, verdictVars, Schedule!vars,
       Verdict, Unsuccessful
  <2>4. CASE LoopCloses
    BY <2>4 DEF LoopCloses, graphVars, verdictVars, Schedule!Next, Schedule!Halt,
       Verdict, Unsuccessful
  <2>5. CASE \E t \in Tasks : TaskStep(t)
    BY <2>5, TaskRefines DEF Schedule!Next
  <2> QED
    BY <2>1, <2>2, <2>3, <2>4, <2>5 DEF Next, Loop
<1> QED
  BY Invariance, <1>1, <1>2, PTL DEF Spec, Schedule!SafeSpec

------------------------------------------------------------------------------
(* No deadlock.  What a wave hands to gather it also puts in the line in    *)
(* front of the semaphore; a coroutine that raised ended the executing.     *)
Lined ==
    /\ \A t \in Tasks :
           pc[t] = "queued" => \E i \in DOMAIN execution_order : execution_order[i] = t
    /\ \A t \in Tasks : pc[t] = "raised" => phase \notin {"executing", "returned"}

(* A wave holds every ready task.                                           *)
LEMMA WaveCovers ==
    ASSUME NEW S \in SUBSET Tasks, NEW wave \in SetToSeqs(S), NEW t \in S
    PROVE  \E i \in DOMAIN wave : wave[i] = t
<1> DEFINE n == Cardinality(S)
<1>1. IsFiniteSet(S) /\ n \in Nat
  BY FS_Subset, FS_CardinalityType
<1>2. wave \in [1..n -> S] /\ \A i, j \in 1..n : i # j => wave[i] # wave[j]
  BY DEF SetToSeqs
<1>3. wave \in Injection(1..n, S)
  BY <1>2 DEF Injection, IsInjective
<1>4. Cardinality(1..n) = n
  BY <1>1, FS_Interval
<1>5. wave \in Surjection(1..n, S)
  BY <1>1, <1>3, <1>4, FS_Injection
<1> QED
  BY <1>5 DEF Surjection

(* Lengthening the line keeps everybody's place in it ...                   *)
LEMMA StillInLine ==
    ASSUME NEW line \in Seq(Tasks), NEW wave \in Seq(Tasks), NEW i \in DOMAIN line
    PROVE  \E k \in DOMAIN (line \o wave) : (line \o wave)[k] = line[i]
<1>1. i \in DOMAIN (line \o wave) /\ (line \o wave)[i] = line[i]
  OBVIOUS
<1> QED
  BY <1>1

(* ... and gives the newcomers theirs.                                      *)
LEMMA NowInLine ==
    ASSUME NEW line \in Seq(Tasks), NEW wave \in Seq(Tasks), NEW i \in DOMAIN wave
    PROVE  \E k \in DOMAIN (line \o wave) : (line \o wave)[k] = wave[i]
<1>1. /\ Len(line) + i \in DOMAIN (line \o wave)
      /\ (line \o wave)[Len(line) + i] = wave[i]
  OBVIOUS
<1> QED
  BY <1>1

LEMMA LinedInv == DagInv /\ Lined /\ [Next]_vars => Lined'
<1> SUFFICES ASSUME DagInv, Lined, [Next]_vars PROVE Lined'
  OBVIOUS
<1>0. pc \in [Tasks -> Points] /\ execution_order \in Seq(Tasks)
  BY DEF DagInv, TypeOK
<1>1. CASE ScheduleWave
  <2>1. PICK wave \in SetToSeqs(Ready) : execution_order' = execution_order \o wave
    BY <1>1 DEF ScheduleWave
  <2>2. Ready \subseteq Tasks
    BY DEF Ready, DagInv, TypeOK
  <2>3. wave \in Seq(Tasks)
    BY <2>1, <2>2, WaveType
  <2>4. ASSUME NEW t \in Tasks, pc'[t] = "queued"
        PROVE  \E i \in DOMAIN execution_order' : execution_order'[i] = t
    <3>1. CASE t \in Ready
      <4>1. PICK i \in DOMAIN wave : wave[i] = t
        BY <2>1, <2>2, <3>1, WaveCovers
      <4>2. \E k \in DOMAIN (execution_order \o wave) : (execution_order \o wave)[k] = wave[i]
        BY <1>0, <2>3, NowInLine
      <4> QED
        BY <2>1, <4>1, <4>2
    <3>2. CASE t \notin Ready
      <4>1. pc[t] = "queued"
        BY <1>1, <2>4, <3>2 DEF ScheduleWave
      <4>2. PICK i \in DOMAIN execution_order : execution_order[i] = t
        BY <4>1 DEF Lined
      <4>3. \E k \in DOMAIN (execution_order \o wave) :
                (execution_order \o wave)[k] = execution_order[i]
        BY <1>0, <2>3, StillInLine
      <4> QED
        BY <2>1, <4>2, <4>3
    <3> QED
      BY <3>1, <3>2
  <2>5. \A t \in Tasks : pc'[t] # "raised"
    BY <1>0, <1>1 DEF ScheduleWave, WaveOver
  <2> QED
    BY <2>4, <2>5 DEF Lined
<1>2. CASE MarkingRaises \/ Return \/ LoopCloses \/ Over \/ UNCHANGED vars
  BY <1>2 DEF MarkingRaises, Return, LoopCloses, Over, vars, loopVars, WaveOver, Lined
<1>3. ASSUME NEW t \in Tasks, TaskStep(t) PROVE Lined'
  <2>1. /\ UNCHANGED execution_order
        /\ \E p \in Points \ {"queued"} :
               /\ pc' = [pc EXCEPT ![t] = p]
               /\ \/ p # "raised" /\ phase' = phase
                  \/ p = "raised" /\ phase' = "raised"
    BY <1>3 DEF TaskStep, RunSingleTask, Acquire, CheckBranch, AddWorktree, MergeBranches,
       Announce, GrindReturns, GrindRaises, CleanupWorktree, Report, StartsRunning,
       SetupFails, Proceeds, Notify, Raise, Goto, Points, loopVars
  <2>2. phase \in {"executing", "raised"}
    BY <1>3 DEF TaskStep
  <2> QED
    BY <1>0, <2>1, <2>2 DEF Lined
<1> QED
  BY <1>1, <1>2, <1>3 DEF Next, Loop

(* When t's coroutine can go on: it holds the semaphore, or it is next in   *)
(* line for one that is free; and when the execution loop can.  They are    *)
(* the guards of TaskStep(t) and Loop.                                      *)
TaskMay(t) ==
    /\ phase \in {"executing", "raised"}
    /\ \/ pc[t] = "queued" /\ FirstInLine(t) /\ Cardinality(Holders) < MaxParallel
       \/ t \in Holders

LoopMay == phase = "raised" \/ (phase = "executing" /\ WaveOver)

NeverStuck ==
    phase \in {"executing", "raised"} => LoopMay \/ \E t \in Tasks : TaskMay(t)

(* Of the queued tasks, one is first in line.                               *)
LEMMA SomeoneIsFirst ==
    ASSUME DagInv, Lined, NEW t \in Tasks, pc[t] = "queued"
    PROVE  \E u \in Tasks : pc[u] = "queued" /\ FirstInLine(u)
<1> DEFINE Waiting == {i \in DOMAIN execution_order : pc[execution_order[i]] = "queued"}
<1>0. execution_order \in Seq(Tasks)
  BY DEF DagInv, TypeOK
<1>1. Waiting # {} /\ Waiting \subseteq Nat
  BY <1>0 DEF Lined
<1>2. PICK i \in Waiting : \A j \in Waiting : ~(<<j, i>> \in OpToRel(<, Nat))
  BY <1>1, NatLessThanWellFounded, WFMin
<1>3. \A j \in Waiting : ~(j < i)
  BY <1>1, <1>2 DEF OpToRel
<1>4. execution_order[i] \in Tasks /\ pc[execution_order[i]] = "queued"
  BY <1>0
<1>5. \A j \in 1..(i - 1) : pc[execution_order[j]] # "queued"
  BY <1>0, <1>3
<1>6. FirstInLine(execution_order[i])
  BY <1>5 DEF FirstInLine
<1> QED
  BY <1>4, <1>6

(* Until execute returned or its event loop was closed, the loop or one of  *)
(* the coroutines can go on: no wave is left waiting for the semaphore,     *)
(* whatever max_parallel, and none for a task that cannot move.             *)
THEOREM Unstuck == Spec => []NeverStuck
<1>1. Init => Lined
  BY DEF Init, Lined
<1>2. DagInv /\ Lined => NeverStuck
  <2> SUFFICES ASSUME DagInv, Lined, phase = "executing", ~WaveOver
               PROVE  \E t \in Tasks : TaskMay(t)
    BY DEF NeverStuck, LoopMay
  <2>1. PICK t \in Tasks : pc[t] \notin {"idle", "finished", "raised"}
    BY DEF WaveOver, Lined
  <2>2. CASE Holders # {}
    BY <2>2 DEF TaskMay, Holders
  <2>3. CASE Holders = {}
    <3>1. pc[t] = "queued"
      BY <2>1, <2>3 DEF Holders
    <3>2. PICK u \in Tasks : pc[u] = "queued" /\ FirstInLine(u)
      BY <3>1, SomeoneIsFirst
    <3>3. Cardinality(Holders) = 0
      BY <2>3, FS_EmptySet
    <3>4. Cardinality(Holders) < MaxParallel
      BY <3>3
    <3> QED
      BY <3>2, <3>4 DEF TaskMay
  <2> QED
    BY <2>2, <2>3
<1> QED
  BY Invariance, LinedInv, <1>1, <1>2, PTL DEF Spec

------------------------------------------------------------------------------
(* No way back.  How far a coroutine and the execution have come.           *)
Place(point) ==
    CASE point = "idle" -> 0
      [] point = "queued" -> 1
      [] point = "checking" -> 2
      [] point = "adding" -> 3
      [] point = "merging" -> 4
      [] point = "starting" -> 5
      [] point = "grinding" -> 6
      [] point = "cleaning" -> 7
      [] point = "reporting" -> 8
      [] point \in {"finished", "raised"} -> 9

Stage(p) == CASE p = "executing" -> 0 [] p = "raised" -> 1 [] p \in {"returned", "closed"} -> 2

Onward ==
    /\ \A t \in Tasks : Place(pc'[t]) >= Place(pc[t])
    /\ Stage(phase') >= Stage(phase)
    /\ pending' \subseteq pending
    /\ \/ \E t \in Tasks : Place(pc'[t]) > Place(pc[t])
       \/ Stage(phase') > Stage(phase)
       \/ pending' # pending

LEMMA TaskOnward ==
    ASSUME DagInv, NEW t \in Tasks, TaskStep(t)
    PROVE  Onward
<1>0. pc \in [Tasks -> Points]
  BY DEF DagInv, TypeOK
<1>1. /\ pending' = pending
      /\ phase' = phase \/ phase' = "raised"
      /\ phase \in {"executing", "raised"}
  BY DEF TaskStep, RunSingleTask, Acquire, CheckBranch, AddWorktree, MergeBranches,
     Announce, GrindReturns, GrindRaises, CleanupWorktree, Report, StartsRunning,
     SetupFails, Proceeds, Notify, Raise, Goto, loopVars
<1>2. \E p \in Points : pc' = [pc EXCEPT ![t] = p] /\ Place(p) > Place(pc[t])
  BY DEF TaskStep, RunSingleTask, Acquire, CheckBranch, AddWorktree, MergeBranches,
     Announce, GrindReturns, GrindRaises, CleanupWorktree, Report, StartsRunning,
     SetupFails, Proceeds, Notify, Raise, Goto, Points, Place
<1>3. Stage(phase') >= Stage(phase)
  BY <1>1 DEF Stage
<1>4. \A p \in Points : Place(p) \in Nat
  BY DEF Points, Place
<1> QED
  BY <1>0, <1>1, <1>2, <1>3, <1>4 DEF Onward

(* Every step leads on: a coroutine goes forward, a task leaves pending, or *)
(* the execution ends, and nothing is ever taken back.  An execution has    *)
(* finitely many steps; with Unstuck this is what Terminates rests on.      *)
THEOREM NoWayBack == Spec => [][Onward]_vars
<1>1. DagInv /\ [Next]_vars => [Onward]_vars
  <2> SUFFICES ASSUME DagInv, Next PROVE Onward \/ UNCHANGED vars
    OBVIOUS
  <2>0. /\ pc \in [Tasks -> Points] /\ pending \subseteq Tasks
        /\ \A p \in Points : Place(p) \in Nat
    BY DEF DagInv, TypeOK, Points, Place
  <2>1. CASE ScheduleWave
    <3>1. Ready \subseteq pending /\ NewlyBlocked \subseteq pending
      BY DEF Ready, NewlyBlocked
    <3>2. \A t \in Tasks : pc'[t] = pc[t] \/ (pc[t] = "idle" /\ pc'[t] = "queued")
      BY <2>0, <2>1, <3>1 DEF ScheduleWave, DagInv, Placement
    <3>3. \A t \in Tasks : Place(pc'[t]) >= Place(pc[t])
      <4> TAKE t \in Tasks
      <4>1. CASE pc'[t] = pc[t]
        <5>1. Place(pc[t]) \in Nat
          BY <2>0
        <5> QED
          BY <4>1, <5>1
      <4>2. CASE pc[t] = "idle" /\ pc'[t] = "queued"
        BY <4>2 DEF Place
      <4> QED
        BY <3>2, <4>1, <4>2
    <3>4. pending' = pending \ (NewlyBlocked \cup Ready) /\ NewlyBlocked \cup Ready # {}
          /\ phase' = phase /\ phase = "executing"
      BY <2>1 DEF ScheduleWave
    <3> QED
      BY <3>1, <3>3, <3>4 DEF Onward, Stage
  <2>2. CASE MarkingRaises \/ Return \/ LoopCloses
    <3>1. /\ pc' = pc /\ pending' \subseteq pending
          /\ \/ phase = "executing" /\ phase' \in {"raised", "returned"}
             \/ phase = "raised" /\ phase' = "closed"
      BY <2>2 DEF MarkingRaises, Return, LoopCloses, loopVars
    <3>2. \A t \in Tasks : Place(pc'[t]) >= Place(pc[t])
      <4> TAKE t \in Tasks
      <4>1. Place(pc[t]) \in Nat
        BY <2>0
      <4> QED
        BY <3>1, <4>1
    <3>3. Stage(phase') > Stage(phase) /\ Stage(phase') >= Stage(phase)
      BY <3>1 DEF Stage
    <3> QED
      BY <3>1, <3>2, <3>3 DEF Onward
  <2>3. CASE Over
    BY <2>3 DEF Over
  <2> QED
    BY <2>1, <2>2, <2>3, TaskOnward DEF Next, Loop
<1> QED
  BY Invariance, <1>1, PTL DEF Spec

==============================================================================
