--------------------------- MODULE TuiAgentsProofs ---------------------------
(***************************************************************************)
(* Theorems about the agents of the TUI for any number of agents, any      *)
(* capacity and any number of cancellations under way.                     *)
(***************************************************************************)
EXTENDS TuiAgents, FiniteSetTheorems, TLAPS

USE TuiAssumption

Unfinished == Live \union {"stillborn"}

\* A status that is not final belongs to an agent of the session, a task that
\* has not begun to a pending one, and a pending agent of an open app has no
\* other task: a created one can be cancelled only by cleanup(), since the
\* workers of cancel_agent are started for agents that run.
Statuses ==
    /\ \A a \in Agents : status[a] \in {"pending", "running", "paused"} => a \in agents
    /\ \A a \in Agents : run[a] = "created" => status[a] = "pending"
    /\ \A a \in Agents : status[a] \in {"none", "pending"} /\ app = "open" =>
         run[a] \in {"none", "created"}
    /\ \A a \in Agents : status[a] = "none" => run[a] = "none"
    /\ \A a \in Agents : status[a] = "paused" => loose
    /\ \A a \in Agents : asked[a] > 0 => run[a] \in {"running", "cancelling", "finished", "gone"}

\* cleanup() has still to wait for every task that has not ended, and leaves
\* none.
CleaningUp ==
    /\ \A a, b \in cleaning.at : a = b
    /\ app = "cleaning" =>
         \A a \in Agents : run[a] \in Unfinished => a \in cleaning.at \cup cleaning.left
    /\ app = "exited" => active = {} /\ \A a \in Agents : run[a] \notin Unfinished

AgentsInv == TypeOK /\ TasksTracked /\ StatusFollowsTask /\ Statuses /\ CleaningUp

LEMMA InitInv == Init => AgentsInv
<1> SUFFICES ASSUME Init PROVE AgentsInv
  OBVIOUS
<1>1. TypeOK
  <2>1. /\ asked \in [Agents -> Nat] /\ cancels \in [Agents -> Nat]
        /\ cleaning \in [at: SUBSET Agents, left: SUBSET Agents]
    BY DEF Init, NoAgent
  <2> QED
    BY <2>1 DEF Init, TypeOK
<1>2. TasksTracked
  BY DEF Init, TasksTracked, Live
<1>3. StatusFollowsTask /\ Statuses /\ CleaningUp
  BY DEF Init, StatusFollowsTask, Statuses, CleaningUp, NoAgent, Final
<1> QED
  BY <1>1, <1>2, <1>3 DEF AgentsInv

\* Agents that are started together have no task yet.
LEMMA StartAllInv ==
    ASSUME AgentsInv, Turn, NEW wanted \in SUBSET Agents, StartAll(wanted),
           \A a \in wanted : run[a] = "none",
           \/ /\ UNCHANGED <<agents, status>>
              /\ \A a \in wanted : status[a] = "pending"
           \/ /\ agents' = agents \union wanted
              /\ status' = [a \in Agents |-> IF a \in wanted THEN "pending" ELSE status[a]],
           UNCHANGED <<paused, asked, cancels, app, cleaning>>
    PROVE  AgentsInv'
<1>1. /\ \A a \in wanted : run'[a] \in {"none", "created"} /\ status'[a] = "pending"
      /\ \A a \in Agents \ wanted : run'[a] = run[a] /\ status'[a] = status[a]
      /\ \A a \in wanted : run'[a] = "created" <=> a \in active'
      /\ \A a \in Agents \ wanted : a \in active' <=> a \in active
      /\ agents' \in {agents, agents \union wanted} /\ (\A a \in wanted : a \in agents')
  BY DEF StartAll, AgentsInv, TypeOK, TasksTracked, Statuses, Turn, Live
<1>2. TypeOK'
  BY DEF StartAll, AgentsInv, TypeOK
<1>3. TasksTracked'
  <2>1. active' \subseteq Agents
    BY <1>2 DEF TypeOK
  <2> QED
    BY <1>1, <2>1 DEF AgentsInv, TasksTracked, Turn, Live
<1>4. StatusFollowsTask'
  BY <1>1 DEF AgentsInv, StatusFollowsTask, Final
<1>5. Statuses'
  <2>1. \A a \in Agents : asked'[a] > 0 =>
           a \notin wanted /\ run'[a] \in {"running", "cancelling", "finished", "gone"}
    BY <1>1 DEF AgentsInv, Statuses
  <2>2. \A a \in Agents :
           /\ status'[a] \in {"pending", "running", "paused"} => a \in agents'
           /\ run'[a] = "created" => status'[a] = "pending"
           /\ status'[a] \in {"none", "pending"} /\ app' = "open" => run'[a] \in {"none", "created"}
           /\ status'[a] = "none" => run'[a] = "none"
    BY <1>1 DEF AgentsInv, Statuses
  <2>3. \A a \in Agents : status'[a] = "paused" => loose'
    BY <1>1 DEF AgentsInv, Statuses, StartAll
  <2> QED
    BY <2>1, <2>2, <2>3 DEF Statuses
<1>6. CleaningUp'
  BY DEF AgentsInv, CleaningUp, Turn
<1> QED
  BY <1>2, <1>3, <1>4, <1>5, <1>6 DEF AgentsInv

LEMMA RunTasksInv ==
    ASSUME AgentsInv, NEW new \in SUBSET Agents, RunTasks(new)
    PROVE  AgentsInv'
<1>1. \A a \in new : run[a] = "none"
  BY DEF AgentsInv, Statuses, RunTasks
<1> QED
  BY <1>1, StartAllInv DEF RunTasks

LEMMA StartInv ==
    ASSUME AgentsInv, NEW wanted \in SUBSET Agents, Start(wanted)
    PROVE  AgentsInv'
<1>1. \A a \in wanted : status[a] = "pending" /\ run[a] = "none"
  BY DEF AgentsInv, Statuses, Start, With, Turn
<1> QED
  BY <1>1, StartAllInv DEF Start

\* A step of the task of one agent.
LEMMA TaskInv ==
    ASSUME AgentsInv, NEW a \in Agents,
           \/ Begin(a) \/ NeverBegun(a) \/ Finish(a) \/ FinishCancelled(a) \/ DoneCallback(a)
    PROVE  AgentsInv'
<1>1. CASE Begin(a)
  BY <1>1 DEF Begin, AgentsInv, TypeOK, TasksTracked, StatusFollowsTask, Statuses,
     CleaningUp, Final, Live, Unfinished
<1>2. CASE NeverBegun(a)
  BY <1>2 DEF NeverBegun, AgentsInv, TypeOK, TasksTracked, StatusFollowsTask, Statuses,
     CleaningUp, Final, Live, Unfinished
<1>3. CASE Finish(a)
  BY <1>3 DEF Finish, AgentsInv, TypeOK, TasksTracked, StatusFollowsTask, Statuses,
     CleaningUp, Final, Live, Unfinished
<1>4. CASE FinishCancelled(a)
  BY <1>4 DEF FinishCancelled, AgentsInv, TypeOK, TasksTracked, StatusFollowsTask, Statuses,
     CleaningUp, Final, Live, Unfinished
<1>5. CASE DoneCallback(a)
  BY <1>5 DEF DoneCallback, AgentsInv, TypeOK, TasksTracked, StatusFollowsTask, Statuses,
     CleaningUp, Final, Live, Unfinished
<1> QED
  BY <1>1, <1>2, <1>3, <1>4, <1>5

\* The cancellations of the dashboard, which may find that the task has ended
\* or that its entry has gone.
LEMMA CancelInv ==
    ASSUME AgentsInv,
           \/ DashboardCancels
           \/ \E a \in Agents : \/ NothingToCancel(a) \/ CancelAgent(a)
                               \/ CancelTooLate(a) \/ CancelReturns(a)
    PROVE  AgentsInv'
<1>1. CASE DashboardCancels
  <2>1. asked' \in [Agents -> Nat]
    BY <1>1 DEF DashboardCancels, AgentsInv, TypeOK
  <2>2. \A a \in Agents : asked'[a] > 0 => run[a] \in {"running", "cancelling", "finished", "gone"}
    BY <1>1 DEF DashboardCancels, With, AgentsInv, StatusFollowsTask, Statuses, TypeOK
  <2> QED
    BY <1>1, <2>1, <2>2 DEF DashboardCancels, AgentsInv, TypeOK, TasksTracked, StatusFollowsTask,
       Statuses, CleaningUp
<1>2. ASSUME NEW a \in Agents, asked[a] > 0, asked' = [asked EXCEPT ![a] = @ - 1]
      PROVE  /\ asked' \in [Agents -> Nat]
             /\ \A b \in Agents : asked'[b] > 0 => asked[b] > 0
  BY <1>2 DEF AgentsInv, TypeOK
<1>3. ASSUME NEW a \in Agents, NothingToCancel(a) PROVE AgentsInv'
  <2>1. /\ asked' \in [Agents -> Nat]
        /\ \A b \in Agents : asked'[b] > 0 => asked[b] > 0
    BY <1>2, <1>3 DEF NothingToCancel
  <2> QED
    BY <1>3, <2>1 DEF NothingToCancel, AgentsInv, TypeOK, TasksTracked, StatusFollowsTask,
       Statuses, CleaningUp
<1>4. ASSUME NEW a \in Agents, CancelAgent(a) PROVE AgentsInv'
  <2>1. /\ asked' \in [Agents -> Nat]
        /\ \A b \in Agents : asked'[b] > 0 => asked[b] > 0
    BY <1>2, <1>4 DEF CancelAgent
  <2>2. /\ run[a] \in {"running", "cancelling"} \/ run[a] = "gone"
        /\ a \in active /\ (app = "exited" => active = {})
    BY <1>4 DEF CancelAgent, AgentsInv, Statuses, CleaningUp
  <2>3. /\ run[a] \in {"running", "cancelling"}
        /\ run' = [run EXCEPT ![a] = "cancelling"]
    BY <1>4, <2>2 DEF CancelAgent, Cancelled, AgentsInv, TasksTracked, TypeOK, Live
  <2>4. cancels' \in [Agents -> Nat]
    BY <1>4 DEF CancelAgent, AgentsInv, TypeOK
  <2> QED
    BY <1>4, <2>1, <2>3, <2>4 DEF CancelAgent, AgentsInv, TypeOK, TasksTracked, StatusFollowsTask,
       Statuses, CleaningUp, Final, Live, Unfinished
<1>5. ASSUME NEW a \in Agents, CancelTooLate(a) PROVE AgentsInv'
  <2>1. /\ asked' \in [Agents -> Nat]
        /\ \A b \in Agents : asked'[b] > 0 => asked[b] > 0
    BY <1>2, <1>5 DEF CancelTooLate
  <2>2. /\ run[a] = "finished" /\ active' = active \ {a}
        /\ status' = [status EXCEPT ![a] = IF a \in agents THEN "cancelled" ELSE @]
        /\ UNCHANGED <<agents, run, paused, cancels, loose, app, cleaning>>
    BY <1>5 DEF CancelTooLate, Unlist
  <2>3. TypeOK' /\ TasksTracked' /\ StatusFollowsTask'
    BY <2>1, <2>2 DEF AgentsInv, TypeOK, TasksTracked, StatusFollowsTask, Final, Live
  <2>4. Statuses' /\ CleaningUp'
    BY <2>1, <2>2 DEF AgentsInv, TypeOK, Statuses, CleaningUp
  <2> QED
    BY <2>3, <2>4 DEF AgentsInv
<1>6. ASSUME NEW a \in Agents, CancelReturns(a) PROVE AgentsInv'
  <2>1. a \notin active
    BY <1>6 DEF CancelReturns, AgentsInv, TasksTracked, CleaningUp, Live
  <2>2. cancels' \in [Agents -> Nat]
    BY <1>6 DEF CancelReturns, AgentsInv, TypeOK
  <2>3. /\ UNCHANGED <<agents, status, run, active, paused, asked, loose, cleaning>>
        /\ app' \in {app, "quitting"} /\ (app # "open" => app' = app)
    BY <1>6, <2>1 DEF CancelReturns
  <2> QED
    BY <2>2, <2>3 DEF AgentsInv, TypeOK, TasksTracked, StatusFollowsTask, Statuses, CleaningUp
<1> QED
  BY <1>1, <1>3, <1>4, <1>5, <1>6

\* The user pauses, resumes, clears and quits.
LEMMA UserInv ==
    ASSUME AgentsInv, \/ \E a \in Agents : Pause(a) \/ Resume(a)
                      \/ Clear \/ Quit
    PROVE  AgentsInv'
<1>1. ASSUME NEW a \in Agents, Pause(a) PROVE AgentsInv'
  BY <1>1 DEF Pause, With, AgentsInv, TypeOK, TasksTracked, StatusFollowsTask, Statuses,
     CleaningUp, Final
<1>2. ASSUME NEW a \in Agents, Resume(a) PROVE AgentsInv'
  BY <1>2 DEF Resume, With, AgentsInv, TypeOK, TasksTracked, StatusFollowsTask, Statuses,
     CleaningUp, Final
<1>3. CASE Clear
  <2>1. \A a \in agents : a \in agents' \/ status[a] \in {"complete", "failed", "cancelled"}
    BY <1>3 DEF Clear, With
  <2>2. agents' \subseteq agents
    BY <1>3 DEF Clear
  <2> QED
    BY <1>3, <2>1, <2>2 DEF Clear, AgentsInv, TypeOK, TasksTracked, StatusFollowsTask, Statuses,
       CleaningUp
<1>4. CASE Quit
  BY <1>4 DEF Quit, AgentsInv, TypeOK, TasksTracked, StatusFollowsTask, Statuses, CleaningUp
<1> QED
  BY <1>1, <1>2, <1>3, <1>4

\* cleanup(), for a task that may be cancelled already or finished meanwhile.
LEMMA CleanupInv ==
    ASSUME AgentsInv, \/ \E a \in Agents : CleanupCancels(a)
                      \/ Cleanup \/ CleanupAwaited \/ Exit
    PROVE  AgentsInv'
<1>1. ASSUME NEW a \in Agents, CleanupCancels(a) PROVE AgentsInv'
  <2>1. /\ app = "cleaning" /\ a \in cleaning.left
        /\ cleaning' = [at |-> IF run[a] \in {"finished", "gone"} THEN {} ELSE {a},
                        left |-> cleaning.left \ {a}]
        /\ cleaning.at = {}
        /\ run' = [run EXCEPT ![a] = IF @ = "running" THEN "cancelling"
                                     ELSE IF @ = "created" THEN "stillborn" ELSE @]
        /\ UNCHANGED <<agents, status, active, paused, asked, cancels, loose, app>>
    BY <1>1 DEF CleanupCancels, Cancelled
  <2>2. TypeOK' /\ TasksTracked'
    BY <2>1 DEF AgentsInv, TypeOK, TasksTracked, Live
  <2>3. StatusFollowsTask' /\ Statuses'
    BY <2>1 DEF AgentsInv, TypeOK, StatusFollowsTask, Statuses, Final
  <2>4. CleaningUp'
    BY <2>1 DEF AgentsInv, TypeOK, CleaningUp, Unfinished, Live
  <2> QED
    BY <2>2, <2>3, <2>4 DEF AgentsInv
<1>2. CASE Cleanup
  BY <1>2 DEF Cleanup, AgentsInv, TypeOK, TasksTracked, StatusFollowsTask, Statuses, CleaningUp,
     Unfinished
<1>3. CASE CleanupAwaited
  <2>1. PICK a \in cleaning.at : run[a] = "gone"
    BY <1>3 DEF CleanupAwaited
  <2>2. \A b \in cleaning.at : b = a
    BY DEF AgentsInv, CleaningUp
  <2> QED
    BY <1>3, <2>1, <2>2 DEF CleanupAwaited, AgentsInv, TypeOK, TasksTracked, StatusFollowsTask,
       Statuses, CleaningUp, Unfinished, Live
<1>4. CASE Exit
  BY <1>4 DEF Exit, NoAgent, AgentsInv, TypeOK, TasksTracked, StatusFollowsTask, Statuses, CleaningUp
<1> QED
  BY <1>1, <1>2, <1>3, <1>4

THEOREM Invariance == SafeSpec => []AgentsInv
<1>1. AgentsInv /\ [Next]_vars => AgentsInv'
  <2> SUFFICES ASSUME AgentsInv, [Next]_vars PROVE AgentsInv'
    OBVIOUS
  <2>1. CASE Next
    BY <2>1, RunTasksInv, StartInv, TaskInv, CancelInv, UserInv, CleanupInv
       DEF Next, EventLoop, User
  <2>2. CASE UNCHANGED vars
    BY <2>2 DEF vars, AgentsInv, TypeOK, TasksTracked, StatusFollowsTask, Statuses, CleaningUp
  <2> QED
    BY <2>1, <2>2
<1> QED
  BY <1>1, InitInv, PTL DEF SafeSpec

\* Every variable of the executor and its callers keeps its type.
THEOREM TypeCorrect == SafeSpec => []TypeOK
<1>1. AgentsInv => TypeOK
  BY DEF AgentsInv
<1> QED
  BY <1>1, Invariance, PTL

\* active_tasks holds every task that has not ended, and none that has had its
\* done-callback; the entry of a task in between is missing only when a
\* cancellation came too late.
THEOREM Tracking == SafeSpec => []TasksTracked
<1>1. AgentsInv => TasksTracked
  BY DEF AgentsInv
<1> QED
  BY <1>1, Invariance, PTL

\* The status of an agent is that of its task.
THEOREM StatusIsTold == SafeSpec => []StatusFollowsTask
<1>1. AgentsInv => StatusFollowsTask
  BY DEF AgentsInv
<1> QED
  BY <1>1, Invariance, PTL

\* cleanup() leaves no grind running, however many were cancelled by the user
\* at the same time.
THEOREM Leaving == SafeSpec => []NothingLeftRunning
<1>1. AgentsInv => NothingLeftRunning
  BY DEF AgentsInv, CleaningUp, NothingLeftRunning, Unfinished
<1> QED
  BY <1>1, Invariance, PTL

---------------------------------------------------------------------------
(* Capacity.                                                               *)

AtWork == {a \in Agents : run[a] \in Live}

LEMMA Countable ==
    ASSUME NEW S \in SUBSET Agents
    PROVE  IsFiniteSet(S) /\ Cardinality(S) \in Nat
BY FS_Subset, FS_CardinalityType

\* Between the turns the tasks at work are the agents shown as running, so
\* that the test of the capacity is right for one more.
LEMMA OneMore ==
    ASSUME AgentsInv, CapacityOneByOne, Turn, NEW wanted \in SUBSET Agents, wanted # {},
           StartAll(wanted)
    PROVE  CapacityOneByOne'
<1> SUFFICES ASSUME ~loose' PROVE Cardinality(AtWork') <= MaxParallel
  BY DEF CapacityOneByOne, AtWork
<1>1. ~loose /\ ~(Cardinality(wanted) > 1)
  BY DEF StartAll
<1>2. CASE AtCapacity
  BY <1>1, <1>2 DEF StartAll, CapacityOneByOne, AtWork
<1>3. CASE ~AtCapacity
  <2>1. PICK a \in wanted : wanted = {a}
    <3>1. PICK a \in wanted : TRUE
      OBVIOUS
    <3>2. ASSUME NEW b \in wanted, b # a PROVE FALSE
      <4>1. /\ IsFiniteSet({a}) /\ Cardinality({a}) = 1
        BY FS_Singleton
      <4>2. Cardinality({a} \cup {b}) = 2
        BY <3>2, <4>1, FS_AddElement
      <4>3. {a} \cup {b} \subseteq wanted
        BY <3>1, <3>2
      <4>4. Cardinality({a} \cup {b}) <= Cardinality(wanted)
        BY <4>3, Countable, FS_Subset
      <4> QED
        BY <1>1, <4>2, <4>4, Countable
    <3> QED
      BY <3>1, <3>2
  <2>2. AtWork' \subseteq AtWork \cup {a}
    BY <1>3, <2>1 DEF StartAll, AtWork
  <2>3. AtWork \subseteq With("running")
    BY <1>1 DEF AtWork, With, Turn, Live, AgentsInv, StatusFollowsTask, Statuses
  <2>4. Cardinality(AtWork) <= Cardinality(With("running"))
    BY <2>3, Countable, FS_Subset DEF With, AgentsInv, TypeOK
  <2>5. Cardinality(AtWork \cup {a}) <= Cardinality(AtWork) + 1
    BY Countable, FS_AddElement DEF AtWork
  <2>6. Cardinality(AtWork') <= Cardinality(AtWork \cup {a})
    BY <2>2, Countable, FS_Subset DEF AtWork
  <2>7. /\ Cardinality(AtWork) \in Nat /\ Cardinality(AtWork') \in Nat
        /\ Cardinality(AtWork \cup {a}) \in Nat /\ Cardinality(With("running")) \in Nat
    BY Countable DEF AtWork, With, AgentsInv, TypeOK
  <2> QED
    BY <1>3, <2>4, <2>5, <2>6, <2>7 DEF AtCapacity
<1> QED
  BY <1>2, <1>3

\* As long as agents are started one by one and none is paused, at most
\* max_parallel of them are at work.
THEOREM Capacity == SafeSpec => []CapacityOneByOne
<1>1. Init => CapacityOneByOne
  <2> SUFFICES ASSUME Init PROVE Cardinality(AtWork) <= MaxParallel
    BY DEF CapacityOneByOne, AtWork
  <2>1. AtWork = {}
    BY DEF Init, AtWork, Live
  <2> QED
    BY <2>1, FS_EmptySet
<1>2. AgentsInv /\ CapacityOneByOne /\ [Next]_vars => CapacityOneByOne'
  <2> SUFFICES ASSUME AgentsInv, CapacityOneByOne, [Next]_vars PROVE CapacityOneByOne'
    OBVIOUS
  <2>1. ASSUME NEW new \in SUBSET Agents, RunTasks(new) \/ Start(new) PROVE CapacityOneByOne'
    BY <2>1, OneMore DEF RunTasks, Start
  <2>2. CASE ~\E new \in SUBSET Agents : RunTasks(new) \/ Start(new)
    <3>1. (\A a \in Agents : run'[a] \in Live => run[a] \in Live) /\ (~loose' => ~loose)
      BY <2>2 DEF Next, EventLoop, User, vars, Begin, NeverBegun, Finish, FinishCancelled,
         DoneCallback, DashboardCancels, NothingToCancel, CancelAgent, CancelTooLate,
         CancelReturns, CleanupCancels, Cancelled, Cleanup,
         CleanupAwaited, Exit, Pause, Resume, Clear, Quit, Live, AgentsInv, TypeOK
    <3>2. AtWork' \subseteq AtWork
      BY <3>1 DEF AtWork
    <3>3. Cardinality(AtWork') <= Cardinality(AtWork)
      BY <3>2, Countable, FS_Subset DEF AtWork
    <3>4. Cardinality(AtWork') \in Nat /\ Cardinality(AtWork) \in Nat
      BY Countable DEF AtWork
    <3> QED
      BY <3>1, <3>3, <3>4 DEF CapacityOneByOne, AtWork
  <2> QED
    BY <2>1, <2>2
<1> QED
  BY <1>1, <1>2, Invariance, PTL DEF SafeSpec
=============================================================================
