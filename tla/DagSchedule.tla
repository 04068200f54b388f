----------------------------- MODULE DagSchedule -----------------------------
(****************************************************************************)
(* What the DAG executor promises, whatever waves, semaphores, worktrees    *)
(* and callbacks it uses to keep the promise: a task starts once all its    *)
(* dependencies succeeded, is blocked once one of them did not, at most     *)
(* MaxParallel tasks run at a time, a verdict is final, and every task gets *)
(* one unless the execution halts early.                                    *)
(****************************************************************************)
EXTENDS Naturals, FiniteSets, DependencyGraph

CONSTANTS
    Tasks,         \* the nodes of the graph
    MaxParallel    \* how many tasks may run at once

VARIABLES
    depends_on,    \* the graph
    verdict,       \* what is known of each task
    halted         \* the execution was given up

vars == <<depends_on, verdict, halted>>

Verdicts == {"waiting", "running", "succeeded", "unsuccessful", "blocked"}

Decided(t) == verdict[t] \in {"succeeded", "unsuccessful", "blocked"}

Running == {t \in Tasks : verdict[t] = "running"}

Satisfied(t) == \A d \in depends_on[t] : verdict[d] = "succeeded"

Doomed(t) == \E d \in depends_on[t] : verdict[d] \in {"unsuccessful", "blocked"}

TypeOK ==
    /\ depends_on \in AcyclicGraphs(Tasks)
    /\ verdict \in [Tasks -> Verdicts]
    /\ halted \in BOOLEAN

Init ==
    /\ depends_on \in AcyclicGraphs(Tasks)
    /\ verdict = [t \in Tasks |-> "waiting"]
    /\ halted = FALSE

(* A task starts, or is turned away when what it needs cannot be set up.    *)
Start(t) ==
    /\ verdict[t] = "waiting"
    /\ Satisfied(t)
    /\ \/ /\ Cardinality(Running) < MaxParallel
          /\ verdict' = [verdict EXCEPT ![t] = "running"]
       \/ verdict' = [verdict EXCEPT ![t] = "unsuccessful"]
    /\ UNCHANGED <<depends_on, halted>>

Finish(t) ==
    /\ verdict[t] = "running"
    /\ \E v \in {"succeeded", "unsuccessful"} :
           verdict' = [verdict EXCEPT ![t] = v]
    /\ UNCHANGED <<depends_on, halted>>

(* Some of the tasks that can no longer run are given up, together.         *)
Block(S) ==
    /\ \A t \in S : verdict[t] = "waiting" /\ Doomed(t)
    /\ verdict' = [t \in Tasks |-> IF t \in S THEN "blocked" ELSE verdict[t]]
    /\ UNCHANGED <<depends_on, halted>>

Halt ==
    /\ halted' = TRUE
    /\ UNCHANGED <<depends_on, verdict>>

Next ==
    \/ \E t \in Tasks : Start(t) \/ Finish(t)
    \/ \E S \in SUBSET Tasks : Block(S)
    \/ Halt

SafeSpec == Init /\ [][Next]_vars

(* Every task is decided in the end, or the execution was given up.         *)
Concludes == <>(halted \/ \A t \in Tasks : Decided(t))

Spec == SafeSpec /\ Concludes

------------------------------------------------------------------------------
(* Nothing built on an unsuccessful task ever starts.                       *)
SoundFoundation ==
    \A t \in Tasks : verdict[t] \in {"running", "succeeded"} => Satisfied(t)

==============================================================================
