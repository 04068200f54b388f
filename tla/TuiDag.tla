------------------------------- MODULE TuiDag -------------------------------
(***************************************************************************)
(* execute_dag of the TUI's agent executor, grind/tui/core/                *)
(* agent_executor.py.  All nodes of the graph get their coroutine at once; *)
(* each looks for failed dependencies, waits for its dependencies' events, *)
(* and runs its agent under a semaphore, while execute_dag awaits the      *)
(* coroutines in execution order and may itself be cancelled.  What a      *)
(* grind does is its outcome only.                                         *)
(***************************************************************************)
EXTENDS TaskGraphs, FiniteSets

CONSTANTS
    Ids,            \* the ids of the graph's nodes, in the order of the dict
    DependsOn,      \* the lists a node may have as its depends_on
    MaxParallel     \* AgentExecutor.max_parallel

Nodes == Names(Ids)

ASSUME TuiDagAssumption ==
    /\ Ids \in Seq(Nodes)
    /\ IsInjective(Ids)
    /\ \A list \in DependsOn : list \in Seq(Names(list))
    /\ MaxParallel \in Nat \ {0}

VARIABLES
    depends_on, \* TaskNode.depends_on
    order,      \* execution_order
    at,         \* where the node's coroutine is
    status,     \* DAGNodeInfo.status
    agent,      \* the status of the node's agent, "none" before create_agent
    failed,     \* the set failed
    signalled,  \* nodes whose completion event is set
    results,    \* keys of results
    main,       \* the life of execute_dag
    next        \* how many coroutines it has awaited, plus one

graphVars == <<depends_on, order>>
nodeVars == <<at, status, agent, failed, signalled>>
mainVars == <<results, main, next>>
vars == <<graphVars, nodeVars, mainVars>>

Init ==
    /\ depends_on \in [Nodes -> DependsOn]
    /\ order = <<>>
    /\ at = [n \in Nodes |-> "absent"]
    /\ status = [n \in Nodes |-> "pending"]
    /\ agent = [n \in Nodes |-> "none"]
    /\ failed = {} /\ signalled = {}
    /\ results = {}
    /\ main = "validating" /\ next = 1

Deps(n) == Names(depends_on[n])

\* The coroutines inside `async with semaphore`.
Holders == {n \in Nodes : at[n] \in {"running", "cancelling"}}

\* The first steps of the coroutines are run in the order of their creation,
\* and before any coroutine is resumed.
Begun == \A n \in Nodes : at[n] # "created"

---------------------------------------------------------------------------
(* execute_dag up to its first await.                                      *)

\* The caller validates the graph; a coroutine is created for every node of
\* the execution order.
Validate ==
    /\ main = "validating"
    /\ IF Validates(Ids, depends_on)
       THEN LET o == ExecutionOrder(Ids, depends_on) IN
            /\ order' = o
            /\ at' = [n \in Nodes |-> IF n \in Names(o) THEN "created" ELSE "absent"]
            /\ main' = "awaiting"
       ELSE /\ main' = "rejected"
            /\ UNCHANGED <<order, at>>
    /\ UNCHANGED <<depends_on, status, agent, failed, signalled, results, next>>

---------------------------------------------------------------------------
(* execute_node.                                                           *)

Free == Cardinality(Holders) < MaxParallel

\* Slip: one event is enough.
SomeSignalled(n) == Deps(n) = {} \/ Deps(n) \cap signalled # {}

AllSignalled(n) == Deps(n) \subseteq signalled

Ready(n) == AllSignalled(n) /\ Free

\* The agent ended with status s; the node is recorded, and the event set in
\* the finally clause.
Record(n, s) ==
    /\ at' = [at EXCEPT ![n] = "ended"]
    /\ agent' = [agent EXCEPT ![n] = s]
    /\ status' = [status EXCEPT ![n] = IF s = "complete" THEN "completed" ELSE "failed"]
    /\ failed' = IF s = "complete" THEN failed ELSE failed \cup {n}
    /\ signalled' = signalled \cup {n}

\* The semaphore is free: the agent is created and executed.  It is suspended
\* in its grind, or fails before its first await, as an agent does whose
\* provider has no API key.
Enter(n) ==
    \/ /\ at' = [at EXCEPT ![n] = "running"]
       /\ status' = [status EXCEPT ![n] = "running"]
       /\ agent' = [agent EXCEPT ![n] = "running"]
       /\ UNCHANGED <<failed, signalled>>
    \/ Record(n, "failed")

\* Slip: the early return leaves the event unset.
BlockSilently(n) ==
    /\ at' = [at EXCEPT ![n] = "ended"]
    /\ status' = [status EXCEPT ![n] = "blocked"]
    /\ UNCHANGED <<agent, failed, signalled>>

Block(n) ==
    /\ at' = [at EXCEPT ![n] = "ended"]
    /\ status' = [status EXCEPT ![n] = "blocked"]
    /\ signalled' = signalled \cup {n}
    /\ UNCHANGED <<agent, failed>>

\* The first step of a coroutine: the look for failed dependencies, and then
\* as far as events and semaphore allow.
Begin(n) ==
    /\ at[n] = "created"
    /\ \A i, j \in DOMAIN order : i < j /\ order[j] = n => at[order[i]] # "created"
    /\ IF Deps(n) \cap failed # {} THEN Block(n)
       ELSE IF Ready(n) THEN Enter(n)
       ELSE /\ at' = [at EXCEPT ![n] = "waiting"]
            /\ UNCHANGED <<status, agent, failed, signalled>>
    /\ UNCHANGED <<graphVars, mainVars>>

\* Resumed by the last of its events or by the semaphore; the dependencies
\* are not looked at again.
Resume(n) ==
    /\ at[n] = "waiting" /\ Begun
    /\ Ready(n)
    /\ Enter(n)
    /\ UNCHANGED <<graphVars, mainVars>>

\* execute_agent returns.
Finish(n) ==
    /\ at[n] = "running" /\ Begun
    /\ \E s \in {"complete", "stuck", "failed"} : Record(n, s)
    /\ UNCHANGED <<graphVars, mainVars>>

\* CancelledError leaves execute_agent: it is no Exception, so that only the
\* finally clause is run.
FinishCancelled(n) ==
    /\ at[n] = "cancelling" /\ Begun
    /\ at' = [at EXCEPT ![n] = "ended"]
    /\ agent' = [agent EXCEPT ![n] = "cancelled"]
    /\ signalled' = signalled \cup {n}
    /\ UNCHANGED <<graphVars, mainVars, status, failed>>

---------------------------------------------------------------------------
(* The loop of execute_dag.                                                *)

\* Slip: only agents that completed are kept.
CollectCompleted ==
    /\ main = "awaiting" /\ next <= Len(order)
    /\ at[order[next]] = "ended"
    /\ results' = IF agent[order[next]] = "complete" THEN results \cup {order[next]} ELSE results
    /\ next' = next + 1
    /\ UNCHANGED <<graphVars, nodeVars, main>>

Collect ==
    /\ main = "awaiting" /\ next <= Len(order)
    /\ at[order[next]] = "ended"
    /\ results' = IF agent[order[next]] # "none" THEN results \cup {order[next]} ELSE results
    /\ next' = next + 1
    /\ UNCHANGED <<graphVars, nodeVars, main>>

Return ==
    /\ main = "awaiting" /\ next > Len(order)
    /\ main' = "returned"
    /\ UNCHANGED <<graphVars, nodeVars, results, next>>

\* The caller of execute_dag is cancelled, and with it the one coroutine that
\* is awaited.  A coroutine that has not begun, or waits for an event or the
\* semaphore, ends without setting its own event.
Cancel ==
    /\ main = "awaiting" /\ next <= Len(order)
    /\ main' = "cancelling"
    /\ LET n == order[next] IN
       at' = [at EXCEPT ![n] = IF @ = "running" THEN "cancelling" ELSE "ended"]
    /\ UNCHANGED <<graphVars, status, agent, failed, signalled, results, next>>

Unwind ==
    /\ main = "cancelling"
    /\ at[order[next]] = "ended"
    /\ main' = "cancelled"
    /\ UNCHANGED <<graphVars, nodeVars, results, next>>

---------------------------------------------------------------------------
NodeStep(n) == Begin(n) \/ Resume(n) \/ Finish(n) \/ FinishCancelled(n)
MainStep == Validate \/ Collect \/ Return \/ Unwind

Next == MainStep \/ Cancel \/ \E n \in Nodes : NodeStep(n)

\* asyncio runs what is ready, and a grind ends.
Fairness == WF_vars(MainStep) /\ \A n \in Nodes : WF_vars(NodeStep(n))

Spec == Init /\ [][Next]_vars /\ Fairness

---------------------------------------------------------------------------
(* Properties.                                                             *)

TypeOK ==
    /\ depends_on \in [Nodes -> DependsOn]
    /\ at \in [Nodes -> {"absent", "created", "waiting", "running", "cancelling", "ended"}]
    /\ status \in [Nodes -> {"pending", "blocked", "running", "completed", "failed"}]
    /\ agent \in [Nodes -> {"none", "running", "complete", "stuck", "failed", "cancelled"}]
    /\ failed \subseteq Nodes /\ signalled \subseteq Nodes /\ results \subseteq Nodes
    /\ main \in {"validating", "rejected", "awaiting", "returned", "cancelling", "cancelled"}
    /\ next \in Nat \ {0}

\* The cycle search and Kahn's algorithm agree with the reference
\* definitions: a graph is accepted iff its dependencies exist and no set of
\* nodes depends on itself, and then its order is topological and lists
\* every node, but for those that rest on a node that names one twice.
GraphsAreOrdered ==
    /\ main = "rejected" =>
         ~(Closed(AsGraph(depends_on)) /\ Acyclic(AsGraph(depends_on)))
    /\ main \notin {"validating", "rejected"} =>
         /\ Acyclic(AsGraph(depends_on))
         /\ IsExecutionOrder(order, depends_on)

\* No agent of a node is executed while one of its dependencies may still be
\* executed, or has yet to end: also when execute_dag was cancelled.
RunsAfterDependencies ==
    \A n \in Nodes : agent[n] # "none" => \A d \in Deps(n) : at[d] = "ended"

\* At most max_parallel agents are executed at a time.
BoundedParallelism == Cardinality(Holders) <= MaxParallel

\* When execute_dag returns, nothing it started is still at work; every node
\* of the order was either executed or is blocked by a failed one, and the
\* results, the node's status, the set of failures and the agent's status
\* tell the same.
ReturnsTheWhole ==
    main = "returned" =>
        \A n \in Names(order) :
            /\ at[n] = "ended"
            /\ n \in results <=> agent[n] # "none"
            /\ n \notin results => status[n] = "blocked" /\ Deps(n) \cap failed # {}
            /\ n \in failed <=> agent[n] \in {"stuck", "failed"}
            /\ status[n] = "completed" <=> agent[n] = "complete"
            /\ status[n] = "failed" <=> n \in failed

\* execute_dag ends, cancelled or not: while it goes through its coroutines
\* none of those waits for an event that nobody sets.
Ends == <>(main \in {"rejected", "returned", "cancelled"})

\* "Test that failed dependencies block dependent tasks"
\* (tests/test_dag_execution.py:122): no agent is executed for a node with a
\* failed dependency.
FailedDependenciesBlock ==
    \A n \in Nodes : agent[n] # "none" => Deps(n) \cap failed = {}
=============================================================================
