--------------------------- MODULE DependencyGraph ---------------------------
(****************************************************************************)
(* Reference definitions about dependency graphs.  A graph is a function g  *)
(* that gives every task the set of the tasks it depends on.  Nothing here  *)
(* is recursive, so that modules with proofs can use it.                    *)
(****************************************************************************)

(* Every dependency is itself a task of the graph.                          *)
Closed(g) == \A t \in DOMAIN g : g[t] \subseteq DOMAIN g

(* Every nonempty set of tasks has one that depends on none of the others:  *)
(* no task reaches itself through its dependencies.                         *)
Acyclic(g) ==
    \A S \in (SUBSET DOMAIN g) \ {{}} : \E t \in S : g[t] \cap S = {}

(* The graphs over the tasks T that build_task_graph accepts.               *)
AcyclicGraphs(T) == {g \in [T -> SUBSET T] : Acyclic(g)}

(* A set that holds the dependencies of each of its members.                *)
DownClosed(g, S) == \A t \in S : g[t] \subseteq S

(* Everything t rests on: the tasks that every such set around t's          *)
(* dependencies holds.                                                      *)
Ancestors(g, t) ==
    {a \in DOMAIN g : \A S \in SUBSET DOMAIN g :
                          g[t] \subseteq S /\ DownClosed(g, S) => a \in S}

==============================================================================
