----------------------------- MODULE TaskGraphs -----------------------------
(***************************************************************************)
(* The algorithms of TaskGraph in grind/models.py.  A graph is the         *)
(* sequence `ids` of its nodes in the order they were inserted, and        *)
(* `depends_on`, which gives every node a list of names: it may name a     *)
(* node twice, or one that does not exist.                                 *)
(***************************************************************************)
EXTENDS Integers, SequencesExt, DependencyGraph

Names(list) == ToSet(list)

\* The graph as the reference definitions of DependencyGraph see it.
AsGraph(depends_on) == [n \in DOMAIN depends_on |-> Names(depends_on[n])]

\* _validate_dependencies finds nothing to report.
AllExist(depends_on) == Closed(AsGraph(depends_on))

\* _detect_cycles.  A search goes through a list of nodes with `path` the
\* nodes on rec_stack, and descends into those that were not visited; it
\* answers whether it met one that is on the path, and what has been visited.
Below(ids, depends_on, n) == IF n \in Names(ids) THEN depends_on[n] ELSE <<>>

Searches(ids, depends_on) ==
    LET V == Names(ids) \cup UNION {Names(depends_on[n]) : n \in Names(ids)}
    IN  [list: Seq(V), path: SUBSET V, visited: SUBSET V]

Search(list, path, visited) == [list |-> list, path |-> path, visited |-> visited]

Scans(ids, depends_on) ==
    LET Scan[s \in Searches(ids, depends_on)] ==
            IF s.list = <<>> THEN [cycle |-> FALSE, visited |-> s.visited]
            ELSE LET n == Head(s.list)
                     below == Scan[Search(Below(ids, depends_on, n),
                                          s.path \cup {n}, s.visited \cup {n})]
                 IN  IF n \in s.path THEN [cycle |-> TRUE, visited |-> s.visited]
                     ELSE IF n \in s.visited THEN Scan[Search(Tail(s.list), s.path, s.visited)]
                     ELSE IF below.cycle THEN below
                     ELSE Scan[Search(Tail(s.list), s.path, below.visited)]
    IN  Scan

DetectCycles(ids, depends_on) == Scans(ids, depends_on)[Search(ids, {}, {})].cycle

\* Slip: the error that _detect_cycles returns is not added to the list.
ValidatesNames(ids, depends_on) == AllExist(depends_on)

\* validate() returns no error.
Validates(ids, depends_on) ==
    AllExist(depends_on) /\ ~DetectCycles(ids, depends_on)

\* The nodes of S in the order in which they were inserted.
InOrder(ids, S) ==
    LET places == {i \in DOMAIN ids : ids[i] \in S}
        rising == CHOOSE p \in [1..Cardinality(places) -> places] :
                      \A j, k \in DOMAIN p : j < k => p[j] < p[k]
    IN  [k \in DOMAIN rising |-> ids[rising[k]]]

\* A name that is given twice counts twice.
InDegree(ids, depends_on) ==
    [n \in DOMAIN depends_on |->
        Cardinality({i \in DOMAIN depends_on[n] : depends_on[n][i] \in Names(ids)})]

\* One turn of the loop of get_execution_order: the first node of the queue
\* is put into the order, the in-degree of every node that names it goes down
\* by one, however often it does, and those at 0 are queued.
Pop(ids, depends_on, s) ==
    LET n == Head(s.queue)
        in_degree == [m \in DOMAIN depends_on |->
                        IF n \in Names(depends_on[m]) THEN s.in_degree[m] - 1 ELSE s.in_degree[m]]
        freed == {m \in DOMAIN depends_on : n \in Names(depends_on[m]) /\ in_degree[m] = 0}
    IN  [in_degree |-> in_degree,
         queue |-> Tail(s.queue) \o InOrder(ids, freed),
         result |-> Append(s.result, n)]

FirstTurn(ids, depends_on) ==
    LET in_degree == InDegree(ids, depends_on) IN
    [in_degree |-> in_degree,
     queue |-> InOrder(ids, {n \in DOMAIN depends_on : in_degree[n] = 0}),
     result |-> <<>>]

LoopStates(ids) ==
    [in_degree: [Names(ids) -> Int], queue: Seq(Names(ids)), result: Seq(Names(ids))]

Turn(ids, depends_on) ==
    [s \in LoopStates(ids) |-> IF s.queue = <<>> THEN s ELSE Pop(ids, depends_on, s)]

Turns(ids, depends_on) ==
    LET After[k \in Nat] ==
            IF k = 0 THEN FirstTurn(ids, depends_on)
            ELSE Turn(ids, depends_on)[After[k - 1]]
    IN  After

\* get_execution_order.  No node is queued twice, so that there are at most
\* as many turns as nodes.
ExecutionOrder(ids, depends_on) == Turns(ids, depends_on)[Len(ids)].result

\* What an execution order must be: no node twice, none before a node it
\* depends on, and none missing, except those that name a node twice and
\* those that rest on such a node.
Repeats(depends_on, n) == ~IsInjective(depends_on[n])

IsExecutionOrder(order, depends_on) ==
    LET g == AsGraph(depends_on)
        kept == {n \in DOMAIN g :
                   \A m \in {n} \cup Ancestors(g, n) : ~Repeats(depends_on, m)}
    IN  /\ IsInjective(order)
        /\ Names(order) = kept
        /\ \A i \in DOMAIN order : g[order[i]] \subseteq {order[j] : j \in 1..(i - 1)}
=============================================================================
