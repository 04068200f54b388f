---------------------------- MODULE Orchestrator ----------------------------
(***************************************************************************)
(* grind/orchestration/orchestrator.py with metrics.py, on the event bus.  *)
(* Callers call run_agent or run_all of one orchestrator, while agents are *)
(* registered and removed and handlers come and go.  What an agent does is *)
(* its result, or an exception.                                            *)
(***************************************************************************)
EXTENDS EventBus

CONSTANTS
    Agents,         \* the agents that may be registered
    FirstAgents,    \* the registries there may be at first
    Gone,           \* the entry of a removed agent in the registry's dict
    MaxEntries,     \* bound: entries of the dict; a dict of up to 5 is not rebuilt
    MaxChanges      \* bound: changes of subscriptions and registry

Callers == Publishers

ASSUME OrchestratorAssumption ==
    /\ Gone \notin Agents
    /\ Types = {"agent_started", "agent_completed", "agent_failed"}
    /\ FirstAgents \subseteq Seq(Agents) /\ \A r \in FirstAgents : IsInjective(r)
    /\ MaxEntries \in 0..5 /\ MaxChanges \in Nat

VARIABLES
    registry,       \* Orchestrator._agents: the entries in the order of insertion
    at,             \* where the caller is
    agent,          \* the agent it runs
    result,         \* the result of agent.run
    success,        \* run_agent's flag for the metrics
    iteration,      \* the iterator of run_all over the registry
    results,        \* what was returned: one result, or the dict of run_all
    metrics,        \* MetricsCollector._metrics
    forgotten,      \* results that the metrics were reset after (history)
    present,        \* agents registered without a break since run_all began (history)
    changes         \* changes so far

callVars == <<at, agent, result, success, iteration>>
recordVars == <<results, metrics>>
vars == <<busVars, callVars, recordVars, registry, forgotten, present, changes>>

Registered == ToSet(registry) \ {Gone}
Size(r) == Cardinality({i \in DOMAIN r : r[i] # Gone})

NoIteration == [all |-> FALSE, size |-> 0, pos |-> 0, len |-> 0]
NoRuns == [total_runs |-> 0, successful_runs |-> 0]

Init ==
    /\ BusInit
    /\ registry \in FirstAgents
    /\ at = [c \in Callers |-> "idle"]
    /\ agent = [c \in Callers |-> Gone]
    /\ result = [c \in Callers |-> "none"]
    /\ success = [c \in Callers |-> FALSE]
    /\ iteration = [c \in Callers |-> NoIteration]
    /\ results = [c \in Callers |-> <<>>]
    /\ metrics = [a \in Agents |-> NoRuns]
    /\ forgotten = {}
    /\ present = [c \in Callers |-> {}]
    /\ changes = 0

---------------------------------------------------------------------------
(* run_agent.                                                              *)

\* record_run, and the result is returned.
Answer(c, a, r, s) ==
    /\ metrics' = [metrics EXCEPT ![a] =
                     [total_runs |-> @.total_runs + 1,
                      successful_runs |-> @.successful_runs + IF s THEN 1 ELSE 0]]
    /\ results' = [results EXCEPT ![c] = Append(@, [agent |-> a, status |-> r])]
    /\ at' = [at EXCEPT ![c] = IF iteration[c].all THEN "between" ELSE "returned"]

\* Slip: the flag is not taken back when the run is turned into an error.
ProceedSuccessful(c, t, a, r, s) ==
    IF t = "agent_started"
    THEN at' = [at EXCEPT ![c] = "running"] /\ UNCHANGED recordVars
    ELSE IF t = "agent_failed" THEN Answer(c, a, "error", s) ELSE Answer(c, a, r, s)

\* Behind the publish of t: the agent is run after AGENT_STARTED, and after
\* the other two the run is recorded and answered, after AGENT_FAILED as an
\* error.
Proceed(c, t, a, r, s) ==
    IF t = "agent_started"
    THEN at' = [at EXCEPT ![c] = "running"] /\ UNCHANGED recordVars
    ELSE IF t = "agent_failed" THEN Answer(c, a, "error", FALSE) ELSE Answer(c, a, r, s)

\* Call c publishes an event of type t, about agent a whose result is r;
\* without handlers it goes on at once.
Announce(c, t, a, r, s) ==
    /\ agent' = [agent EXCEPT ![c] = a]
    /\ result' = [result EXCEPT ![c] = r]
    /\ success' = [success EXCEPT ![c] = s]
    /\ IF subscribers[t] = <<>>
       THEN EndPublish(c) /\ Proceed(c, t, a, r, s)
       ELSE /\ BeginPublish(c, t)
            /\ at' = [at EXCEPT ![c] = "publishing"]
            /\ UNCHANGED recordVars

RunAgent(c, a) ==
    /\ at[c] = "idle"
    /\ a \in Registered
    /\ Announce(c, "agent_started", a, "none", FALSE)
    /\ UNCHANGED <<registry, iteration, forgotten, present, changes>>

AgentReturns(c) ==
    /\ at[c] = "running"
    /\ \E r \in {"complete", "stuck"} :
         Announce(c, "agent_completed", agent[c], r, r = "complete")
    /\ UNCHANGED <<registry, iteration, forgotten, present, changes>>

AgentRaises(c) ==
    /\ at[c] = "running"
    /\ Announce(c, "agent_failed", agent[c], result[c], success[c])
    /\ UNCHANGED <<registry, iteration, forgotten, present, changes>>

\* A handler ended.
HandlerEnds(c) ==
    /\ at[c] = "publishing"
    /\ IF More(c)
       THEN CallNext(c) /\ UNCHANGED <<at, recordVars>>
       ELSE EndPublish(c) /\ Proceed(c, event[c], agent[c], result[c], success[c])
    /\ UNCHANGED <<registry, agent, result, success, iteration, forgotten, present,
                   changes>>

\* The call is left with an exception, and nothing is recorded.
Leave(c) ==
    /\ EndPublish(c)
    /\ at' = [at EXCEPT ![c] = "raised"]
    /\ UNCHANGED <<agent, result, success, iteration, recordVars>>

\* A handler raised: inside the try statement that turns the run into an
\* error, otherwise the exception leaves run_agent.
HandlerRaises(c) ==
    /\ at[c] = "publishing"
    /\ IF event[c] = "agent_completed"
       THEN /\ Announce(c, "agent_failed", agent[c], result[c], success[c])
            /\ UNCHANGED iteration
       ELSE Leave(c)
    /\ UNCHANGED <<registry, forgotten, present, changes>>

\* CancelledError is no Exception.
Cancelled(c) ==
    /\ at[c] \in {"publishing", "running"}
    /\ Leave(c)
    /\ UNCHANGED <<registry, forgotten, present, changes>>

---------------------------------------------------------------------------
(* run_all.                                                                *)

RunAll(c) ==
    /\ at[c] = "idle"
    /\ at' = [at EXCEPT ![c] = "between"]
    /\ iteration' = [iteration EXCEPT ![c] =
                       [all |-> TRUE, size |-> Size(registry), pos |-> 0, len |-> Size(registry)]]
    /\ present' = [present EXCEPT ![c] = Registered]
    /\ UNCHANGED <<busVars, registry, agent, result, success, recordVars, forgotten,
                   changes>>

\* Slip: the entries are counted and not marked, so that one is passed over
\* when another one before it is taken out.
RestByCount(c) ==
    {i \in DOMAIN registry :
       registry[i] # Gone /\ Size(SubSeq(registry, 1, i)) > Len(results[c])}

\* The entries the iterator has still to come to.
Rest(c) == {i \in DOMAIN registry : i > iteration[c].pos /\ registry[i] # Gone}

NextEntry(c) == CHOOSE i \in Rest(c) : \A j \in Rest(c) : i <= j

\* The iterator raises when the size of the dict has changed, and when it has
\* given out as many keys as there were and finds another one.
Changed(c) ==
    Size(registry) # iteration[c].size \/ (Rest(c) # {} /\ iteration[c].len = 0)

\* The iterator is asked for the next key.
NextAgent(c) ==
    /\ at[c] = "between"
    /\ IF Changed(c) THEN Leave(c)
       ELSE IF Rest(c) = {}
       THEN /\ at' = [at EXCEPT ![c] = "returned"]
            /\ UNCHANGED <<busVars, agent, result, success, iteration, recordVars>>
       ELSE /\ iteration' = [iteration EXCEPT ![c] =
                               [all |-> @.all, size |-> @.size,
                                pos |-> NextEntry(c), len |-> @.len - 1]]
            /\ Announce(c, "agent_started", registry[NextEntry(c)], "none", FALSE)
    /\ UNCHANGED <<registry, forgotten, present, changes>>

---------------------------------------------------------------------------
(* The registry, the subscriptions and the metrics, changed by others.     *)

Change == changes < MaxChanges /\ changes' = changes + 1

AddAgent(a) ==
    /\ Change
    /\ a \notin Registered /\ Len(registry) < MaxEntries
    /\ registry' = Append(registry, a)
    /\ UNCHANGED <<busVars, callVars, recordVars, forgotten, present>>

RemoveAgent(a) ==
    /\ Change
    /\ a \in Registered
    /\ registry' = [i \in DOMAIN registry |-> IF registry[i] = a THEN Gone ELSE registry[i]]
    /\ present' = [c \in Callers |-> present[c] \ {a}]
    /\ UNCHANGED <<busVars, callVars, recordVars, forgotten>>

ClearAgents ==
    /\ Change
    /\ registry' = <<>>
    /\ present' = [c \in Callers |-> {}]
    /\ UNCHANGED <<busVars, callVars, recordVars, forgotten>>

Subscription(t, h) ==
    /\ Change
    /\ Subscribe(t, h) \/ Unsubscribe(t, h)
    /\ UNCHANGED <<registry, callVars, recordVars, forgotten, present>>

Returned(a) == {w \in UNION {{c} \X DOMAIN results[c] : c \in Callers} :
                  results[w[1]][w[2]].agent = a}

\* reset_agent; reset does it for all of them.
Reset(S) ==
    /\ Change
    /\ metrics' = [a \in Agents |-> IF a \in S THEN NoRuns ELSE metrics[a]]
    /\ forgotten' = forgotten \cup UNION {Returned(a) : a \in S}
    /\ UNCHANGED <<busVars, registry, callVars, results, present>>

---------------------------------------------------------------------------
CallStep(c) ==
    \/ AgentReturns(c) \/ AgentRaises(c)
    \/ HandlerEnds(c) \/ HandlerRaises(c)
    \/ NextAgent(c)

Next ==
    \/ \E c \in Callers : CallStep(c) \/ Cancelled(c) \/ RunAll(c)
    \/ \E c \in Callers, a \in Agents : RunAgent(c, a)
    \/ \E a \in Agents : AddAgent(a) \/ RemoveAgent(a)
    \/ \E t \in Types, h \in Handlers : Subscription(t, h)
    \/ \E a \in Agents : Reset({a})
    \/ Reset(Agents)
    \/ ClearAgents

Spec == Init /\ [][Next]_vars

---------------------------------------------------------------------------
(* Properties.                                                             *)

TypeOK ==
    /\ BusTypeOK
    /\ registry \in Seq(Agents \cup {Gone})
    /\ at \in [Callers -> {"idle", "publishing", "running", "between", "returned", "raised"}]
    /\ agent \in [Callers -> Agents \cup {Gone}]
    /\ result \in [Callers -> {"none", "complete", "stuck"}]
    /\ success \in [Callers -> BOOLEAN]
    /\ results \in [Callers -> Seq([agent : Agents, status : {"complete", "stuck", "error"}])]
    /\ metrics \in [Agents -> [total_runs : Nat, successful_runs : Nat]]
    /\ \A c \in Callers : event[c] # NoEvent <=> at[c] = "publishing"

\* A handler that is subscribed from the beginning of a publish to its end
\* misses the event only because another one left that had been called: no
\* more are passed over than left.  Where nobody leaves, everybody hears.
WhoStaysHears ==
    [][\A c \in Callers :
         HandlerEnds(c) /\ event'[c] = NoEvent =>
           Cardinality(steady[c] \ ToSet(heard[c])) <= shifts[c]]_vars

\* The metrics of an agent count the results that callers were given since
\* they were reset, and as successful those that say COMPLETE, however
\* handlers fail and calls are cut short.
MetricsMatchAnswers ==
    \A a \in Agents :
        LET given == Returned(a) \ forgotten IN
        metrics[a] =
          [total_runs |-> Cardinality(given),
           successful_runs |-> Cardinality({w \in given :
                                              results[w[1]][w[2]].status = "complete"})]

\* A run_all that returns has run every agent exactly once that was registered
\* all the time, however the registry changes meanwhile.
RunsAllOnce ==
    \A c \in Callers : at[c] = "returned" /\ iteration[c].all =>
        \A a \in present[c] :
            Cardinality({i \in DOMAIN results[c] : results[c][i].agent = a}) = 1

=============================================================================
