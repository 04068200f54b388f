----------------------------- MODULE TuiAgents -----------------------------
(***************************************************************************)
(* The agents of the TUI: grind/tui/core/agent_executor.py with the        *)
(* callers that reach it, the shell commands and the dashboard of          *)
(* grind/tui.  Each agent has at most one asyncio task; a task created in  *)
(* one turn of the event loop begins in a later one, and when it is        *)
(* finished its done-callback runs before the coroutines that await it.    *)
(* What a task's grind does is its final status only.                      *)
(***************************************************************************)
EXTENDS Naturals, FiniteSets

CONSTANTS
    Agents,         \* the agents there can ever be
    MaxParallel,    \* AgentExecutor.max_parallel
    MaxCancels      \* bound: cancellations of one agent under way at a time

ASSUME TuiAssumption ==
    /\ IsFiniteSet(Agents)
    /\ MaxParallel \in Nat \ {0} /\ MaxCancels \in Nat \ {0}

VARIABLES
    agents,     \* ids of session.agents
    status,     \* AgentInfo.status, "none" before create_agent
    run,        \* the agent's asyncio task
    active,     \* keys of executor.active_tasks
    paused,     \* keys of executor._paused_agents
    asked,      \* workers for cancel_agent that have not begun
    cancels,    \* cancel_agent coroutines awaiting the agent's task
    loose,      \* several agents were started at once, or one was paused (history)
    app,        \* the life of the TUI
    cleaning    \* the task cleanup() is at, and those it still has to cancel

vars == <<agents, status, run, active, paused, asked, cancels, loose, app, cleaning>>

Final == {"complete", "stuck", "failed", "cancelled"}
Live == {"created", "running", "cancelling"}
NoAgent == [at |-> {}, left |-> {}]

Init ==
    /\ agents = {}
    /\ status = [a \in Agents |-> "none"]
    /\ run = [a \in Agents |-> "none"]
    /\ active = {} /\ paused = {}
    /\ asked = [a \in Agents |-> 0]
    /\ cancels = [a \in Agents |-> 0]
    /\ loose = FALSE
    /\ app = "open"
    /\ cleaning = NoAgent

With(s) == {a \in agents : status[a] = s}

\* A command is handled in one turn, and the tasks of the turn before have
\* begun by then.
Turn == app = "open" /\ \A a \in Agents : run[a] # "created"

---------------------------------------------------------------------------
(* Starting.                                                               *)

\* start_agent for each of `wanted` in one turn, new ones among them: no
\* status changes in between, so the capacity is tested against the same
\* count for all of them.
\* Slip: > for >=.
OverCapacity == Cardinality(With("running")) > MaxParallel

AtCapacity == Cardinality(With("running")) >= MaxParallel

StartAll(wanted) ==
    /\ IF AtCapacity THEN UNCHANGED <<run, active>>
       ELSE /\ run' = [a \in Agents |-> IF a \in wanted THEN "created" ELSE run[a]]
            /\ active' = active \union wanted
    /\ loose' = (loose \/ Cardinality(wanted) > 1)

\* The run and spawn commands and the task file given on the command line:
\* the agents are created and then started.
RunTasks(new) ==
    /\ Turn
    /\ new # {} /\ \A a \in new : status[a] = "none"
    /\ agents' = agents \union new
    /\ status' = [a \in Agents |-> IF a \in new THEN "pending" ELSE status[a]]
    /\ StartAll(new)
    /\ UNCHANGED <<paused, asked, cancels, app, cleaning>>

\* The start command, for one pending agent or for all.
Start(wanted) ==
    /\ Turn
    /\ wanted # {} /\ wanted \subseteq With("pending")
    /\ Cardinality(wanted) = 1 \/ wanted = With("pending")
    /\ StartAll(wanted)
    /\ UNCHANGED <<agents, status, paused, asked, cancels, app, cleaning>>

---------------------------------------------------------------------------
(* execute_agent, in the agent's task.                                     *)

Begin(a) ==
    /\ run[a] = "created"
    /\ run' = [run EXCEPT ![a] = "running"]
    /\ status' = [status EXCEPT ![a] = "running"]
    /\ UNCHANGED <<agents, active, paused, asked, cancels, loose, app, cleaning>>

\* Cancelled before it began, the coroutine never runs.
NeverBegun(a) ==
    /\ run[a] = "stillborn"
    /\ run' = [run EXCEPT ![a] = "finished"]
    /\ UNCHANGED <<agents, status, active, paused, asked, cancels, loose, app, cleaning>>

\* The orchestrator returned; _convert_status maps MAX_ITERATIONS to STUCK.
Finish(a) ==
    /\ run[a] = "running"
    /\ run' = [run EXCEPT ![a] = "finished"]
    /\ \E s \in {"complete", "stuck", "failed"} : status' = [status EXCEPT ![a] = s]
    /\ UNCHANGED <<agents, active, paused, asked, cancels, loose, app, cleaning>>

FinishCancelled(a) ==
    /\ run[a] = "cancelling"
    /\ run' = [run EXCEPT ![a] = "finished"]
    /\ status' = [status EXCEPT ![a] = "cancelled"]
    /\ UNCHANGED <<agents, active, paused, asked, cancels, loose, app, cleaning>>

\* Slip: no done-callback is added.
NoDoneCallback(a) ==
    /\ run[a] = "finished"
    /\ run' = [run EXCEPT ![a] = "gone"]
    /\ UNCHANGED <<agents, status, active, paused, asked, cancels, loose, app, cleaning>>

DoneCallback(a) ==
    /\ run[a] = "finished"
    /\ run' = [run EXCEPT ![a] = "gone"]
    /\ active' = active \ {a}
    /\ UNCHANGED <<agents, status, paused, asked, cancels, loose, app, cleaning>>

---------------------------------------------------------------------------
(* Cancelling.                                                             *)

Cancelled(a) ==
    run' = [run EXCEPT ![a] = IF @ = "running" THEN "cancelling"
                              ELSE IF @ = "created" THEN "stillborn" ELSE @]

\* The dashboard's cancel starts a worker for every agent it finds running.
DashboardCancels ==
    /\ Turn
    /\ With("running") # {} /\ \A a \in With("running") : asked[a] + cancels[a] < MaxCancels
    /\ asked' = [a \in Agents |-> asked[a] + IF a \in With("running") THEN 1 ELSE 0]
    /\ UNCHANGED <<agents, status, run, active, paused, cancels, loose, app, cleaning>>

\* The entry is deleted and the agent, if the session has it still, marked.
Unlist(a) ==
    /\ active' = active \ {a}
    /\ status' = [status EXCEPT ![a] = IF a \in agents THEN "cancelled" ELSE @]

\* The worker begins, which looks at active_tasks only, and there is nothing
\* to cancel any more, or the worker of an app that quits is itself cancelled.
NothingToCancel(a) ==
    /\ asked[a] > 0 /\ (a \notin active \/ app # "open")
    /\ asked' = [asked EXCEPT ![a] = @ - 1]
    /\ UNCHANGED <<agents, status, run, active, paused, cancels, loose, app, cleaning>>

CancelAgent(a) ==
    /\ asked[a] > 0 /\ a \in active /\ run[a] # "finished"
    /\ asked' = [asked EXCEPT ![a] = @ - 1]
    /\ Cancelled(a)
    /\ cancels' = [cancels EXCEPT ![a] = @ + 1]
    /\ UNCHANGED <<agents, status, active, paused, loose, app, cleaning>>

\* The task ended since the worker was started and its done-callback is still
\* to come: the await returns at once, whatever the task ended with.
CancelTooLate(a) ==
    /\ asked[a] > 0 /\ a \in active /\ run[a] = "finished"
    /\ asked' = [asked EXCEPT ![a] = @ - 1]
    /\ Unlist(a)
    /\ UNCHANGED <<agents, run, paused, cancels, loose, app, cleaning>>

\* After the await; if the entry is gone already that is a KeyError, and a
\* worker that fails ends the app.
CancelReturns(a) ==
    /\ cancels[a] > 0 /\ run[a] = "gone"
    /\ cancels' = [cancels EXCEPT ![a] = @ - 1]
    /\ IF a \in active
       THEN Unlist(a) /\ UNCHANGED app
       ELSE /\ app' = IF app = "open" THEN "quitting" ELSE app
            /\ UNCHANGED <<active, status>>
    /\ UNCHANGED <<agents, run, paused, asked, loose, cleaning>>

\* The shell's cancel command looks for the task in session.active_agents,
\* which nothing fills: it changes nothing and is left out.

---------------------------------------------------------------------------
(* Pausing and clearing.                                                   *)

\* Nothing awaits the event that pause_agent makes: the run goes on.
Pause(a) ==
    /\ Turn
    /\ a \in With("running")
    /\ paused' = paused \union {a}
    /\ status' = [status EXCEPT ![a] = "paused"]
    /\ loose' = TRUE
    /\ UNCHANGED <<agents, run, active, asked, cancels, app, cleaning>>

\* Slip: the entry is enough.
ResumeByEntry(a) ==
    /\ Turn
    /\ a \in agents /\ a \in paused
    /\ paused' = paused \ {a}
    /\ status' = [status EXCEPT ![a] = "running"]
    /\ UNCHANGED <<agents, run, active, asked, cancels, loose, app, cleaning>>

\* The resume command asks for a paused status before it calls resume_agent,
\* which asks for the entry.
Resume(a) ==
    /\ Turn
    /\ a \in With("paused") /\ a \in paused
    /\ paused' = paused \ {a}
    /\ status' = [status EXCEPT ![a] = "running"]
    /\ UNCHANGED <<agents, run, active, asked, cancels, loose, app, cleaning>>

\* The dashboard's clear drops agents that ended, the stuck ones excepted.
Clear ==
    /\ Turn
    /\ LET ended == With("complete") \union With("failed") \union With("cancelled")
       IN /\ ended # {}
          /\ agents' = agents \ ended
    /\ UNCHANGED <<status, run, active, paused, asked, cancels, loose, app, cleaning>>

---------------------------------------------------------------------------
(* Leaving: on_unmount awaits executor.cleanup().                          *)

Quit ==
    /\ app = "open"
    /\ app' = "quitting"
    /\ UNCHANGED <<agents, status, run, active, paused, asked, cancels, loose, cleaning>>

\* Slip: the paused agents are forgotten.
CleanupRunning ==
    /\ app = "quitting"
    /\ app' = "cleaning"
    /\ cleaning' = [at |-> {}, left |-> active \intersect With("running")]
    /\ UNCHANGED <<agents, status, run, active, paused, asked, cancels, loose>>

Cleanup ==
    /\ app = "quitting"
    /\ app' = "cleaning"
    /\ cleaning' = [at |-> {}, left |-> active]
    /\ UNCHANGED <<agents, status, run, active, paused, asked, cancels, loose>>

\* Slip: a task is awaited without being cancelled.
CleanupAwaits(a) ==
    /\ app = "cleaning" /\ cleaning.at = {} /\ a \in cleaning.left
    /\ cleaning' = [at |-> {a}, left |-> cleaning.left \ {a}]
    /\ UNCHANGED <<agents, status, run, active, paused, asked, cancels, loose, app>>

\* To await a task that has ended takes no time.
CleanupCancels(a) ==
    /\ app = "cleaning" /\ cleaning.at = {} /\ a \in cleaning.left
    /\ Cancelled(a)
    /\ cleaning' = [at |-> IF run[a] \in {"finished", "gone"} THEN {} ELSE {a},
                    left |-> cleaning.left \ {a}]
    /\ UNCHANGED <<agents, status, active, paused, asked, cancels, loose, app>>

CleanupAwaited ==
    /\ app = "cleaning"
    /\ \E a \in cleaning.at : run[a] = "gone"
    /\ cleaning' = [cleaning EXCEPT !.at = {}]
    /\ UNCHANGED <<agents, status, run, active, paused, asked, cancels, loose, app>>

Exit ==
    /\ app = "cleaning" /\ cleaning = NoAgent
    /\ app' = "exited"
    /\ active' = {} /\ paused' = {}
    /\ UNCHANGED <<agents, status, run, asked, cancels, loose, cleaning>>

EventLoop ==
    \/ \E a \in Agents : \/ Begin(a) \/ NeverBegun(a) \/ FinishCancelled(a)
                         \/ DoneCallback(a) \/ NothingToCancel(a) \/ CancelAgent(a)
                         \/ CancelTooLate(a) \/ CancelReturns(a) \/ CleanupCancels(a)
    \/ Cleanup \/ CleanupAwaited \/ Exit

User ==
    \/ \E new \in SUBSET Agents : RunTasks(new) \/ Start(new)
    \/ \E a \in Agents : Pause(a) \/ Resume(a)
    \/ DashboardCancels \/ Clear \/ Quit

Next == EventLoop \/ User \/ \E a \in Agents : Finish(a)

SafeSpec == Init /\ [][Next]_vars

\* The event loop runs what is ready and a cancelled grind ends.  A grind left
\* alone need not end, and the user need not do anything.
Spec == SafeSpec /\ WF_vars(EventLoop)

---------------------------------------------------------------------------
(* Properties.                                                             *)

\* Every variable keeps its type.
TypeOK ==
    /\ agents \subseteq Agents /\ active \subseteq Agents /\ paused \subseteq Agents
    /\ status \in [Agents -> {"none", "pending", "running", "paused"} \union Final]
    /\ run \in [Agents -> {"none", "created", "stillborn", "running", "cancelling",
                           "finished", "gone"}]
    /\ asked \in [Agents -> Nat] /\ cancels \in [Agents -> Nat]
    /\ loose \in BOOLEAN
    /\ app \in {"open", "quitting", "cleaning", "exited"}
    /\ cleaning \in [at: SUBSET Agents, left: SUBSET Agents]

\* The executor can reach every task until it is finished, and an entry of
\* active_tasks does not outlive the task's done-callback.  It goes earlier
\* only by a cancellation that came too late, which has the agent called
\* cancelled whatever it had answered.
TasksTracked ==
    app # "exited" =>
        \A a \in Agents :
            /\ run[a] \in Live \union {"stillborn"} => a \in active
            /\ a \in active => run[a] \in Live \union {"stillborn", "finished"}
            /\ run[a] = "finished" /\ a \notin active =>
                   status[a] = "cancelled" \/ a \notin agents

\* The status the user sees is the task's: running or paused exactly while
\* the grind runs, final only after it.
StatusFollowsTask ==
    \A a \in Agents :
        /\ status[a] \in {"running", "paused"} <=> run[a] \in {"running", "cancelling"}
        /\ status[a] \in Final => run[a] \in {"finished", "gone"}

\* As long as agents are started one at a time and none is paused, no more
\* than MaxParallel of them run.
CapacityOneByOne ==
    ~loose => Cardinality({a \in Agents : run[a] \in Live}) <= MaxParallel

\* After the app has gone no grind is left running behind it.
NothingLeftRunning == app = "exited" => \A a \in Agents : run[a] \notin Live

\* An app that quits gets through its cleanup.
QuitExits == app = "quitting" ~> app = "exited"
=============================================================================
