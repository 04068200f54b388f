# Formal models of Grind Loop

Grind Loop runs coding agents in fix-verify loops: one task (`grind run`), a list
(`grind batch`), a dependency graph with git worktrees (`grind dag`), one task on several
models (`grind compare`), or interactively (`grind tui`). This directory holds TLA+ models of
the parts where ordering, failure and concurrency matter, the TLC configurations that check
them, and TLAPS proofs. Paths below are relative to `src/grind/` unless they begin with
`src/`.

Run a model with `tlc -config X.cfg M.tla`, where the table under "Runs" pairs X and M;
`tlapm M.tla` checks a proof module.

## 1. The system

| Part | State it keeps | Operations | Interacts with |
|---|---|---|---|
| DAG executor, `dag.py` | outcome sets, results, node statuses, semaphore | `execute`, `_run_single_task`, `_mark_tasks_blocked` | calls `grind()`, worktrees, event bus, callbacks |
| Task graph, `models.py`, `tasks.py` | nodes with `depends_on` | `validate`, `get_execution_order`, `build_task_graph` | read by the executor and the TUI |
| Worktrees, `worktree.py` | directories under `.worktrees`, branches | `create`, `merge_branches`, `cleanup` | git; called by DAG and compare |
| Grind loop, `engine.py`, `hooks.py` | iteration, two error counters, candidate result | `grind`, `_run_iteration`, `_handle_continue_or_backoff`, hooks | SDK client, listener, contract, event bus |
| Interactive, `interactive.py` | one global flag, listener thread, terminal settings | `start/stop_keyboard_listener`, checkpoint menu | read by the grind loop |
| Provider path, `engine.py`, `providers/` | message history, turns used, tools used | `_grind_via_provider`, `OpenRouterProvider.run`, `execute_tool` | HTTP API, file system, contract |
| Contract, `contract.py` | none (pure) | `validate` | called when COMPLETE was said |
| TUI agents, `tui/core/agent_executor.py` | session agents, `active_tasks`, `_paused_agents` | create, start, execute, cancel, pause, resume, cleanup, `execute_batch`, `execute_dag` | shell, dashboard, `grind()` |
| TUI session and logs, `tui/core/` | ring buffers, tab registry | append, tail, register | widgets |
| Merge assistant, `merge.py` | session, attempts; git's refs, index, tree | merge, resolve, skip, abort, roll back, verify | git, the user |
| Orchestration, `orchestration/` | registered agents, subscribers, metrics | `run_agent`, `run_all`, `publish`, `record_run` | agents, handlers |
| Observer, `observer/` | SQLite events, queue, set of WebSocket clients | insert, query, broadcast | hooks of Claude Code, clients |
| Compare, `compare.py` | results per model | `run_compare`, `_run_one` | worktrees, `grind()` |
| Batch and logging | counts; global logger, files and task counter | `run_batch`, `setup_logger` | `grind()` |
| Command line, router, prompts, hook generator | none | parsing, exit codes, text | everything |

What is hard in each, and the properties that make it correct:

- **DAG executor.** The tasks of a wave interleave at every await and share all the outcome
  records; callbacks, event handlers and `grind()` may raise inside `gather`, which
  does not stop the siblings; set-up in git takes several commands. Correct means: a task runs
  only after all its dependencies succeeded, it is blocked only for a cause, it gets exactly
  one verdict that every record agrees on, at most `max_parallel` run, and `execute` ends.
- **Grind loop.** Signals, checkpoints, API errors, the iteration limit and time limits all
  meet in one iteration; hooks share the client's answer stream. Correct means: COMPLETE and
  MAX_ITERATIONS are answered only when earned, three strikes end it, questions and answers
  stay in step, and it ends unless it waits for somebody.
- **Provider path.** A loop of turns inside a loop of iterations with tools that change the
  files a contract requires. Correct means: a valid dialogue, COMPLETE within the contract, the
  same promise to callers as the Claude loop.
- **TUI agents.** Tasks, done-callbacks, cancelling coroutines, pausing and cleanup run in any
  order. Correct means: every task is tracked, the status shown is the task's, and nothing is
  left behind.
- **Merge assistant.** A long sequence of git commands whose exit codes are mostly not looked
  at, with a user who may abort anywhere. Correct means: only the staging branch moves, an abort
  leaves nothing behind, what counts as merged is merged, with what it was made from and nothing else, uncommitted work survives.
- **TUI graphs.** `execute_dag` starts every node at once and lets events hold it back; it looks
  for failures once, waits in lists, and may be cancelled. Correct means: the graph algorithms
  compute what they say, no agent runs before its dependencies ended, the semaphore holds, what is
  returned is the whole, and it ends.
- **Orchestration.** `publish` and `run_all` iterate over a live list and a live dict across
  awaits, and a handler that raises unwinds into `run_agent`. Correct means: who stays
  subscribed hears each event once, who stays registered is run once, the metrics count what
  callers were told.
- **Observer.** Events are stored and queued by requests and sent by one coroutine that iterates
  over a live set of clients; hooks give up after two seconds; the server may be killed. Correct
  means: "ok" is said of stored events only, nothing is stored twice, and a client hears events in
  order and misses none in between but those answered with an error.
- **Compare.** Several models set up and remove worktrees at once, under names that may
  coincide, with Ctrl-C at any await and the cancellation that `asyncio.run` sends after it. Correct means: each grinds in a worktree of its own and nothing
  is left behind.

`PROJECT.json` lists all of this as components, and under "hazards" every place where
it bites, with the properties that cover it.

## 2. Modules

| Module | Models |
|---|---|
| `DependencyGraph` | Reference definitions: acyclic graphs, ancestors. |
| `DagSchedule` | Abstract: what the DAG executor promises, without waves, semaphore or git. |
| `DagExecutor` | `dag.py` with `worktree.py` and the exit code of `grind dag`. |
| `DagExecutorMC`, `DagWorktreeMC` | Instances without and with worktrees. |
| `DagExecutorProofs` | Theorems about `DagExecutor`. |
| `GrindTask` | Abstract: what `grind()` promises, whatever drives the agent. |
| `GrindLoop`, `GrindLoopMC` | `grind()` for the Claude SDK, hooks and checkpoints. |
| `GrindLoopProofs` | Theorems about `GrindLoop`. |
| `ProviderRun`, `ProviderRunMC` | `grind()` for OpenRouter models, with the contract. |
| `ProviderRunProofs` | Theorems about `ProviderRun`. |
| `TuiAgents` | `AgentExecutor` with the shell commands and dashboard handlers that call it. |
| `TuiAgentsProofs` | Theorems about `TuiAgents`. |
| `TaskGraphs` | `TaskGraph.validate` with its cycle search, and `get_execution_order`, as functions. |
| `TuiDag`, `TuiDagMC` | `AgentExecutor.execute_dag`, on the graphs `TaskGraphs` validates. |
| `TuiDagProofs` | Theorems about `TaskGraphs` and `TuiDag`. |
| `EventBus` | `orchestration/events.py`: subscriptions and the publishes under way. |
| `Orchestrator`, `OrchestratorMC` | `run_agent`, `run_all`, registry and metrics; EXTENDS `EventBus`. |
| `OrchestratorProofs` | Theorems about `EventBus` and `Orchestrator`. |
| `Observer` | Store, queue, broadcast loop and clients of `observer/`, with the hooks that post. |
| `ObserverProofs` | Theorems about `Observer`. |
| `Compare`, `CompareMC` | `compare.py` with the commands of `worktree.py` it takes. |
| `Merger`, `MergerMC` | `merge.py` and the part of git it drives. |
| `GitProofs` | Theorems about `Merger` and `Compare`, the two that drive git for a user. |

**DagExecutor.** Variables carry the names of the code: `pending`, `completed`, `stuck`,
`max_iterations`, `failed`, `blocked`, `results`, `execution_order`; `status` is
`node.status` and `pc[t]` the await at which the coroutine of t is suspended. One action is the code between
two awaits: `ScheduleWave` is an iteration of the loop of `execute` (scan, mark blocked, hand
the wave to `gather`), `Acquire`, `CheckBranch`, `AddWorktree`, `MergeBranches`, `Announce`,
`GrindReturns` or `GrindRaises`, `CleanupWorktree` and `Report` are the steps of
`_run_single_task`. An exception puts `phase` at "raised": the siblings go on until
`LoopCloses`, as `gather` without `return_exceptions` and `asyncio.run` behave. `events`,
`notified` and `unmerged` are history.

**GrindLoop.** `pc` is the place in `grind()` and `_run_iteration`. The SDK client is a FIFO
`outstanding` of prompts whose answer has not been read; an answer is read by whoever reads
next, so that hooks and iterations can get out of step. `log` (history) records how each
counted iteration ended. `interject`, `listening` are the global `_interject_state`; `asked` (history) is whose request the
flag is. `Open` starts the listener, which clears the flag unless the terminal refuses its settings,
where `start` returns before. Time limits are actions that may happen wherever the code is under
`asyncio.timeout`.

**ProviderRun.** `OpenRouterProvider.run` is a generator that runs only while the engine asks
for its next event, so both are one thread: `NextIteration`, `AnswersCalls`, `AnswersText`,
`ExecuteTool` and the failures are steps of the generator with what the engine does for the
event, `PublishEnd` and `Conclude` are the engine after the last event. A message is its role,
the number of its tool calls and its signal; a tool is what it may do to the required outputs.

**TuiAgents.** `run[a]` is the life of the asyncio task (created, running, cancelling,
finished, gone); a created task begins in a later turn, and a finished one calls its
done-callback in a later one. The dashboard checks the status and starts a worker (`DashboardCancels`);
`asked[a]` counts the workers that have not begun, and `cancel_agent` runs in a turn of its own: it
cancels a task that runs (`CancelAgent`), finds one that has ended and deletes its entry before the
done-callback (`CancelTooLate`), or finds none (`NothingToCancel`).

**TaskGraphs and TuiDag.** A graph is the sequence of its nodes in the order of the dict and a list
of names for each, which may name a node twice or one that does not exist. `at[n]` is the life of
the coroutine of node n, `main` that of `execute_dag` itself: `Validate` computes the order and
creates the coroutines, then come the steps of the coroutines between their awaits (the look
for failures, the events, the semaphore, the grind), and `Collect` is `execute_dag` awaiting one
after the other. `Cancel` cancels it and the one coroutine it awaits, as asyncio does; the others
go on. `signalled` is the set of events that were set.

**EventBus and Orchestrator.** `cursor[p]` is the position of the list iterator of the publish p
is in; `Unsubscribe` moves the handlers behind it up, as `list.remove` does. The registry is the
entry table of a dict: a removed agent leaves `Gone`, so that the iterator of `run_all`, `iteration`
with its position and the size it was made for, skips it and raises when the size has changed.
One action is the code between two awaits: a handler or an agent ends or raises, and the
caller goes on to the next. `steady`, `shifts`, `present` and `forgotten` are history: who was
there all the time, how many left to the left of the cursor, which results the metrics were
reset after.

**Observer.** `rows` is the table as committed, `transaction` what was inserted and not committed,
`queue` what was queued and not taken. `insert` may fail at the INSERT or at the commit (`Refuse`); a
row whose commit failed stays in the open transaction, and the next commit stores it with its own. The broadcast loop is
the set iterator over `ws_clients`: `ahead` is what it has not given out, `size` the size it
checks, `dead` the clients whose send failed. A client that comes may be given out or not, which
is left open, as the order of a set is. `Stop` loses queue, clients and loop, and keeps the
table; `Start` is the next server on it. `heard`, `refused`
(events answered with an error) and `disturbed` (row ids during whose sending a client came) are history.

**Compare.** One action is one git command or one await of a model's coroutine; every command
may fail. `CancelAll` is Ctrl-C: it takes a grind out through what it has to close ("leaving") into
its removal, and stops a set-up or a removal where it is, with the effect of the command under way
(`Interrupted`) had, half had or not had. `gather` raises at the first model that is out, and
`asyncio.run` cancels the others once more (`CancelRest`), also inside the removals that the first
cancellation began.
`before` and `troubled` (names for which git failed or was cut short) are history.

**Merger.** Each git command is an operator on `head`, `tips`, `staged`, `tree`, `unmerged`,
`merging`; an action is one command or the code between two of them, with the branches that
the unchecked exit codes allow. A task branch (`task`) contains others where it was made from them, as
the executor makes branches with `merge_from`; `Bases` are the merge bases, and a commit brings in all that
the branch contains. A merge may also fail without a conflict, by stopping half way or by not
starting; `failures` (history) holds the branches it happened to, or whose commit failed.

Definitions commented "Slip" are variants of an action or operator with a plausible mistake;
no specification uses them. They show that each property can tell the mistake from the code.

## 3. Runs

| Run | Module, configuration | Shows |
|---|---|---|
| `dag_safety` | `DagExecutorMC`, `DagSafety.cfg` | records agree, blame, every task counted and in the exit code, each end reported once |
| `dag_worktrees` | `DagWorktreeMC`, `DagWorktrees.cfg` | worktrees isolate and are kept; the executor ends and implements `DagSchedule` |
| `dag_merge_conflict` | `DagWorktreeMC`, `DagMergeConflict.cfg` | finding: a failed `merge_from` does not fail the task |
| `grind` | `GrindLoopMC`, `Grind.cfg` | answers are earned, three strikes, question and answer in step, `GrindTask` implemented, it ends or waits |
| `provider` | `ProviderRunMC`, `Provider.cfg` | valid dialogue, COMPLETE earned, `GrindTask` implemented, with its liveness |
| `tui` | `TuiAgents`, `Tui.cfg` | tasks tracked, status follows task, capacity, nothing left running, exits end |
| `tui_dag` | `TuiDagMC`, `TuiDag.cfg` | graph algorithms against their definitions, dependencies waited for, the whole returned, it ends |
| `tui_dag_blocked` | `TuiDagMC`, `TuiDagBlocked.cfg` | finding: a failed dependency does not keep an agent from running |
| `orchestrator` | `OrchestratorMC`, `Orchestrator.cfg` | who stays hears once, who stays is run once, metrics match the answers |
| `observer` | `Observer`, `Observer.cfg` | "ok" means stored, streams in order that miss only what was refused, queued events are heard |
| `merge` | `MergerMC`, `Merger.cfg` | only staging moves, aborts undone, work survives, success means merged but for failures without a conflict |
| `compare` | `CompareMC`, `Compare.cfg` | a worktree of its own for each, nothing left behind but where git failed or work was cut short |

Some properties are in no run because the proofs cover them for every instance: the type invariants
of the modules that have proofs, `RunsAfterDependencies`, `BoundedParallelism` and `VerdictsFinal` of the
DAG executor, `FastExitWithoutBackoff` of the grind loop and `BoundedParallelism` of `TuiDag`.

### Bounds, and why they are enough

- *DAG:* every acyclic graph over four tasks, two at a time, under task symmetry. Four tasks
  hold a diamond, a chain that blocks transitively, and a wave larger than the semaphore. With
  worktrees three tasks: two that claim one branch and a third that merges it; leftovers are
  every subset of directories and branches; every task may raise. The configuration functions
  vary per task, so that run has no symmetry and also carries the liveness properties.
- *Grind loop:* limits of 0 (the `run` command does not validate its options), 2, 3 and 4
  iterations; four is one more than the three strikes need. Every hook
  trigger and list occurs, `every_n` with 2; with and without interaction and contract.
- *Provider:* three iterations and three or four turns, or two iterations and three turns, so
  that either limit can be met first; up to two calls in an answer, one required output that
  tools create and remove, and one contract for each thing that can be limited.
- *TUI:* two agents and a capacity of one, two cancellations of one agent under way.
- *Merger:* three branches, two files. Either all are made apart, with every pair of edits and deletions of
  two of them, or the second is made from the first (`Chain`), or the third from both (`Join`), with
  or without edits of their own; lists with one missing and one repeated; two files because a failing `checkout --theirs .` harms
  other file.
- *TUI graphs:* three nodes, each with every list of dependencies that matters: none, one, two, one
  node named twice, an unknown name; so chains, forks, joins, cycles of every length and self-loops
  occur. At most two agents at a time, so that a third waits for the semaphore.
- *Orchestration:* two callers, interchangeable, of `run_agent` or `run_all`; two handlers, two
  agents, a registry of at most three entries, two changes of subscriptions, registry or
  metrics. A skipped handler needs one change, a removal that an addition hides from the
  size check of the dict two. All four properties are proved without these bounds.
- *Observer:* three events, two clients that come at most twice in all, one crash. Three
  events are what a gap needs; a client that comes during a send needs a second one to be sent to.
- *Compare:* three models, two of one name, with every set of leftovers.

### Fairness, and why the code justifies it

- *DAG:* weak fairness of the loop and of each coroutine. asyncio runs what is ready;
  `grind()` is assumed to return or raise, which `GrindLoop` qualifies: it may wait for
  the user or for a hook that has no time limit.
- *Grind loop:* weak fairness of every step except where the code waits for the user at a menu
  or for a hook outside any time limit. `EndsOrWaits` says what is left: it ends, or is stuck
  at one of these two for ever. A waiting menu is no failure; the hook is a hazard.
- *Provider:* weak fairness of its steps: the HTTP client has a time limit and so has every
  tool that runs a command. Raising and cancelling are not fair.
- *TUI:* weak fairness of the event loop; the end of a `grind()` that nobody cancelled is not
  fair, nor is the user. A cancelled coroutine is taken to end.
- *TUI graphs:* weak fairness of `execute_dag` and of every node's coroutine; a grind is assumed
  to return, raise or be cancelled. The cancellation is not fair.
- *Observer:* weak fairness of the broadcast loop and of the server's handling of each request:
  the event loop runs what is ready, and sending to a client succeeds or fails. Hooks, clients
  and crashes are not fair.
- *Orchestration, compare, merger:* none, they have safety properties only.


## 4. What is proved

All theorems are of the form `SafeSpec => []P` or `Spec => []P` (or `[][A]_vars`) for every value of
the constants; none of them uses fairness. Every proof module names its inductive invariant,
proves `Init => Inv` and `Inv /\ [Next]_vars => Inv'` with one step per action, and derives the
theorems from `Spec => []Inv`; each has a theorem `TypeCorrect` for the `TypeOK` of its module
(`MergerTypeCorrect` and `CompareTypeCorrect` in `GitProofs`). Every safety property of every
passing run is stated by a theorem.

**DagExecutorProofs** assumes `DagAssumption`: the set of tasks is finite, each configuration is
well typed, and `max_parallel` is a positive number. `DagInv` is `TypeOK`, `VerdictsAgree`
and `RunsAfterDependencies`, which are not inductive alone: that a task is given a second
verdict is excluded only by `Placement` (where the coroutine of a task is, and which outcome set
holds the task, determine each other), and that nothing is left unfinished on return by
`AfterReturn`. Theorems: `TypeCorrect`; `RecordsAgree` (outcome sets, `results` and statuses
agree); `DependenciesFirst`; `Finality` (no step takes a verdict back); `Blame` (a blocked task
rests on one that ran and failed, through any number of blocked ones: every blocked task
depends on a failed, a stuck, an exhausted or an earlier blocked one, and blame is closed under that);
`Reporting` (one call of `on_task_complete` and one pair of events for each task); `Isolation` (no two
working tasks share directory or branch: a directory and its branch are owned from `AddWorktree` on,
whatever was left over); `WorkIsKept`. `Accounting` says that when `execute` returns the five
counts add up to the number of tasks and the exit code means what it says: a pending set with
nothing ready and nothing newly blocked would be a set in which everyone depends on a member,
which a finite acyclic graph does not have. This is the one place that needs acyclicity.

Last come `Parallelism` (only `Acquire` adds a holder of the semaphore, and one at a time) and
`ScheduleImplemented`: the executor with waves, semaphore, git and exceptions
implements the safety part of `DagSchedule`, where a task is simply started when its
dependencies succeeded.

`Unstuck` and `NoWayBack` are the two facts that `Terminates` rests on. While `execute` is running, the
loop or some coroutine can go on (`LoopMay`, `TaskMay(t)`: the guards of `Loop` and `TaskStep(t)`).
When nobody holds the semaphore, the wave is over or somebody is queued, and of the queued one is first in
line because `Lined` says that whoever is queued is in `execution_order`, which a wave, a
sequence with every ready task in it, has extended. Every step takes a coroutine, the set of
pending tasks or the execution forward and nothing back. The conclusion from both and fairness
stays with TLC.

**GrindLoopProofs** assumes `GrindAssumption`: task definitions are well typed, and whether
there is a terminal is a Boolean. The parts of `GrindInv` are: `Counted` (iteration and log), `Trailing`
(`consecutive_errors` counts the errors at the end of the log), `Strikeout` (three errors and
the exits for errors need each other, and the fast-failure counter never passes the other),
`Waits` (when an iteration is counted it slept nothing, or as many seconds as errors came before
it), `Candidates` (what an iteration may return and what it read for it), `Silence` (a counted
iteration gave no signal within its time limit), `Justification` (what the final status rests
on) and `Asked` (the answers not read yet, through hooks and time limits). Theorems: `TypeCorrect`, `StrikesAreThree`,
`CompletionIsEarned`, `LimitIsSilence`, `StaysInStep`, `FastExitUnslept`, and
`TaskImplemented`, the refinement of `GrindTask`. `KeyFirst` has an invariant of its own, `KeyMeant`:
the flag is set iff somebody asked, a key of this grind or an earlier grind; and the request of an
earlier one outlives the start of this one only where nobody listens.

**ProviderRunProofs** assumes `ProviderAssumption`: finite sets of tools and outputs,
well-typed tasks, "no limit" is not a number. `ProviderInv` adds to the types `Ending` (what is
known where) and `Word` (COMPLETE and STUCK need an iteration, and a COMPLETE is in the
last message). The dialogue needs a second invariant, `Dialogue`: while calls are executed one
answer is `Unsettled`, its results so far follow it and the calls left in `todo` are just those
missing; everything before it is `Settled`. Theorems: `TypeCorrect`, `CompletionIsEarned`,
`DialogueIsWellFormed` for answers with any number of calls, and `TaskImplemented`, the safety
part of the refinement of `GrindTask`. `WithinLimits`: no run uses more than its iterations or its
turns, however they are divided. `NoWayBack`: every step uses up an iteration, a turn or a call of the
answer, or brings the end nearer; what the liveness part of the refinement rests on.

**TuiAgentsProofs** assumes finitely many agents. What is missing from the properties themselves is
`Statuses` (a task that has not begun belongs to a pending agent, and workers of `cancel_agent` are started for
agents that run, so that only `cleanup()` can cancel a task before it begins) and `CleaningUp` (every task
that has not ended is the one `cleanup()` awaits or one of those it still has to cancel). Theorems: `Tracking`,
`StatusIsTold`, `Leaving`, and `Capacity`: between two turns of the loop the tasks at work are the
agents shown as running, so that the test of the capacity is right for one more.

**TuiDagProofs** assumes `TuiDagAssumption`: no identifier twice, lists of dependencies that are lists,
and a positive `max_parallel`. Its first half proves what the graph algorithms of `TaskGraphs`
compute, for any graph. Both are loops or recursive, so the module first derives induction, stated for a
set, and the existence of functions defined by recursion, from the well-foundedness of `<`; in this form
no operator is a parameter.

- *The order* (`OrderIsRight`). `Kahn` is the invariant of the loop: no node is in the order or the queue
  twice, an in-degree is the length of the node's list less the number of its distinct dependencies
  in the order, the nodes taken up are those with in-degree 0, and each stands behind its
  dependencies. A node that names another one twice keeps an in-degree above 0 and is
  dropped with everything that rests on it, which `IsExecutionOrder` allows.
- *The cycle search* (`CyclesAreDetected`). `SearchInduction` is induction over how much is visited,
  then over how long the list still is. `NoFalseCycle`: the nodes in the list of a search are
  ancestors of those on its path, so meeting one of the path again is a cycle. `NoMissedCycle`: what
  was visited and left again rests on nothing else and on no cycle (`Ordered`), and a search that
  reports none leaves all it went through.
- `AcceptedGraphs`: the graphs that `validate` accepts are exactly `AcyclicGraphs` of the nodes, the
  graphs from which `DagExecutor` and `DagSchedule` start.

`GraphsOrdered` carries both into the specification. `Signals` then carries `DependenciesFirst`: an
event is set only by a coroutine that has ended, and an agent is created only behind all the events
of its node; no cancellation breaks either, since `finally` sets the event last. `Parallelism`
counts the holders. `Wholeness` needs that `execute_dag` has awaited every coroutine of the order
when it returns, and that the order lists nodes of the graph.

`Unstuck` and `NoWayBack` say what `Terminates`' counterpart `Ends` rests on, as for the DAG
executor. Here coroutines wait for each other: of those that have not ended, the first one in the
order has only ended ones before it, so its events are set; and if it waits for the semaphore, a
holder can go on.

**OrchestratorProofs** assumes finitely many handlers and subscriptions and registries without
repetition. Of the bus, `Delivery`: a handler that was called and stayed is to the left of the
cursor (`Passed`), so it is not called again, and the number of those `Skipped` never exceeds
`shifts`: a handler is passed over only when another one to the left of the cursor leaves. Theorems
`OnceHeard` and `StayersHear`. Of `run_all`, `PassInv`: an agent that was there all the time has an
entry in the dict, and it has had no run while the iterator is before that entry, and one run, or
the one at work, when it is behind (`Visited`). Theorem `AllRunOnce`. `MetricsInv` relates each counter
to the set of results given since the last reset, through handlers that raise and calls that are cut
short. Theorem `MetricsMatch`.

**ObserverProofs** assumes finitely many clients. `StoreInv` follows a request from the hook to the
answer (`Answers`), over committed and open rows. `StreamInv` rests on `Taken`, the rows before the
next one the loop can take: the queue is always row ids from there on in order, also after a crash,
where it is empty, and a row above that is not queued is one that was refused (`QueueInv`); the
loop sends a row up to `Taken` (`LoopInv`); clients heard only such rows, in order, and the one being
sent only if the loop is done with them (`HeardInv`); and from the first row a client heard up to
`Taken` none is missing except refused ones and those the iterator has not come to (`GapInv`). Theorem
`Stream`.

**GitProofs.** For the merge assistant it assumes `MergerAssumption`: the task branches keep, edit or delete
files, and contain themselves and all that the branches they contain do (`IsHistory`); a request is a list
of branches that is not empty, and "none" is no branch. Nothing is assumed of the number of files or of how
branches are made from one another, so a merge is reasoned about file by file. `IInv` has these parts.
`Placed`: no branch but staging is moved, and a merge is made on staging. `Accounted`: what differs
from the commit is known to the index, except the edits that the user had at the start, and without
`MERGE_HEAD` the index is as committed. `Undoing`: a rollback follows an abort only, and ends
as `AbortUndone` says; that the checkout of the target is not refused needs `Accounted`. `Surviving`: as long as no
conflict is resolved, a file the user edited is neither committed nor staged nor in conflict, hence git refuses every merge
that would touch it. `Counted`: staging is closed under what its branches contain (`Closed`), it
contains the branches reported as merged except those in `failures` and nothing that none of them contains,
and an unfinished merge is that of the branch at hand or of one that was reported and whose commit failed. Theorems: `Stillness`
(`OnlyStagingMoves`), `Abort`, `Survival`, `Success`.

For compare it assumes that every model has a name. `Owned` says that from the set-up
to the end of its removal a model owns its name, and that the branch stands for that: git refuses
to make a branch twice, so two models of one name never work at once (`Isolation`). For `NoTrace`,
`Traced` adds, name by name, at which stage of a removal directory and branch still exist,
until a failed command or a cancellation inside a set-up or a removal makes the name `troubled`.
`AllOver`: nothing runs any more when the comparison has ended, by itself or cancelled twice.

## 5. What is only model-checked

- *Liveness and fairness*, which the prover does not handle: `Terminates`, `EndsOrWaits`,
  `QuitExits`, `Ends`, `QueuedIsHeard`, and the liveness parts of `ImplementsTask` of the provider and
  of `ImplementsSchedule`.
  Of `Terminates` and `Ends` the theorems give the two halves without fairness, `Unstuck` and `NoWayBack`,
  of the end of a provider run the second.
- *That `LoopMay`, `TaskMay`, `MainMay` and `NodeMay` are ENABLED of the actions they stand for:* they are
  the guards, read off the actions; the prover has no rule for ENABLED.
- *The two findings*, which are counterexamples.

## 6. What is not modelled, and what is abstracted

- *DAG:* `execute` is entered after `validate`. `--parallel 0` is accepted by the command line
  and hangs; the models assume at least 1. A git command succeeds or fails as the state it meets
  requires, or fails for another reason; its output is not read.
- *Grind loop:* prompts, texts and costs are left out, an answer is the signals in it. One grind at a time;
  the listener that several would share is global and listed as a hazard.
- *Provider:* the arguments and texts of tools are left out; `max_tokens` and permissions of a contract are given to
  `validate` by nobody. A tool runs in the event loop and blocks it, which shows in
  `elapsed` only. That AGENT_COMPLETED comes before the check of the contract is noted below.
- *TUI:* `execute_batch`, which only tests call, is a gather over the same semaphore without
  dependencies. Session lists are part of `TuiAgents`; ring buffers, file tailing and tabs are sequential data
  structures of one coroutine. Rendering, key bindings and command parsing are left out. The control panel is never given
  an agent (`tui/app.py:219`), so its buttons do nothing and have no actions here.
- *Orchestration:* durations and costs, and the agent classes that only translate the result of
  `grind()`. A handler that is subscribed twice counts as two handlers.
- *Observer:* queries, statistics and the parsing of payloads read and do not write.
- *Compare:* the table it prints. A second Ctrl-C, which ends the process at once, and what a git command
  that nobody waits for any more does later are left out.
- *Merger:* the unit of conflict is a file. Task branches fork from the target or from one another;
  a branch that another one contains still exists, and has no later commits. Of several merge bases git's
  own merge of them is approximated file by file (`Base`). Untracked files are not part of the tree;
  that one is in the way is a merge that does not start. No other process works in the repository.
- *Worktrees:* the commands that list and clean up for the user.
- *Batch* runs one grind after another and has no state but counters. *Logging* keeps logger, file
  and task counter in globals that parallel tasks rebind, so that a log can hold lines of another
  task; nothing depends on them and no document promises otherwise.
- *Task files, command line* (apart from the exit code of `grind dag`), *router, prompts, hook
  generator, the Claude provider wrapper, provisioning*: text and data without program state.
- *The generated documentation site* (`src/site/`), with the word segmenters `wordcut.js` and
  `tinyseg.js` of its search: vendored third-party JavaScript that no part of the program calls.
  All of Grind Loop itself is Python; a count of mapped lines that looks at JavaScript only sees none
  of what is modelled here.

## 7. Where the code and its documents disagree

Two runs show a disagreement each; PROJECT.json quotes the lines. `tui_dag_blocked` looks like
a mistake of the code: `execute_dag` looks for failed dependencies before it waits for them
(`agent_executor.py:268`), so that dependents of a failed task run. `dag_merge_conflict` may be
one of the document.

Met while modelling, without a run of their own:

- *Grind loop.* `on_error` hooks never run (`engine.py:633`, `docs/guide/features.md:64`). A COMPLETE is dropped when
  its `post_grind` hooks outlast the time limit (`engine.py:618`, `docs/architecture.md:15`). The first API error of a row is not waited for (the comments at `engine.py:702`
  and `src/tests/test_error_handling.py:188` say otherwise). `pre_grind` hooks with "once" never run
  (`models.py:62`, `docs/guide/features.md:61`), nor do `on_success` hooks (`models.py:64`,
  `features.md:65`). `post_grind` hooks run after COMPLETE only (`features.md:58`). Persistent
  guidance is stored and not read again (`models.py:26`, `engine.py:787`). A request that an earlier grind
  left opens a menu without a key when the listener cannot be started (`interactive.py:125`), since
  only the start clears it.
- *DAG.* `docs/guide/dag-execution.md:217` says that exit code 2 means an invalid graph; `cli.py:212`
gives it for stuck tasks. A
  dependency named twice makes `get_execution_order` drop the node.
- *Provider.* The budget of tool calls counts different tools, not calls (`engine.py:943`, `contract.py:138`).
  Running out of iterations is answered ERROR, not MAX_ITERATIONS, and exceptions leave
  `grind()`, while `engine.py:829` says callers see no difference. AGENT_COMPLETED is published
  before the contract is checked. A COMPLETE beside tool calls is not seen. A child contract without
  a limit is not bound by its parent's.
- *TUI.* Pausing an agent does not pause its task (`docs/tui.md:435`, `agent_executor.py:388`).
  `/cancel` looks in a list that nothing fills (`shell_commands.py:511`). `cancel_agent` raises `KeyError`
  when the done-callback was first to delete the entry (`agent_executor.py:368`, docstring at 359). An agent
  that ends between the dashboard's check and `cancel_agent` is shown CANCELLED whatever it had
  answered (`agent_executor.py:372`). A cancelled
  `execute_dag` leaves its other coroutines behind, and those that wait for an event which the
  cancelled one never sets stay for good (`agent_executor.py:307`).
- *Merger.* "Keep theirs" can commit conflict markers (`merge.py:262`, `src/README.md:163`). `grind merge` is documented (`src/README.md:137`) and no such subcommand exists.
  "Show diff" raises (`merge.py:201`). "Keep ours" fails when our side deleted the file. The
  backup is taken of HEAD, not of the target (`merge.py:411`). A commit that a hook of the repository
  refuses is counted a success; so is a merge that failed without a conflict (`merge.py:242` takes every
  failure for one) and was answered with a side, where nothing was merged at all. A branch that was
  skipped may still be in staging, through another one that contains it. The rollback ends on the target
  although "pre-merge state" (`merge.py:317`) may have been another branch.
- *Observer.* `_broadcast_loop` ends with a `RuntimeError` when the set of clients changes size
  during a send (`observer/server.py:158`); from then on clients connect, events are stored and
  nothing is streamed, while line 1 promises "streams them live". The properties say what
  holds until then. An event whose commit failed (`observer/store.py:98`) is answered with an error, stored
  by the next commit all the same, and never streamed.
- *Compare.* A set-up that fails after git made the branch is not cleaned up, although `compare.py:144`
  says "always clean up failures so stale branches don't block retries". Neither is one that Ctrl-C cuts
  short. At Ctrl-C `gather` (`compare.py:210`) raises at the first model that is out, and `asyncio.run`
  (`cli.py:493`) cancels the others inside the removals they have begun, where no handler takes a
  `CancelledError`: worktrees and branches of models that had nothing but their grind interrupted stay,
  although line 188 says "Always clean up according to policy".
- *Orchestration.* A handler that leaves makes `publish` pass over another one (`events.py:99`;
  line 94 says "Publish an event to all subscribers."). When all agents are removed and added again
  during `run_all`, one agent can be run twice without an error, since the dict starts its entries
  anew under the iterator (`orchestrator.py:184`); `RunsAllOnce` therefore speaks of agents that stay.

## 8. What is left

1. The one keyboard listener that parallel grinds share: several `GrindLoop`s over one flag.
2. Session lists with ring buffers and file tailing; `execute_batch`; logging with parallel tasks,
   if a promise about logs is ever made.
3. The halves of `EndsOrWaits`, `QuitExits` and `QueuedIsHeard` that need no fairness, as for the graphs.
4. The contract check and the order of AGENT_COMPLETED around it, with an `EventBus` below
   `ProviderRun`.

Each new question takes the place of a weaker one, so that the list of runs stays readable.
