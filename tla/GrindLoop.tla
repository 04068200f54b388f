----------------------------- MODULE GrindLoop -----------------------------
(***************************************************************************)
(* The grind loop of grind/engine.py for one task run by the Claude SDK:   *)
(* hooks, the initial query, the iterations with their time limits, the    *)
(* completion signals, the interactive checkpoints, the two error counters *)
(* and the ways out.                                                       *)
(*                                                                         *)
(* The SDK client is a FIFO of prompts whose answer has not been read:     *)
(* client.query appends, client.receive_response reads the oldest answer   *)
(* whoever asked for it.  What an answer says, how long anything takes and *)
(* what the user types are chosen by the environment.                      *)
(***************************************************************************)
EXTENDS Integers, Sequences

CONSTANTS
    TaskDefs,       \* the task definitions considered
    IsTerminal      \* sys.stdin.isatty()

Triggers == {"every", "every_n", "on_error", "on_success", "once"}
Hook == [trigger: Triggers, trigger_count: Nat \ {0}]
TaskDefinition ==
    [max_iterations: Nat, interactive: BOOLEAN, contract: BOOLEAN,
     pre_grind: Seq(Hook), post_iteration: Seq(Hook), post_grind: Seq(Hook)]

ASSUME GrindAssumption == TaskDefs \subseteq TaskDefinition /\ IsTerminal \in BOOLEAN

VARIABLES
    task_def,
    pc,             \* where grind() is
    iteration,
    consecutive_errors,
    consecutive_fast_failures,
    slept,          \* seconds of backoff waited in this iteration
    log,            \* how each counted iteration went (history)
    outstanding,    \* prompts the agent has not answered to us yet
    abandoned,      \* hooks whose answer was left unread (history)
    answer,         \* what this iteration read
    todo,           \* hooks still to run in this batch
    stage,          \* the list the batch is from
    hooks_executed,
    interject,      \* _interject_state.requested
    asked,          \* whose request that is: nobody's, the user's, or an earlier
                    \* grind's (history)
    listening,      \* _interject_state.listener_active
    candidate,      \* what _run_iteration returned
    result          \* what grind() returns

loopVars == <<iteration, consecutive_errors, consecutive_fast_failures, slept, log>>
talkVars == <<outstanding, abandoned, answer>>
hookVars == <<todo, stage, hooks_executed>>
userVars == <<interject, asked, listening>>
vars == <<task_def, pc, loopVars, talkVars, hookVars, userVars, candidate, result>>

Signals == {"none", "complete", "stuck", "both"}
Unread == [source |-> "none", signal |-> "none", is_error |-> FALSE, cut |-> FALSE]
NoResult == [status |-> "none", iterations |-> 0, message |-> "none"]
GrindResult(status, n, message) ==
    [status |-> status, iterations |-> n, message |-> message]

SaysComplete == answer.signal \in {"complete", "both"}

Init ==
    /\ task_def \in TaskDefs
    /\ pc = "open"
    /\ iteration = 0 /\ consecutive_errors = 0 /\ consecutive_fast_failures = 0
    /\ slept = 0 /\ log = <<>>
    /\ outstanding = <<>> /\ abandoned = 0 /\ answer = Unread
    /\ todo = <<>> /\ stage = "none" /\ hooks_executed = <<>>
    \* The flag is global: an earlier grind may have left a request behind.
    /\ interject \in {FALSE, IsTerminal}
    /\ asked = IF interject THEN "earlier" ELSE "nobody"
    /\ listening = FALSE
    /\ candidate = NoResult /\ result = NoResult

---------------------------------------------------------------------------
(* Ways out: return leaves the client's context, whose own exit may raise, *)
(* and the finally clause stops the listener.                              *)

StopListener == listening' = (listening /\ ~task_def.interactive)

Return(status, n, message) ==
    /\ result' = GrindResult(status, n, message)
    /\ pc' = "closing"

Close ==
    /\ pc = "closing"
    /\ \/ UNCHANGED result
       \/ result' = GrindResult("error", 0, "exception")
    /\ StopListener
    /\ pc' = "done"
    /\ UNCHANGED <<task_def, loopVars, talkVars, hookVars, interject, asked, candidate>>

\* An exception of the SDK, of an event handler, of on_iteration or of the
\* contract's checks.  Hooks catch their own.
Raise ==
    /\ pc \in {"connect", "query", "receive", "contract", "concluded",
               "checkpoint", "continue", "publish"}
    /\ result' = GrindResult("error", 0, "exception")
    /\ StopListener
    /\ pc' = "done"
    /\ UNCHANGED <<task_def, loopVars, talkVars, hookVars, interject, asked, candidate>>

---------------------------------------------------------------------------
(* Hooks.                                                                  *)

\* SlashCommandHook.should_run; ONCE means iteration 1, ON_SUCCESS never.
ShouldRun(hook, at, is_error) ==
    \/ hook.trigger = "every"
    \/ hook.trigger = "every_n" /\ at % hook.trigger_count = 0
    \/ hook.trigger = "on_error" /\ is_error
    \/ hook.trigger = "once" /\ at = 1

\* execute_hooks starts on a list; every caller passes is_error = False.
StartHooks(list, hooks) ==
    /\ stage' = list
    /\ todo' = hooks
    /\ pc' = "hooks"
    /\ UNCHANGED hooks_executed

\* The next hook of the list is due.
AtHook == pc = "hooks" /\ todo # <<>> /\ ShouldRun(Head(todo), iteration, FALSE)

SkipHook ==
    /\ pc = "hooks" /\ todo # <<>> /\ ~ShouldRun(Head(todo), iteration, FALSE)
    /\ todo' = Tail(todo)
    /\ UNCHANGED <<task_def, pc, loopVars, talkVars, stage, hooks_executed, userVars,
                   candidate, result>>

\* Slip: the command is sent and its answer is not read.
RunHookUnread ==
    /\ AtHook
    /\ outstanding' = Append(outstanding, "hook")
    /\ hooks_executed' = Append(hooks_executed,
           [stage |-> stage, trigger |-> Head(todo).trigger, at |-> iteration])
    /\ todo' = Tail(todo)
    /\ UNCHANGED <<task_def, pc, loopVars, abandoned, answer, stage, userVars,
                   candidate, result>>

\* execute_slash_command: the command is sent and an answer read, or sending
\* fails, or reading fails and leaves the answer to whoever reads next.
RunHook ==
    /\ AtHook
    /\ \/ /\ outstanding' = Tail(Append(outstanding, "hook"))
          /\ UNCHANGED abandoned
       \/ UNCHANGED <<outstanding, abandoned>>
       \/ /\ outstanding' = Append(outstanding, "hook")
          /\ abandoned' = abandoned + 1
    /\ hooks_executed' = Append(hooks_executed,
           [stage |-> stage, trigger |-> Head(todo).trigger, at |-> iteration])
    /\ todo' = Tail(todo)
    /\ UNCHANGED <<task_def, pc, loopVars, answer, stage, userVars, candidate, result>>

HooksDone ==
    /\ pc = "hooks" /\ todo = <<>>
    /\ pc' = CASE stage = "pre_grind" -> "query"
               [] stage = "post_iteration" -> "boundary"
               [] OTHER -> "contract"
    /\ UNCHANGED <<task_def, loopVars, talkVars, hookVars, userVars, candidate, result>>

---------------------------------------------------------------------------
(* Cancellation by the caller, for instance the TUI.                       *)

\* The awaits a cancellation can reach; event handlers do not suspend.
Suspended ==
    \/ pc \in {"connect", "query", "receive", "checkpoint", "continue", "closing"}
    \/ AtHook

\* CancelledError is no Exception: only the finally clause sees it.
Cancel ==
    /\ Suspended
    /\ StopListener
    /\ pc' = "cancelled"
    /\ result' = NoResult
    /\ UNCHANGED <<task_def, loopVars, talkVars, hookVars, interject, asked, candidate>>

---------------------------------------------------------------------------
(* Starting.                                                               *)

\* Slip: a request left behind is not cleared.
OpenKeepingRequest ==
    /\ pc = "open"
    /\ listening' \in {FALSE, task_def.interactive /\ IsTerminal}
    /\ pc' = "connect"
    /\ UNCHANGED <<task_def, loopVars, talkVars, hookVars, interject, asked, candidate, result>>

\* start_keyboard_listener does nothing unless stdin is a terminal.  When the
\* settings of the terminal cannot be read or changed, nobody listens and the
\* flag stays as it is.
Open ==
    /\ pc = "open"
    /\ \/ /\ task_def.interactive /\ IsTerminal
          /\ listening' = TRUE /\ interject' = FALSE /\ asked' = "nobody"
       \/ UNCHANGED userVars
    /\ pc' = "connect"
    /\ UNCHANGED <<task_def, loopVars, talkVars, hookVars, candidate, result>>

Connect ==
    /\ pc = "connect"
    /\ StartHooks("pre_grind", task_def.pre_grind)
    /\ UNCHANGED <<task_def, loopVars, talkVars, userVars, candidate, result>>

InitialQuery ==
    /\ pc = "query"
    /\ outstanding' = Append(outstanding, "agent")
    /\ pc' = "loop"
    /\ UNCHANGED <<task_def, loopVars, abandoned, answer, hookVars, userVars, candidate, result>>

InitialQueryTimesOut ==
    /\ pc = "query"
    /\ \/ outstanding' = Append(outstanding, "agent")
       \/ UNCHANGED outstanding
    /\ Return("error", 0, "query_timeout")
    /\ UNCHANGED <<task_def, loopVars, abandoned, answer, hookVars, userVars, candidate>>
---------------------------------------------------------------------------
(* One iteration: _run_iteration.                                          *)

\* Slip: <= for <.
NextIterationOneMore ==
    /\ pc = "loop" /\ iteration <= task_def.max_iterations
    /\ iteration' = iteration + 1
    /\ slept' = 0
    /\ answer' = Unread /\ candidate' = NoResult
    /\ pc' = "receive"
    /\ UNCHANGED <<task_def, consecutive_errors, consecutive_fast_failures, log,
                   outstanding, abandoned, hookVars, userVars, result>>

\* The while test of grind(), and the start of the next iteration.
NextIteration ==
    /\ pc = "loop" /\ iteration < task_def.max_iterations
    /\ iteration' = iteration + 1
    /\ slept' = 0
    /\ answer' = Unread /\ candidate' = NoResult
    /\ pc' = "receive"
    /\ UNCHANGED <<task_def, consecutive_errors, consecutive_fast_failures, log,
                   outstanding, abandoned, hookVars, userVars, result>>

\* Slip: > for >=.
LimitPassed ==
    /\ pc = "loop" /\ iteration > task_def.max_iterations
    /\ Return("max_iterations", iteration, "limit")
    /\ UNCHANGED <<task_def, loopVars, talkVars, hookVars, userVars, candidate>>

LimitReached ==
    /\ pc = "loop" /\ iteration >= task_def.max_iterations
    /\ Return("max_iterations", iteration, "limit")
    /\ UNCHANGED <<task_def, loopVars, talkVars, hookVars, userVars, candidate>>

\* _process_messages: the oldest answer is read to its ResultMessage.
Receive ==
    /\ pc = "receive" /\ outstanding # <<>>
    /\ \E signal \in Signals, is_error \in BOOLEAN :
         answer' = [source |-> Head(outstanding), signal |-> signal,
                    is_error |-> is_error, cut |-> FALSE]
    /\ outstanding' = Tail(outstanding)
    /\ pc' = "signals"
    /\ UNCHANGED <<task_def, loopVars, abandoned, hookVars, userVars, candidate, result>>

\* asyncio.timeout covers reading the answer and the post_grind hooks.  A
\* hook that is cut off has sent its command or has not.
CutOff ==
    \/ pc = "receive" /\ UNCHANGED <<outstanding, abandoned>>
    \/ /\ AtHook /\ stage = "post_grind"
       /\ \/ UNCHANGED <<outstanding, abandoned>>
          \/ /\ outstanding' = Append(outstanding, "hook")
             /\ abandoned' = abandoned + 1

\* Slip: a hook that runs out of time is taken for one that ended.
TimesOutInHook ==
    /\ CutOff
    /\ answer' = [answer EXCEPT !.is_error = FALSE, !.cut = TRUE]
    /\ candidate' = NoResult
    /\ pc' = IF pc = "hooks" THEN "contract" ELSE "count"
    /\ UNCHANGED <<task_def, loopVars, hookVars, userVars, result>>

TimesOut ==
    /\ CutOff
    /\ answer' = [answer EXCEPT !.is_error = FALSE, !.cut = TRUE]
    /\ candidate' = NoResult
    /\ pc' = "count"
    /\ UNCHANGED <<task_def, loopVars, hookVars, userVars, result>>

\* A signal was given and there is a request to interject: any answer at the
\* menu but "abort" carries on with the signal.
Interjected == task_def.interactive /\ interject

ClearInterject == interject' = FALSE /\ asked' = "nobody"

AbortAtSignal ==
    /\ pc = "signals" /\ answer.signal # "none" /\ Interjected
    /\ ClearInterject
    /\ candidate' = GrindResult("stuck", iteration, "aborted")
    /\ pc' = "concluded"
    /\ UNCHANGED <<task_def, loopVars, talkVars, hookVars, listening, result>>

KeepSignal ==
    /\ IF Interjected THEN ClearInterject ELSE UNCHANGED <<interject, asked>>
    /\ UNCHANGED listening

\* _handle_complete_signal; a COMPLETE beside a STUCK wins.
CompleteSignal ==
    /\ pc = "signals" /\ SaysComplete
    /\ KeepSignal
    /\ StartHooks("post_grind", task_def.post_grind)
    /\ UNCHANGED <<task_def, loopVars, talkVars, candidate, result>>

\* The contract, if the task has one, is fulfilled or it is not.
Conclude ==
    /\ pc = "contract"
    /\ \/ candidate' = GrindResult("complete", iteration, "agent")
       \/ /\ task_def.contract
          /\ candidate' = GrindResult("stuck", iteration, "contract")
    /\ pc' = "concluded"
    /\ UNCHANGED <<task_def, loopVars, talkVars, hookVars, userVars, result>>

\* _handle_stuck_signal
StuckSignal ==
    /\ pc = "signals" /\ answer.signal = "stuck"
    /\ KeepSignal
    /\ candidate' = GrindResult("stuck", iteration, "agent")
    /\ pc' = "concluded"
    /\ UNCHANGED <<task_def, loopVars, talkVars, hookVars, result>>

\* Neither signal: had_error is False whatever the answer's is_error.
NoSignal ==
    /\ pc = "signals" /\ answer.signal = "none"
    /\ StartHooks("post_iteration", task_def.post_iteration)
    /\ UNCHANGED <<task_def, loopVars, talkVars, userVars, candidate, result>>

\* ITERATION_COMPLETED is published and _run_iteration returns.
Publish ==
    /\ pc \in {"concluded", "publish"}
    /\ pc' = "count"
    /\ UNCHANGED <<task_def, loopVars, talkVars, hookVars, userVars, candidate, result>>

---------------------------------------------------------------------------
(* The boundary between two iterations.                                    *)

ToCheckpoint ==
    /\ pc = "boundary" /\ Interjected /\ iteration < task_def.max_iterations
    /\ ClearInterject
    /\ pc' = "checkpoint"
    /\ UNCHANGED <<task_def, loopVars, talkVars, hookVars, listening, candidate, result>>

NoCheckpoint ==
    /\ pc = "boundary" /\ ~(Interjected /\ iteration < task_def.max_iterations)
    /\ pc' = IF iteration < task_def.max_iterations THEN "continue" ELSE "publish"
    /\ UNCHANGED <<task_def, loopVars, talkVars, hookVars, userVars, candidate, result>>

\* A prompt is sent, or its time limit passes with it sent or not.
SendPrompt ==
    /\ \/ outstanding' = Append(outstanding, "agent")
       \/ UNCHANGED outstanding
    /\ pc' = "publish"
    /\ UNCHANGED <<abandoned, answer>>

\* _send_continue_prompt, with the backoff before it.
Backoff ==
    IF answer.is_error /\ consecutive_errors > 0 THEN 2^(consecutive_errors - 1) ELSE 0

Continue ==
    /\ pc = "continue"
    /\ slept' = Backoff
    /\ SendPrompt
    /\ UNCHANGED <<task_def, iteration, consecutive_errors, consecutive_fast_failures,
                   log, hookVars, userVars, candidate, result>>

\* _handle_checkpoint_actions: "status" and "verify" ask again and change
\* nothing here; "continue" and both kinds of guidance send one prompt.
CheckpointContinue ==
    /\ pc = "checkpoint"
    /\ SendPrompt
    /\ UNCHANGED <<task_def, loopVars, hookVars, userVars, candidate, result>>

CheckpointAbort ==
    /\ pc = "checkpoint"
    /\ candidate' = GrindResult("stuck", iteration, "aborted")
    /\ listening' = FALSE
    /\ pc' = "publish"
    /\ UNCHANGED <<task_def, loopVars, talkVars, hookVars, interject, asked, result>>

---------------------------------------------------------------------------
(* Back in grind(): the counters, then the early exits, then the result.   *)

Strikes == 3

\* Slip: an iteration cut off by its time limit keeps the errors before it.
CountForgetsReset ==
    /\ pc = "count"
    /\ \E fast \in {f \in BOOLEAN : f => answer.is_error /\ slept < 2} :
         /\ consecutive_fast_failures' = IF fast THEN consecutive_fast_failures + 1 ELSE 0
         /\ log' = Append(log, [error |-> answer.is_error, fast |-> fast,
                                signal |-> answer.signal, cut |-> answer.cut])
    /\ consecutive_errors' = IF answer.is_error THEN consecutive_errors + 1
                             ELSE IF answer.cut THEN consecutive_errors ELSE 0
    /\ pc' = "decide"
    /\ UNCHANGED <<task_def, iteration, slept, talkVars, hookVars, userVars, candidate, result>>

\* A failure is fast when the iteration, its backoff included, took < 2s.
Count ==
    /\ pc = "count"
    /\ \E fast \in {f \in BOOLEAN : f => answer.is_error /\ slept < 2} :
         /\ consecutive_fast_failures' = IF fast THEN consecutive_fast_failures + 1 ELSE 0
         /\ log' = Append(log, [error |-> answer.is_error, fast |-> fast,
                                signal |-> answer.signal, cut |-> answer.cut])
    /\ consecutive_errors' = IF answer.is_error THEN consecutive_errors + 1 ELSE 0
    /\ pc' = "decide"
    /\ UNCHANGED <<task_def, iteration, slept, talkVars, hookVars, userVars, candidate, result>>

StrikeOut ==
    /\ pc = "decide"
    /\ \/ consecutive_fast_failures >= Strikes /\ Return("error", iteration, "fast_failures")
       \/ /\ consecutive_fast_failures < Strikes /\ consecutive_errors >= Strikes
          /\ Return("error", iteration, "errors")
    /\ UNCHANGED <<task_def, loopVars, talkVars, hookVars, userVars, candidate>>

InPlay == consecutive_fast_failures < Strikes /\ consecutive_errors < Strikes

ReturnCandidate ==
    /\ pc = "decide" /\ InPlay /\ candidate # NoResult
    /\ Return(candidate.status, candidate.iterations, candidate.message)
    /\ UNCHANGED <<task_def, loopVars, talkVars, hookVars, userVars, candidate>>

\* Slip: only a COMPLETE ends the loop.
GoOnUnlessComplete ==
    /\ pc = "decide" /\ InPlay /\ candidate.status # "complete"
    /\ pc' = "loop"
    /\ UNCHANGED <<task_def, loopVars, talkVars, hookVars, userVars, candidate, result>>

GoOn ==
    /\ pc = "decide" /\ InPlay /\ candidate = NoResult
    /\ pc' = "loop"
    /\ UNCHANGED <<task_def, loopVars, talkVars, hookVars, userVars, candidate, result>>

---------------------------------------------------------------------------
(* The listener thread: 'i' may be pressed at any time.                  *)

KeyPress ==
    /\ listening /\ ~interject
    /\ interject' = TRUE /\ asked' = "user"
    /\ UNCHANGED <<task_def, pc, loopVars, talkVars, hookVars, listening, candidate, result>>

Iteration ==
    \/ NextIteration \/ LimitReached \/ Receive \/ TimesOut
    \/ AbortAtSignal \/ CompleteSignal \/ Conclude \/ StuckSignal
    \/ NoSignal \/ Publish
    \/ ToCheckpoint \/ NoCheckpoint \/ Continue \/ CheckpointContinue \/ CheckpointAbort
    \/ Count \/ StrikeOut \/ ReturnCandidate \/ GoOn

Step ==
    \/ Open \/ Connect \/ RunHook \/ SkipHook \/ HooksDone \/ InitialQuery \/ InitialQueryTimesOut
    \/ Iteration \/ Close

Next == Step \/ Raise \/ Cancel \/ KeyPress

SafeSpec == Init /\ [][Next]_vars

\* A menu waits for the user, and the hooks outside the time limit wait for
\* the agent, without end.
AwaitsUser ==
    \/ pc = "checkpoint"
    \/ pc = "signals" /\ answer.signal # "none" /\ Interjected
AwaitsHook == AtHook /\ stage # "post_grind"

\* Every other await ends, at its time limit at the latest, and the event
\* loop runs the coroutine on.
Spec == SafeSpec /\ WF_vars(Step /\ ~AwaitsUser /\ ~AwaitsHook)

---------------------------------------------------------------------------
(* Properties.                                                             *)

PCs == {"open", "connect", "hooks", "query", "loop", "receive", "signals", "contract",
        "concluded", "boundary", "checkpoint", "continue", "publish", "count",
        "decide", "closing", "done", "cancelled"}
Statuses == {"none", "complete", "stuck", "max_iterations", "error"}
Messages == {"none", "agent", "aborted", "contract", "limit", "fast_failures", "errors",
             "query_timeout", "exception"}
Results == [status: Statuses, iterations: Nat, message: Messages]
Stages == {"none", "pre_grind", "post_iteration", "post_grind"}

\* Every variable keeps its type.
TypeOK ==
    /\ task_def \in TaskDefs
    /\ pc \in PCs
    /\ iteration \in Nat /\ consecutive_errors \in Nat /\ consecutive_fast_failures \in Nat
    /\ slept \in Nat
    /\ log \in Seq([error: BOOLEAN, fast: BOOLEAN, signal: Signals, cut: BOOLEAN])
    /\ outstanding \in Seq({"agent", "hook"})
    /\ abandoned \in Nat
    /\ answer \in [source: {"none", "agent", "hook"}, signal: Signals,
                   is_error: BOOLEAN, cut: BOOLEAN]
    /\ todo \in Seq(Hook) /\ stage \in Stages
    /\ hooks_executed \in Seq([stage: Stages, trigger: Triggers, at: Nat])
    /\ interject \in BOOLEAN /\ asked \in {"nobody", "user", "earlier"} /\ listening \in BOOLEAN
    /\ candidate \in Results /\ result \in Results

Ended == pc \in {"done", "cancelled"}

\* grind() answers COMPLETE only when the last iteration read a COMPLETE that
\* no time limit cut off, and reports that iteration.
CompletionEarned ==
    result.status = "complete" =>
        /\ Len(log) > 0 /\ result.iterations = Len(log)
        /\ log[Len(log)].signal \in {"complete", "both"}
        /\ ~log[Len(log)].cut

\* Three iterations in a row ended in an error, i the first of them.
StruckOut(i) ==
    i \in 1..(Len(log) - 2) /\ \A j \in i..(i + 2) : log[j].error

\* The third error in a row is the last iteration of all and answered with
\* ERROR, whatever it signalled; and an ERROR that reports an iteration has
\* three errors in a row behind it.
ThreeStrikes ==
    /\ \A i \in 1..Len(log) : StruckOut(i) =>
          /\ i + 2 = Len(log)
          /\ pc \in {"decide", "closing", "done", "cancelled"}
          /\ result.status \in {"none", "error"}
    /\ result.status = "error" /\ result.iterations > 0 => StruckOut(Len(log) - 2)

\* MAX_ITERATIONS is answered only after every iteration, none of which gave
\* a signal that was read within its time limit.
LimitMeansSilence ==
    result.status = "max_iterations" =>
        /\ Len(log) = task_def.max_iterations
        /\ \A i \in 1..Len(log) : log[i].signal # "none" => log[i].cut

\* Questions and answers stay in step.  A time limit never makes the loop ask
\* twice: at most one answer is outstanding, besides those of hooks that were
\* cut off or failed; and an iteration takes a hook's answer for the agent's
\* only when the answer of a hook was left unread.
AnswersInStep ==
    /\ Len(outstanding) <= 1 + abandoned
    /\ answer.source = "hook" => abandoned > 0

\* The exit for fast failures is never taken after a backoff: three errors in
\* a row wait 2s before the third is counted, so only a third error at the
\* limit, at a checkpoint or with a signal can be the fast one.
FastExitWithoutBackoff == result.message = "fast_failures" => slept = 0

\* A menu opens at the boundary of two iterations or at a signal.
MenuOpens ==
    \/ pc # "checkpoint" /\ pc' = "checkpoint"
    \/ pc = "signals" /\ pc' # "signals" /\ answer.signal # "none" /\ Interjected

\* A menu opens only for a key that was pressed in this grind since the last
\* menu, or, where no listener could be started, for the request that an
\* earlier grind left, which that menu uses up.
CheckpointNeedsKey ==
    [][MenuOpens => asked = "user" \/ (asked = "earlier" /\ ~listening /\ asked' = "nobody")]_vars

\* grind() ends, unless it waits for ever for the user or for a hook that
\* runs outside the time limit.
EndsOrWaits == <>Ended \/ <>[]AwaitsUser \/ <>[]AwaitsHook

Task == INSTANCE GrindTask WITH
    limit <- task_def.max_iterations,
    attempts <- Len(log),
    strikes <- consecutive_errors,
    verdict <- IF pc = "cancelled" THEN "cancelled"
               ELSE IF pc = "done" THEN result.status ELSE "none"

\* The loop is an implementation of the abstract task.
ImplementsTask == Task!SafeSpec
=============================================================================
