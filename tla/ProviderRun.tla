----------------------------- MODULE ProviderRun -----------------------------
(****************************************************************************)
(* grind() for a task of another provider: _grind_via_provider of           *)
(* grind/engine.py drives OpenRouterProvider.run (grind/providers/          *)
(* openrouter.py) and checks the execution contract (grind/contract.py).    *)
(*                                                                          *)
(* The provider is a generator: it runs on only while the engine asks for   *)
(* the next event, so the two are one thread and an event and what the      *)
(* engine does with it are one step.  What the model answers, what its      *)
(* tools do to the required outputs and how long it all takes are chosen by *)
(* the environment.                                                         *)
(****************************************************************************)
EXTENDS Integers, Sequences, FiniteSets

CONSTANTS
    TaskDefs,    \* the task definitions considered
    ToolNames,   \* names of tools a model may ask for
    Outputs,     \* files under state/ that a contract may require
    Unlimited,   \* a budget of None
    MaxCalls     \* how many calls one answer of the model may hold

(* A budget axis: a number or None.                                         *)
Limits == Nat \cup {Unlimited}

(* Every task here carries a contract; the one without limits, outputs and  *)
(* parent stands for a task without.                                        *)
Contract == [max_tool_calls: Limits, max_wall_time_s: Limits,
             parent_tool_calls: Limits, parent_wall_time_s: Limits,
             required_outputs: SUBSET Outputs]
TaskDefinition == [max_iterations: Nat, max_turns: Nat, contract: Contract]

ASSUME ProviderAssumption ==
    /\ TaskDefs \subseteq TaskDefinition
    /\ IsFiniteSet(ToolNames)
    /\ IsFiniteSet(Outputs)
    /\ Unlimited \notin Nat
    /\ MaxCalls \in Nat

VARIABLES
    task_def,
    pc,              \* where the generator and its consumer are
    iteration,
    turns_used,
    messages,        \* the conversation that is sent to the model
    todo,            \* calls of the last answer still to execute
    all_tools,
    present,         \* outputs that exist under state/
    elapsed,         \* seconds since start_time
    terminal_event,
    agent_event,     \* the agent event published on the bus
    result

talkVars == <<turns_used, messages, todo>>
workVars == <<all_tools, present, elapsed>>
endVars == <<terminal_event, agent_event, result>>
vars == <<task_def, pc, iteration, talkVars, workVars, endVars>>

Points == {"start", "iterating", "asking", "executing", "ending", "checking",
           "done", "raised", "cancelled"}
Roles == {"system", "user", "assistant", "tool"}
Signals == {"none", "complete", "stuck", "both"}
Statuses == {"none", "complete", "stuck", "error"}

Message(role) == [role |-> role, calls |-> 0, signal |-> "none"]
Text(signal) == [role |-> "assistant", calls |-> 0, signal |-> signal]
ToolCalls(n) == [role |-> "assistant", calls |-> n, signal |-> "none"]

NoResult == [status |-> "none", iterations |-> 0]

TypeOK ==
    /\ task_def \in TaskDefs
    /\ pc \in Points
    /\ iteration \in Nat
    /\ turns_used \in Nat
    /\ messages \in Seq([role: Roles, calls: Nat, signal: Signals])
    /\ todo \in Seq(ToolNames)
    /\ all_tools \subseteq ToolNames
    /\ present \subseteq Outputs
    /\ elapsed \in Nat
    /\ terminal_event \in {"none", "COMPLETE", "STUCK", "ERROR"}
    /\ agent_event \in {"none", "AGENT_COMPLETED", "AGENT_FAILED"}
    /\ result \in [status: Statuses, iterations: Nat]

Init ==
    /\ task_def \in TaskDefs
    /\ pc = "start"
    /\ iteration = 0
    /\ turns_used = 0 /\ messages = <<>> /\ todo = <<>>
    /\ all_tools = {} /\ present \in SUBSET Outputs /\ elapsed = 0
    /\ terminal_event = "none" /\ agent_event = "none" /\ result = NoResult

------------------------------------------------------------------------------
(* The generator.                                                           *)

(* It yields its last event and never runs again.                           *)
Yields(kind) ==
    /\ terminal_event' = kind
    /\ pc' = "ending"
    /\ UNCHANGED <<agent_event, result>>

Start ==
    /\ pc = "start"
    /\ \/ /\ pc' = "iterating"
          /\ messages' = <<Message("system"), Message("user")>>
          /\ UNCHANGED endVars
       \/ Yields("ERROR") /\ UNCHANGED messages      \* no API key
    /\ UNCHANGED <<task_def, iteration, turns_used, todo, workVars>>

(* Slip: range(1, max_iterations + 2).                                      *)
NextIterationOneMore ==
    /\ pc = "iterating"
    /\ iteration <= task_def.max_iterations
    /\ iteration' = iteration + 1
    /\ pc' = "asking"
    /\ UNCHANGED <<task_def, talkVars, workVars, endVars>>

(* The ITERATION event: on_iteration is called, ITERATION_STARTED published.*)
NextIteration ==
    /\ pc = "iterating"
    /\ iteration < task_def.max_iterations
    /\ iteration' = iteration + 1
    /\ pc' = "asking"
    /\ UNCHANGED <<task_def, talkVars, workVars, endVars>>

OutOfIterations ==
    /\ pc = "iterating"
    /\ iteration >= task_def.max_iterations
    /\ Yields("ERROR")
    /\ UNCHANGED <<task_def, iteration, talkVars, workVars>>

OutOfTurns ==
    /\ pc = "asking"
    /\ turns_used >= task_def.max_turns
    /\ Yields("ERROR")
    /\ UNCHANGED <<task_def, iteration, talkVars, workVars>>

(* _chat_raw raises: a status that is not a success, the network, the time  *)
(* limit of the client, a body that is not JSON.                            *)
ChatFails ==
    /\ pc = "asking"
    /\ turns_used < task_def.max_turns
    /\ Yields("ERROR")
    /\ UNCHANGED <<task_def, iteration, talkVars, workVars>>

(* The model has answered; that took some time.                             *)
Answered ==
    /\ pc = "asking"
    /\ turns_used < task_def.max_turns
    /\ turns_used' = turns_used + 1
    /\ elapsed' \in {elapsed, elapsed + 1}

(* Tool calls: a text beside them is passed on, but not read for signals.   *)
AnswersCalls(calls) ==
    /\ Answered
    /\ messages' = Append(messages, ToolCalls(Len(calls)))
    /\ todo' = calls
    /\ pc' = "executing"
    /\ UNCHANGED <<task_def, iteration, all_tools, present, endVars>>

(* Without tool calls the answer ends the iteration: on COMPLETE, on STUCK, *)
(* or with the continue prompt when another iteration follows.              *)
AnswersText(signal) ==
    /\ Answered
    /\ messages' = Append(messages, Text(signal)) \o
           (IF signal = "none" /\ iteration < task_def.max_iterations
            THEN <<Message("user")>> ELSE <<>>)
    /\ CASE signal \in {"complete", "both"} -> Yields("COMPLETE")
         [] signal = "stuck" -> Yields("STUCK")
         [] signal = "none" -> pc' = "iterating" /\ UNCHANGED endVars
    /\ UNCHANGED <<task_def, iteration, todo, all_tools, present>>

(* What a tool may leave under state/: Write creates a file or fails, the   *)
(* shell creates and removes what it likes, the others create nothing.      *)
Effects(tool) ==
    CASE tool = "Write" -> {present} \cup {present \cup {o} : o \in Outputs}
      [] tool = "Bash" -> SUBSET Outputs
      [] OTHER -> {present}

(* Slip: a call that fails leaves no message behind.                        *)
ExecuteToolSilently ==
    /\ pc = "executing"
    /\ all_tools' = all_tools \cup {Head(todo)}
    /\ present' \in Effects(Head(todo))
    /\ elapsed' \in {elapsed, elapsed + 1}
    /\ messages' \in {messages, Append(messages, Message("tool"))}
    /\ todo' = Tail(todo)
    /\ pc' = IF Tail(todo) = <<>> THEN "asking" ELSE "executing"
    /\ UNCHANGED <<task_def, iteration, turns_used, endVars>>

(* The TOOL_USE event, the execution and the message with its result; an    *)
(* unknown tool and a failing one have a result too.                        *)
ExecuteTool ==
    /\ pc = "executing"
    /\ all_tools' = all_tools \cup {Head(todo)}
    /\ present' \in Effects(Head(todo))
    /\ elapsed' \in {elapsed, elapsed + 1}
    /\ messages' = Append(messages, Message("tool"))
    /\ todo' = Tail(todo)
    /\ pc' = IF Tail(todo) = <<>> THEN "asking" ELSE "executing"
    /\ UNCHANGED <<task_def, iteration, turns_used, endVars>>

------------------------------------------------------------------------------
(* The contract (contract.py validate).                                     *)

Exceeds(n, limit) == limit # Unlimited /\ n > limit

(* A budget of None is compared with nothing.                               *)
ExceedsParent(child, parent) == child # Unlimited /\ Exceeds(child, parent)

(* Slip: a required output that is missing is not a violation.              *)
ViolationsInBudget(c) ==
    {v \in {"parent", "tool_calls", "wall_time"} :
        CASE v = "parent" ->
                \/ ExceedsParent(c.max_tool_calls, c.parent_tool_calls)
                \/ ExceedsParent(c.max_wall_time_s, c.parent_wall_time_s)
          [] v = "tool_calls" -> Exceeds(Cardinality(all_tools), c.max_tool_calls)
          [] v = "wall_time" -> Exceeds(elapsed, c.max_wall_time_s)}

(* The engine passes the number of different tools as actual_tool_calls.    *)
Violations(c) ==
    {v \in {"parent", "tool_calls", "wall_time", "outputs"} :
        CASE v = "parent" ->
                \/ ExceedsParent(c.max_tool_calls, c.parent_tool_calls)
                \/ ExceedsParent(c.max_wall_time_s, c.parent_wall_time_s)
          [] v = "tool_calls" -> Exceeds(Cardinality(all_tools), c.max_tool_calls)
          [] v = "wall_time" -> Exceeds(elapsed, c.max_wall_time_s)
          [] v = "outputs" -> ~(c.required_outputs \subseteq present)}

------------------------------------------------------------------------------
(* The engine.                                                              *)

(* The agent event is published as soon as the last event is seen, before   *)
(* the contract is checked; subscribers take their time.                    *)
PublishEnd ==
    /\ pc = "ending"
    /\ agent_event' = IF terminal_event = "COMPLETE" THEN "AGENT_COMPLETED"
                      ELSE "AGENT_FAILED"
    /\ elapsed' \in {elapsed, elapsed + 1}
    /\ pc' = "checking"
    /\ UNCHANGED <<task_def, iteration, talkVars, all_tools, present, terminal_event,
                   result>>

(* What grind() answers; a violated contract makes a COMPLETE a STUCK.      *)
Conclude ==
    /\ pc = "checking"
    /\ result' = [iterations |-> iteration, status |->
           CASE terminal_event = "ERROR" -> "error"
             [] terminal_event = "STUCK" -> "stuck"
             [] terminal_event = "COMPLETE" ->
                    IF Violations(task_def.contract) = {} THEN "complete" ELSE "stuck"]
    /\ pc' = "done"
    /\ UNCHANGED <<task_def, iteration, talkVars, workVars, terminal_event, agent_event>>

Ended == pc \in {"done", "raised", "cancelled"}

(* Nothing is caught here: an exception of the set-up, of on_iteration or   *)
(* of a subscriber, or an answer without choices, leaves grind().           *)
Raise ==
    /\ ~Ended
    /\ pc' = "raised"
    /\ UNCHANGED <<task_def, iteration, talkVars, workVars, endVars>>

(* The caller cancels the coroutine where it awaits the model or, with a    *)
(* bus, a subscriber of an iteration, a tool call or the end.               *)
Cancel ==
    /\ ~Ended
    /\ iteration > 0 \/ terminal_event # "none"
    /\ pc' = "cancelled"
    /\ UNCHANGED <<task_def, iteration, talkVars, workVars, endVars>>

AnyCalls ==
    \E n \in 1..MaxCalls : \E calls \in [1..n -> ToolNames] : AnswersCalls(calls)
AnyText == \E signal \in Signals : AnswersText(signal)

Step ==
    \/ Start \/ NextIteration \/ OutOfIterations \/ OutOfTurns \/ ChatFails
    \/ AnyCalls \/ AnyText \/ ExecuteTool \/ PublishEnd \/ Conclude

Next == Step \/ Raise \/ Cancel

(* The client has a time limit, and so has every tool that runs a command.  *)
Fairness == WF_vars(Step)

SafeSpec == Init /\ [][Next]_vars
Spec == SafeSpec /\ Fairness

------------------------------------------------------------------------------
(* Properties.                                                              *)

IsToolMessage(i) == i \in DOMAIN messages /\ messages[i].role = "tool"

(* The API wants every tool call of the history answered in its place:      *)
(* whenever the model is asked, an answer with n calls is followed by n     *)
(* tool messages and not by one more, no tool message stands anywhere else, *)
(* and it is the user's or a tool's message that is to be answered.         *)
DialogueWellFormed ==
    pc = "asking" =>
        /\ messages[1].role = "system" /\ messages[2].role = "user"
        /\ messages[Len(messages)].role \in {"user", "tool"}
        /\ \A i \in DOMAIN messages :
               LET n == messages[i].calls IN
               n > 0 => /\ \A j \in 1..n : IsToolMessage(i + j)
                        /\ ~IsToolMessage(i + n + 1)
        /\ \A i \in DOMAIN messages :
               IsToolMessage(i) =>
                   IsToolMessage(i - 1) \/ messages[i - 1].calls > 0

(* COMPLETE is answered only for a COMPLETE the model said last, with the   *)
(* contract's outputs there when grind() returns, whatever tools removed    *)
(* them in between, within its limits, which a parent's bound where both    *)
(* are set; and nobody was told that the agent failed.                      *)
CompleteEarned ==
    result.status = "complete" =>
        LET c == task_def.contract IN
        /\ messages[Len(messages)].signal \in {"complete", "both"}
        /\ c.required_outputs \subseteq present
        /\ c.max_wall_time_s # Unlimited => elapsed <= c.max_wall_time_s
        /\ c.max_tool_calls # Unlimited => Cardinality(all_tools) <= c.max_tool_calls
        /\ {c.max_tool_calls, c.parent_tool_calls} \subseteq Nat =>
               c.max_tool_calls <= c.parent_tool_calls
        /\ agent_event = "AGENT_COMPLETED"

(* The same abstract task that the Claude loop implements.  An exception    *)
(* leaves the caller without an answer, as a cancellation does.             *)
Task == INSTANCE GrindTask WITH
    limit <- task_def.max_iterations,
    attempts <- iteration,
    strikes <- 0,
    verdict <- IF pc \in {"raised", "cancelled"} THEN "cancelled"
               ELSE IF pc = "done" THEN result.status ELSE "none"

ImplementsTask == Task!Spec
==============================================================================
