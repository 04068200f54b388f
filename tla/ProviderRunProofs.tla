------------------------- MODULE ProviderRunProofs -------------------------
(****************************************************************************)
(* Theorems about ProviderRun for every set of tasks, tools and outputs and *)
(* any number of tool calls in an answer.                                   *)
(****************************************************************************)
EXTENDS ProviderRun, FiniteSetTheorems, TLAPS

USE ProviderAssumption

------------------------------------------------------------------------------
(* The inductive invariant, in parts.                                       *)

(* Where the run is tells what is known of its end.                         *)
Ending ==
    /\ pc = "executing" => todo # <<>>
    /\ pc \in {"ending", "checking", "done"} => terminal_event # "none"
    /\ pc \in {"start", "iterating", "asking", "executing"} => terminal_event = "none"
    /\ pc # "done" => result = NoResult
    /\ pc = "start" => messages = <<>> /\ iteration = 0

(* The model's own word is in the last message, and needs an iteration.     *)
Word ==
    /\ terminal_event = "COMPLETE" =>
           /\ Len(messages) > 0
           /\ messages[Len(messages)].signal \in {"complete", "both"}
    /\ terminal_event \in {"COMPLETE", "STUCK"} => iteration > 0
    /\ pc \in {"asking", "executing"} => iteration > 0
    /\ pc \in {"checking", "done"} /\ terminal_event = "COMPLETE" =>
           agent_event = "AGENT_COMPLETED"
    /\ iteration <= task_def.max_iterations

ProviderInv == TypeOK /\ Ending /\ Word /\ CompleteEarned

------------------------------------------------------------------------------
(* Data.                                                                    *)

LEMMA TaskFields ==
    ASSUME NEW d \in TaskDefs
    PROVE  /\ d \in TaskDefinition
           /\ d.max_iterations \in Nat /\ d.max_turns \in Nat
           /\ d.contract \in Contract
BY DEF TaskDefinition

LEMMA Budgets ==
    ASSUME NEW c \in Contract
    PROVE  /\ c.max_tool_calls \in Nat \/ c.max_tool_calls = Unlimited
           /\ c.max_wall_time_s \in Nat \/ c.max_wall_time_s = Unlimited
           /\ c.parent_tool_calls \in Nat \/ c.parent_tool_calls = Unlimited
           /\ c.required_outputs \subseteq Outputs
BY DEF Contract, Limits

LEMMA MessageTypes ==
    /\ \A role \in Roles :
           Message(role) \in [role: Roles, calls: Nat, signal: Signals]
    /\ \A signal \in Signals :
           Text(signal) \in [role: Roles, calls: Nat, signal: Signals]
    /\ \A n \in Nat : ToolCalls(n) \in [role: Roles, calls: Nat, signal: Signals]
BY DEF Message, Text, ToolCalls, Roles, Signals

LEMMA CallsType ==
    ASSUME NEW n \in 1..MaxCalls, NEW calls \in [1..n -> ToolNames]
    PROVE  calls \in Seq(ToolNames) /\ Len(calls) = n /\ calls # <<>>
<1>1. n \in Nat /\ n > 0
  OBVIOUS
<1>2. calls \in Seq(ToolNames) /\ Len(calls) = n
  BY <1>1
<1> QED
  BY <1>1, <1>2

LEMMA Sequence ==
    ASSUME NEW S
    PROVE  /\ \A a \in S : <<a>> \in Seq(S)
           /\ \A a, b \in S : <<a, b>> \in Seq(S)
           /\ \A s, t \in Seq(S) : s \o t \in Seq(S)
           /\ \A s \in Seq(S), a \in S : Append(s, a) \in Seq(S)
           /\ <<>> \in Seq(S)
OBVIOUS

LEMMA Element ==
    ASSUME NEW S, NEW s \in Seq(S), NEW i \in DOMAIN s
    PROVE  s[i] \in S /\ i \in 1..Len(s) /\ Len(s) \in Nat
OBVIOUS

LEMMA Tails ==
    ASSUME NEW S, NEW s \in Seq(S), s # <<>>
    PROVE  /\ Len(s) \in Nat /\ Len(s) > 0 /\ Len(Tail(s)) = Len(s) - 1
           /\ Tail(s) \in Seq(S)
           /\ Tail(s) = <<>> <=> Len(Tail(s)) = 0
<1>1. Len(s) \in Nat /\ Len(s) > 0 /\ Len(Tail(s)) = Len(s) - 1 /\ Tail(s) \in Seq(S)
  OBVIOUS
<1>2. \A t \in Seq(S) : t = <<>> <=> Len(t) = 0
  OBVIOUS
<1> QED
  BY <1>1, <1>2

LEMMA Countable ==
    ASSUME TypeOK
    PROVE  Cardinality(all_tools) \in Nat
BY FS_Subset, FS_CardinalityType DEF TypeOK

(* What a contract without violations says.                                 *)
LEMMA Fulfilled ==
    ASSUME TypeOK, NEW c \in Contract, Violations(c) = {}
    PROVE  /\ c.required_outputs \subseteq present
           /\ c.max_wall_time_s # Unlimited => elapsed <= c.max_wall_time_s
           /\ c.max_tool_calls # Unlimited => Cardinality(all_tools) <= c.max_tool_calls
           /\ {c.max_tool_calls, c.parent_tool_calls} \subseteq Nat =>
                  c.max_tool_calls <= c.parent_tool_calls
<1>1. /\ ~ExceedsParent(c.max_tool_calls, c.parent_tool_calls)
      /\ ~Exceeds(Cardinality(all_tools), c.max_tool_calls)
      /\ ~Exceeds(elapsed, c.max_wall_time_s)
      /\ c.required_outputs \subseteq present
  <2>1. "parent" \notin Violations(c) /\ "tool_calls" \notin Violations(c)
        /\ "wall_time" \notin Violations(c) /\ "outputs" \notin Violations(c)
    OBVIOUS
  <2> QED
    BY <2>1 DEF Violations
<1>2. elapsed \in Nat
  BY DEF TypeOK
<1> QED
  BY <1>1, <1>2, Budgets, Countable DEF Exceeds, ExceedsParent

------------------------------------------------------------------------------
(* The initial states satisfy the invariant.                                *)
LEMMA InitInv == Init => ProviderInv
<1> SUFFICES ASSUME Init PROVE ProviderInv
  OBVIOUS
<1>1. task_def.max_iterations \in Nat
  BY TaskFields DEF Init
<1>2. TypeOK
  BY DEF Init, TypeOK, Points, Statuses, NoResult
<1>3. Ending /\ Word /\ CompleteEarned
  BY <1>1 DEF Init, Ending, Word, CompleteEarned, NoResult
<1> QED
  BY <1>2, <1>3 DEF ProviderInv

(* Every step keeps the types.                                              *)
LEMMA TypeInv ==
    ASSUME ProviderInv, Next
    PROVE  TypeOK'
<1> USE DEF Points, Roles, Signals, Statuses, talkVars, workVars, endVars
<1>0. TypeOK /\ Ending
  BY DEF ProviderInv
<1>1. CASE Start
  <2>1. Message("system") \in [role: Roles, calls: Nat, signal: Signals]
        /\ Message("user") \in [role: Roles, calls: Nat, signal: Signals]
    BY MessageTypes
  <2>2. messages' \in Seq([role: Roles, calls: Nat, signal: Signals])
    <3> DEFINE M == [role: Roles, calls: Nat, signal: Signals]
    <3>1. messages' \in {messages, <<Message("system"), Message("user")>>}
      BY <1>1 DEF Start
    <3>2. messages \in Seq(M) /\ Message("system") \in M /\ Message("user") \in M
      BY <1>0, <2>1 DEF TypeOK
    <3>3. messages' \in Seq(M)
      <4> HIDE DEF M
      <4> QED
        BY <3>1, <3>2, Sequence
    <3> QED
      BY <3>3
  <2> QED
    BY <1>0, <1>1, <2>2 DEF Start, Yields, TypeOK
<1>2. CASE NextIteration
  BY <1>0, <1>2 DEF NextIteration, TypeOK
<1>3. CASE OutOfIterations \/ OutOfTurns \/ ChatFails
  BY <1>0, <1>3 DEF OutOfIterations, OutOfTurns, ChatFails, Yields, TypeOK
<1>4. CASE AnyCalls
  <2>0. PICK n \in 1..MaxCalls :
            \E calls \in [1..n -> ToolNames] : AnswersCalls(calls)
    BY <1>4 DEF AnyCalls
  <2>1. PICK calls \in [1..n -> ToolNames] : AnswersCalls(calls)
    BY <2>0
  <2>2. calls \in Seq(ToolNames) /\ Len(calls) \in Nat
    BY <2>1, CallsType
  <2>3. ToolCalls(Len(calls)) \in [role: Roles, calls: Nat, signal: Signals]
    BY <2>2, MessageTypes
  <2>4. messages' \in Seq([role: Roles, calls: Nat, signal: Signals])
    BY <1>0, <2>1, <2>3 DEF AnswersCalls, TypeOK
  <2> QED
    BY <1>0, <2>1, <2>2, <2>4 DEF AnswersCalls, Answered, TypeOK
<1>5. CASE AnyText
  <2>1. PICK signal \in Signals : AnswersText(signal)
    BY <1>5 DEF AnyText
  <2>2. /\ Text(signal) \in [role: Roles, calls: Nat, signal: Signals]
        /\ Message("user") \in [role: Roles, calls: Nat, signal: Signals]
    BY MessageTypes
  <2>3. messages' \in Seq([role: Roles, calls: Nat, signal: Signals])
    <3> DEFINE M == [role: Roles, calls: Nat, signal: Signals]
    <3>1. \/ messages' = Append(messages, Text(signal)) \o <<>>
          \/ messages' = Append(messages, Text(signal)) \o <<Message("user")>>
      BY <2>1 DEF AnswersText
    <3>2. messages \in Seq(M) /\ Text(signal) \in M /\ Message("user") \in M
      BY <1>0, <2>2 DEF TypeOK
    <3>3. messages' \in Seq(M)
      <4> HIDE DEF M
      <4> QED
        BY <3>1, <3>2, Sequence
    <3> QED
      BY <3>3
  <2>4. pc' \in Points /\ terminal_event' \in {"none", "COMPLETE", "STUCK", "ERROR"}
        /\ UNCHANGED <<agent_event, result>>
    BY <1>0, <2>1 DEF AnswersText, Yields, TypeOK
  <2>5. turns_used' \in Nat /\ elapsed' \in Nat
    BY <1>0, <2>1 DEF AnswersText, Answered, TypeOK
  <2> QED
    BY <1>0, <2>1, <2>3, <2>4, <2>5 DEF AnswersText, TypeOK
<1>6. CASE ExecuteTool
  <2>1. Head(todo) \in ToolNames /\ Tail(todo) \in Seq(ToolNames)
    BY <1>0, <1>6 DEF ExecuteTool, TypeOK, Ending
  <2>2. present' \subseteq Outputs
    BY <1>0, <1>6 DEF ExecuteTool, Effects, TypeOK
  <2>3. Message("tool") \in [role: Roles, calls: Nat, signal: Signals]
    BY MessageTypes
  <2>4. messages' \in Seq([role: Roles, calls: Nat, signal: Signals])
    BY <1>0, <1>6, <2>3 DEF ExecuteTool, TypeOK
  <2> QED
    BY <1>0, <1>6, <2>1, <2>2, <2>4 DEF ExecuteTool, TypeOK
<1>7. CASE PublishEnd
  BY <1>0, <1>7 DEF PublishEnd, TypeOK
<1>8. CASE Conclude
  <2>1. terminal_event \in {"COMPLETE", "STUCK", "ERROR"}
    BY <1>0, <1>8 DEF Conclude, TypeOK, Ending
  <2>2. result' \in [status: Statuses, iterations: Nat]
    BY <1>0, <1>8, <2>1 DEF Conclude, TypeOK
  <2> QED
    BY <1>0, <1>8, <2>2 DEF Conclude, TypeOK
<1>9. CASE Raise \/ Cancel
  BY <1>0, <1>9 DEF Raise, Cancel, TypeOK
<1> QED
  BY <1>1, <1>2, <1>3, <1>4, <1>5, <1>6, <1>7, <1>8, <1>9 DEF Next, Step

(* Every step keeps what the place of the run says of its end.              *)
LEMMA EndingInv ==
    ASSUME ProviderInv, Next
    PROVE  Ending'
<1> USE DEF talkVars, workVars, endVars
<1>0. TypeOK /\ Ending
  BY DEF ProviderInv
<1>1. CASE Start
  BY <1>0, <1>1 DEF Start, Yields, Ending
<1>2. CASE NextIteration
  BY <1>0, <1>2 DEF NextIteration, Ending
<1>3. CASE OutOfIterations \/ OutOfTurns \/ ChatFails
  BY <1>0, <1>3 DEF OutOfIterations, OutOfTurns, ChatFails, Yields, Ending
<1>4. CASE AnyCalls
  <2>0. PICK n \in 1..MaxCalls :
            \E calls \in [1..n -> ToolNames] : AnswersCalls(calls)
    BY <1>4 DEF AnyCalls
  <2>1. PICK calls \in [1..n -> ToolNames] : AnswersCalls(calls)
    BY <2>0
  <2>2. calls # <<>>
    BY <2>1, CallsType
  <2> QED
    BY <1>0, <2>1, <2>2 DEF AnswersCalls, Answered, Ending
<1>5. CASE AnyText
  <2>1. PICK signal \in Signals : AnswersText(signal)
    BY <1>5 DEF AnyText
  <2> QED
    BY <1>0, <2>1 DEF AnswersText, Answered, Yields, Ending, Signals
<1>6. CASE ExecuteTool
  BY <1>0, <1>6 DEF ExecuteTool, Ending
<1>7. CASE PublishEnd
  BY <1>0, <1>7 DEF PublishEnd, Ending
<1>8. CASE Conclude
  BY <1>0, <1>8 DEF Conclude, Ending
<1>9. CASE Raise \/ Cancel
  BY <1>0, <1>9 DEF Raise, Cancel, Ended, Ending
<1> QED
  BY <1>1, <1>2, <1>3, <1>4, <1>5, <1>6, <1>7, <1>8, <1>9 DEF Next, Step

(* Every step keeps the model's word with its last message.                 *)
LEMMA WordInv ==
    ASSUME ProviderInv, Next
    PROVE  Word'
<1> USE DEF talkVars, workVars, endVars
<1>0. TypeOK /\ Ending /\ Word
  BY DEF ProviderInv
<1>a. iteration \in Nat /\ task_def.max_iterations \in Nat
  BY <1>0, TaskFields DEF TypeOK
<1>1. CASE Start
  BY <1>0, <1>1 DEF Start, Yields, Ending, Word
<1>2. CASE NextIteration
  BY <1>0, <1>a, <1>2 DEF NextIteration, Ending, Word
<1>3. CASE OutOfIterations \/ OutOfTurns \/ ChatFails
  BY <1>0, <1>3 DEF OutOfIterations, OutOfTurns, ChatFails, Yields, Ending, Word
<1>4. CASE AnyCalls
  BY <1>0, <1>4 DEF AnyCalls, AnswersCalls, Answered, Ending, Word
<1>5. CASE AnyText
  <2>1. PICK signal \in Signals : AnswersText(signal)
    BY <1>5 DEF AnyText
  <2>2. CASE signal = "none"
    BY <1>0, <2>1, <2>2 DEF AnswersText, Answered, Ending, Word
  <2>3. CASE signal # "none"
    <3>1. messages' = Append(messages, Text(signal))
      BY <1>0, <2>1, <2>3 DEF AnswersText, TypeOK
    <3>2. Len(messages') > 0 /\ messages'[Len(messages')].signal = signal
      BY <1>0, <3>1 DEF TypeOK, Text
    <3>3. /\ signal = "stuck" => terminal_event' = "STUCK"
          /\ signal \in {"complete", "both"} => terminal_event' = "COMPLETE"
          /\ pc' = "ending" /\ iteration > 0
          /\ UNCHANGED <<iteration, task_def>>
      BY <1>0, <2>1, <2>3 DEF AnswersText, Answered, Yields, Signals, Word
    <3> QED
      BY <1>0, <2>3, <3>2, <3>3 DEF Word, Signals
  <2> QED
    BY <2>2, <2>3
<1>6. CASE ExecuteTool
  BY <1>0, <1>6 DEF ExecuteTool, Ending, Word
<1>7. CASE PublishEnd
  BY <1>0, <1>7 DEF PublishEnd, Word
<1>8. CASE Conclude
  BY <1>0, <1>8 DEF Conclude, Word
<1>9. CASE Raise \/ Cancel
  BY <1>0, <1>9 DEF Raise, Cancel, Word
<1> QED
  BY <1>1, <1>2, <1>3, <1>4, <1>5, <1>6, <1>7, <1>8, <1>9 DEF Next, Step

(* Every step keeps a COMPLETE earned: only Conclude answers, and nothing   *)
(* happens after it.                                                        *)
LEMMA EarnedInv ==
    ASSUME ProviderInv, Next
    PROVE  CompleteEarned'
<1> USE DEF talkVars, workVars, endVars
<1>0. TypeOK /\ Ending /\ Word
  BY DEF ProviderInv
<1>1. CASE Conclude
  <2>1. SUFFICES ASSUME result'.status = "complete"
                 PROVE  CompleteEarned'
    BY DEF CompleteEarned
  <2>2. terminal_event = "COMPLETE" /\ Violations(task_def.contract) = {}
    BY <1>0, <1>1, <2>1 DEF Conclude, Ending, TypeOK
  <2>3. task_def.contract \in Contract
    BY <1>0, TaskFields DEF TypeOK
  <2> QED
    BY <1>0, <1>1, <2>2, <2>3, Fulfilled DEF Conclude, Word, CompleteEarned
<1>2. CASE ~Conclude
  <2>1. result'.status # "complete"
    <3>1. pc # "done" /\ UNCHANGED result
      BY <1>2 DEF Next, Step, Start, NextIteration, OutOfIterations, OutOfTurns, ChatFails,
         AnyCalls, AnyText, AnswersCalls, AnswersText, Answered, ExecuteTool, PublishEnd,
         Yields, Raise, Cancel, Ended, Signals
    <3> QED
      BY <1>0, <3>1 DEF Ending, NoResult
  <2> QED
    BY <2>1 DEF CompleteEarned
<1> QED
  BY <1>1, <1>2

LEMMA NextInv == ProviderInv /\ [Next]_vars => ProviderInv'
<1> SUFFICES ASSUME ProviderInv, [Next]_vars PROVE ProviderInv'
  OBVIOUS
<1>1. CASE Next
  BY <1>1, TypeInv, EndingInv, WordInv, EarnedInv DEF ProviderInv
<1>2. CASE UNCHANGED vars
  BY <1>2 DEF vars, talkVars, workVars, endVars, ProviderInv, TypeOK, Ending, Word,
     CompleteEarned
<1> QED
  BY <1>1, <1>2

LEMMA Invariance == SafeSpec => []ProviderInv
BY InitInv, NextInv, PTL DEF SafeSpec

------------------------------------------------------------------------------
(* The types of the provider path, for every task and every set of tools.   *)
THEOREM TypeCorrect == SafeSpec => []TypeOK
<1>1. ProviderInv => TypeOK
  BY DEF ProviderInv
<1> QED
  BY <1>1, Invariance, PTL

(* COMPLETE is answered only for the model's own last word, with the        *)
(* outputs of the contract there and its limits kept when grind() answers.  *)
THEOREM CompletionIsEarned == SafeSpec => []CompleteEarned
<1>1. ProviderInv => CompleteEarned
  BY DEF ProviderInv
<1> QED
  BY <1>1, Invariance, PTL

------------------------------------------------------------------------------
(* The dialogue.  Only the last answer with tool calls can be waiting for   *)
(* results, and only while its calls are executed.                          *)

(* The message at i has all its results, and no tool message too many.      *)
Settled(i) ==
    messages[i].calls > 0 =>
        /\ \A j \in 1..messages[i].calls : IsToolMessage(i + j)
        /\ ~IsToolMessage(i + messages[i].calls + 1)

(* The message at k is followed by some of its results, and todo holds the  *)
(* calls that are left.                                                     *)
Unsettled(k) ==
    /\ messages[k].calls > 0
    /\ k + messages[k].calls = Len(messages) + Len(todo)
    /\ \A j \in (k + 1)..Len(messages) : IsToolMessage(j)
    /\ \A i \in 1..(k - 1) : Settled(i)

Roled ==
    \A i \in DOMAIN messages :
        /\ messages[i].calls > 0 => messages[i].role = "assistant"
        /\ IsToolMessage(i) => i > 1 /\ (IsToolMessage(i - 1) \/ messages[i - 1].calls > 0)

Dialogue ==
    /\ Roled
    /\ pc \in {"iterating", "asking", "executing"} =>
           /\ Len(messages) >= 2
           /\ messages[1].role = "system" /\ messages[2].role = "user"
    /\ pc \in {"iterating", "asking"} => \A i \in DOMAIN messages : Settled(i)
    /\ pc = "executing" => \E k \in DOMAIN messages : Unsettled(k)
    /\ pc = "asking" => messages[Len(messages)].role \in {"user", "tool"}
    /\ pc = "iterating" /\ iteration < task_def.max_iterations =>
           messages[Len(messages)].role = "user"

LEMMA DialogueMeans == TypeOK /\ Dialogue => DialogueWellFormed
BY DEF TypeOK, Dialogue, Roled, Settled, DialogueWellFormed

(* What appending one message does to positions.                            *)
LEMMA Appended ==
    ASSUME TypeOK, NEW m, messages' = Append(messages, m)
    PROVE  /\ Len(messages) \in Nat /\ Len(messages') = Len(messages) + 1
           /\ DOMAIN messages = 1..Len(messages)
           /\ DOMAIN messages' = 1..(Len(messages) + 1)
           /\ messages'[Len(messages) + 1] = m
           /\ \A i \in 1..Len(messages) : messages'[i] = messages[i]
BY DEF TypeOK

LEMMA MessageFields ==
    ASSUME TypeOK, NEW i \in DOMAIN messages
    PROVE  i \in Nat /\ i >= 1 /\ i <= Len(messages) /\ messages[i].calls \in Nat
<1> DEFINE M == [role: Roles, calls: Nat, signal: Signals]
<1>1. messages \in Seq(M)
  BY DEF TypeOK
<1>2. \A x \in M : x.calls \in Nat
  OBVIOUS
<1> HIDE DEF M
<1>3. messages[i] \in M /\ i \in 1..Len(messages) /\ Len(messages) \in Nat
  BY <1>1, Element
<1> QED
  BY <1>2, <1>3

(* A settled message stays settled when anything but a tool's message is    *)
(* appended.                                                                *)
LEMMA AppendSettles ==
    ASSUME TypeOK, NEW m, messages' = Append(messages, m), m.role # "tool",
           NEW i \in 1..Len(messages), Settled(i)
    PROVE  Settled(i)'
<1>1. \A j \in Int : IsToolMessage(j)' <=> IsToolMessage(j)
  BY Appended DEF IsToolMessage
<1>2. messages'[i] = messages[i] /\ messages[i].calls \in Nat
  BY Appended, MessageFields
<1> QED
  BY <1>1, <1>2 DEF Settled

LEMMA AppendRoled ==
    ASSUME TypeOK, Roled, NEW m, messages' = Append(messages, m),
           m.calls > 0 => m.role = "assistant",
           m.role = "tool" => /\ Len(messages) > 0
                              /\ \/ IsToolMessage(Len(messages))
                                 \/ messages[Len(messages)].calls > 0
    PROVE  Roled'
<1>1. /\ Len(messages) \in Nat
      /\ DOMAIN messages = 1..Len(messages)
      /\ DOMAIN messages' = 1..(Len(messages) + 1)
      /\ messages'[Len(messages) + 1] = m
      /\ \A i \in 1..Len(messages) : messages'[i] = messages[i]
  BY Appended
<1>2. \A j \in Int : j <= Len(messages) => (IsToolMessage(j)' <=> IsToolMessage(j))
  BY <1>1 DEF IsToolMessage
<1> SUFFICES ASSUME NEW i \in DOMAIN messages'
             PROVE  /\ messages'[i].calls > 0 => messages'[i].role = "assistant"
                    /\ IsToolMessage(i)' => i > 1 /\ (IsToolMessage(i - 1)'
                                                      \/ messages'[i - 1].calls > 0)
  BY DEF Roled
<1>3. CASE i \in 1..Len(messages)
  <2>1. IsToolMessage(i)' <=> IsToolMessage(i)
    BY <1>2, <1>3
  <2>2. IsToolMessage(i - 1)' <=> IsToolMessage(i - 1)
    BY <1>2, <1>3
  <2>3. i > 1 => messages'[i - 1] = messages[i - 1]
    BY <1>1, <1>3
  <2> QED
    BY <1>1, <1>3, <2>1, <2>2, <2>3 DEF Roled
<1>4. CASE i = Len(messages) + 1
  <2>1. IsToolMessage(i)' => m.role = "tool"
    BY <1>1, <1>4 DEF IsToolMessage
  <2>5. i - 1 = Len(messages)
    BY <1>1, <1>4
  <2>7. Len(messages) > 0 => Len(messages) \in 1..Len(messages)
    BY <1>1
  <2>6. Len(messages) > 0 => messages'[Len(messages)] = messages[Len(messages)]
    BY <1>1, <2>7, Zenon
  <2>2. Len(messages) > 0 => messages'[i - 1] = messages[i - 1]
    BY <2>5, <2>6, Zenon
  <2>3. IsToolMessage(i - 1)' <=> IsToolMessage(i - 1)
    BY <1>1, <1>2, <1>4
  <2>4. i - 1 = Len(messages) /\ (m.role = "tool" => i > 1)
    BY <1>1, <1>4, SMTT(60)
  <2> QED
    BY <1>1, <1>4, <2>1, <2>2, <2>3, <2>4
<1> QED
  BY <1>1, <1>3, <1>4

LEMMA SameMessages ==
    ASSUME messages' = messages
    PROVE  /\ Roled => Roled'
           /\ \A i \in Int : Settled(i) => Settled(i)'
<1>1. \A i : IsToolMessage(i)' <=> IsToolMessage(i)
  BY DEF IsToolMessage
<1>2. Roled => Roled'
  BY <1>1 DEF Roled
<1>3. ASSUME NEW i \in Int, Settled(i) PROVE Settled(i)'
  BY <1>1, <1>3 DEF Settled
<1> QED
  BY <1>2, <1>3

(* Once the generator has yielded its last event only the roles matter.     *)
LEMMA EndTalk ==
    ASSUME Dialogue, messages' = messages,
           pc' \notin {"iterating", "asking", "executing"}
    PROVE  Dialogue'
<1>1. Roled'
  BY SameMessages DEF Dialogue
<1> QED
  BY <1>1 DEF Dialogue

LEMMA StartTalk ==
    ASSUME ProviderInv, Dialogue, Start
    PROVE  Dialogue'
<1>1. CASE pc' = "iterating" /\ messages' = <<Message("system"), Message("user")>>
  <2>1. /\ Len(messages') = 2 /\ DOMAIN messages' = 1..2
        /\ messages'[1] = Message("system") /\ messages'[2] = Message("user")
    BY <1>1
  <2>2. /\ Message("system").role = "system" /\ Message("system").calls = 0
        /\ Message("user").role = "user" /\ Message("user").calls = 0
    BY DEF Message
  <2>3. \A i \in 1..2 : messages'[i].calls = 0 /\ messages'[i].role # "tool"
    BY <2>1, <2>2
  <2>4. Roled'
    BY <2>1, <2>3 DEF Roled, IsToolMessage
  <2>5. \A i \in DOMAIN messages' : Settled(i)'
    BY <2>1, <2>3 DEF Settled
  <2> QED
    BY <1>1, <2>1, <2>2, <2>4, <2>5 DEF Dialogue
<1>2. CASE pc' = "ending" /\ messages' = messages
  BY <1>2, EndTalk
<1> QED
  BY <1>1, <1>2 DEF Start, Yields

LEMMA NextIterationTalk ==
    ASSUME Dialogue, NextIteration
    PROVE  Dialogue'
<1>1. /\ pc = "iterating" /\ pc' = "asking" /\ messages' = messages
      /\ messages[Len(messages)].role = "user"
  BY DEF NextIteration, talkVars, Dialogue
<1>2. Roled' /\ \A i \in DOMAIN messages' : Settled(i)'
  <2>1. \A i : IsToolMessage(i)' <=> IsToolMessage(i)
    BY <1>1 DEF IsToolMessage
  <2>2. Roled'
    BY <1>1, SameMessages DEF Dialogue
  <2>3. \A i \in DOMAIN messages : Settled(i)
    BY <1>1 DEF Dialogue
  <2> QED
    BY <1>1, <2>1, <2>2, <2>3 DEF Settled
<1> QED
  BY <1>1, <1>2 DEF Dialogue

LEMMA AnswersCallsTalk ==
    ASSUME TypeOK, Dialogue, NEW calls \in Seq(ToolNames), calls # <<>>,
           AnswersCalls(calls)
    PROVE  Dialogue'
<1> DEFINE m == ToolCalls(Len(calls))
<1>0. PICK k \in Nat : k = Len(messages) + 1
  BY DEF TypeOK
<1>1. /\ m.role = "assistant" /\ m.calls = Len(calls)
      /\ Len(calls) \in Nat /\ Len(calls) > 0
  BY DEF ToolCalls
<1>2. /\ pc = "asking" /\ pc' = "executing" /\ todo' = calls
      /\ messages' = Append(messages, m)
  BY DEF AnswersCalls, Answered
<1> HIDE DEF m
<1>3. /\ Len(messages) \in Nat /\ Len(messages') = k
      /\ DOMAIN messages = 1..Len(messages)
      /\ DOMAIN messages' = 1..k
      /\ messages'[k] = m
      /\ \A i \in 1..Len(messages) : messages'[i] = messages[i]
  BY <1>0, <1>2, Appended
<1>4. Roled'
  BY <1>1, <1>2, AppendRoled DEF Dialogue
<1>5. \A i \in 1..Len(messages) : Settled(i)'
  <2>1. \A i \in 1..Len(messages) : Settled(i)
    BY <1>2, <1>3 DEF Dialogue
  <2> QED
    BY <1>1, <1>2, <2>1, AppendSettles
<1>6. Unsettled(k)'
  <2>1. \A i \in 1..(k - 1) : Settled(i)'
    BY <1>0, <1>3, <1>5
  <2>2. \A j \in (k + 1)..Len(messages') : IsToolMessage(j)'
    BY <1>3
  <2>3. messages'[k].calls > 0 /\ k + messages'[k].calls = Len(messages') + Len(todo')
    BY <1>1, <1>2, <1>3
  <2> QED
    BY <2>1, <2>2, <2>3 DEF Unsettled
<1>7. /\ Len(messages) >= 2
      /\ messages[1].role = "system" /\ messages[2].role = "user"
  BY <1>2 DEF Dialogue
<1>8. /\ Len(messages') >= 2 /\ k \in DOMAIN messages'
      /\ messages'[1].role = "system" /\ messages'[2].role = "user"
  BY <1>0, <1>3, <1>7
<1>9. \E x \in DOMAIN messages' : Unsettled(x)'
  BY <1>6, <1>8
<1> QED
  BY <1>2, <1>4, <1>8, <1>9 DEF Dialogue

(* Messages without calls and without results settle everything.            *)
LEMMA QuietlyExtended ==
    ASSUME TypeOK, Roled, NEW n \in Nat, n >= Len(messages),
           DOMAIN messages' = 1..n,
           \A i \in 1..Len(messages) : messages'[i] = messages[i],
           \A i \in (Len(messages) + 1)..n :
               messages'[i].calls = 0 /\ messages'[i].role # "tool",
           \A i \in DOMAIN messages : Settled(i)
    PROVE  Roled' /\ \A i \in DOMAIN messages' : Settled(i)'
<1>1. Len(messages) \in Nat /\ DOMAIN messages = 1..Len(messages)
  BY DEF TypeOK
<1>2. \A j \in Int : IsToolMessage(j)' <=> IsToolMessage(j)
  BY <1>1 DEF IsToolMessage
<1>3. ASSUME NEW i \in DOMAIN messages' PROVE Settled(i)'
  <2>1. CASE i \in 1..Len(messages)
    <3>1. messages'[i] = messages[i] /\ messages[i].calls \in Nat
      BY <1>1, <2>1, MessageFields
    <3>2. Settled(i)
      BY <1>1, <2>1
    <3> QED
      BY <1>2, <2>1, <3>1, <3>2 DEF Settled
  <2>2. CASE i \notin 1..Len(messages)
    <3>1. messages'[i].calls = 0
      BY <1>1, <1>3, <2>2
    <3> QED
      BY <3>1 DEF Settled
  <2> QED
    BY <2>1, <2>2
<1>4. ASSUME NEW i \in DOMAIN messages'
      PROVE  /\ messages'[i].calls > 0 => messages'[i].role = "assistant"
             /\ IsToolMessage(i)' =>
                    i > 1 /\ (IsToolMessage(i - 1)' \/ messages'[i - 1].calls > 0)
  <2>1. CASE i \in 1..Len(messages)
    <3>1. messages'[i] = messages[i] /\ (i > 1 => messages'[i - 1] = messages[i - 1])
      BY <1>1, <2>1
    <3>2. IsToolMessage(i - 1)' <=> IsToolMessage(i - 1)
      BY <1>2, <2>1
    <3>3. IsToolMessage(i)' <=> IsToolMessage(i)
      BY <1>2, <2>1
    <3> QED
      BY <1>1, <2>1, <3>1, <3>2, <3>3 DEF Roled
  <2>2. CASE i \notin 1..Len(messages)
    <3>1. messages'[i].calls = 0 /\ messages'[i].role # "tool"
      BY <1>1, <1>4, <2>2
    <3> QED
      BY <3>1 DEF IsToolMessage
  <2> QED
    BY <2>1, <2>2
<1> QED
  BY <1>3, <1>4 DEF Roled

LEMMA AnswersTextTalk ==
    ASSUME ProviderInv, Dialogue, NEW signal \in Signals, AnswersText(signal)
    PROVE  Dialogue'
<1> DEFINE goesOn == signal = "none" /\ iteration < task_def.max_iterations
           user == Message("user")
           text == Text(signal)
<1>1. /\ text.calls = 0 /\ text.role = "assistant"
      /\ user.calls = 0 /\ user.role = "user"
  BY DEF Text, Message
<1>2. /\ pc = "asking" /\ iteration' = iteration /\ task_def' = task_def
      /\ messages' = Append(messages, text) \o (IF goesOn THEN <<user>> ELSE <<>>)
  BY DEF AnswersText, Answered
<1>3. (pc' = "iterating" /\ signal = "none") \/ pc' = "ending"
  BY DEF AnswersText, Yields, Signals
<1>4. PICK n \in Nat : n = Len(messages)
  BY DEF ProviderInv, TypeOK
<1>5. /\ n >= 2 /\ DOMAIN messages = 1..n
      /\ messages[1].role = "system" /\ messages[2].role = "user"
      /\ \A i \in DOMAIN messages : Settled(i)
  BY <1>2, <1>4 DEF ProviderInv, TypeOK, Dialogue
<1> HIDE DEF user, text
<1>6. CASE goesOn
  <2>1. messages' = Append(messages, text) \o <<user>>
    BY <1>2, <1>6
  <2> HIDE DEF goesOn
  <2>2. /\ DOMAIN messages' = 1..(n + 2) /\ Len(messages') = n + 2
        /\ \A i \in 1..n : messages'[i] = messages[i]
        /\ messages'[n + 1] = text /\ messages'[n + 2] = user
    BY <1>4, <2>1 DEF ProviderInv, TypeOK
  <2>3. \A i \in (n + 1)..(n + 2) : messages'[i].calls = 0 /\ messages'[i].role # "tool"
    <3>1. \A i \in (n + 1)..(n + 2) : i = n + 1 \/ i = n + 2
      OBVIOUS
    <3> QED
      BY <1>1, <2>2, <3>1
  <2>4. Roled' /\ \A i \in DOMAIN messages' : Settled(i)'
    <3>1. n + 2 \in Nat /\ n + 2 >= Len(messages)
      BY <1>4
    <3> QED
      BY <1>4, <1>5, <2>2, <2>3, <3>1, QuietlyExtended DEF ProviderInv, Dialogue
  <2>5. messages'[1].role = "system" /\ messages'[2].role = "user"
    BY <1>5, <2>2
  <2>6. Len(messages') >= 2 /\ messages'[Len(messages')].role = "user"
    BY <1>1, <2>2
  <2> QED
    BY <1>3, <2>4, <2>5, <2>6 DEF Dialogue
<1>7. CASE ~goesOn
  <2>1. messages' = Append(messages, text)
    <3>1. messages' = Append(messages, text) \o <<>>
      BY <1>2, <1>7
    <3> HIDE DEF goesOn
    <3> QED
      BY <3>1 DEF ProviderInv, TypeOK
  <2>2. /\ DOMAIN messages' = 1..(n + 1) /\ Len(messages') = n + 1
        /\ \A i \in 1..n : messages'[i] = messages[i]
        /\ messages'[n + 1] = text
    BY <1>4, <2>1, Appended DEF ProviderInv
  <2>3. \A i \in (n + 1)..(n + 1) : messages'[i].calls = 0 /\ messages'[i].role # "tool"
    <3>1. \A i \in (n + 1)..(n + 1) : i = n + 1
      OBVIOUS
    <3> QED
      BY <1>1, <2>2, <3>1
  <2>4. Roled' /\ \A i \in DOMAIN messages' : Settled(i)'
    <3>1. n + 1 \in Nat /\ n + 1 >= Len(messages)
      BY <1>4
    <3> QED
      BY <1>4, <1>5, <2>2, <2>3, <3>1, QuietlyExtended DEF ProviderInv, Dialogue
  <2>5. messages'[1].role = "system" /\ messages'[2].role = "user" /\ Len(messages') >= 2
    BY <1>5, <2>2
  <2>6. pc' = "iterating" => ~(iteration' < task_def'.max_iterations)
    BY <1>2, <1>3, <1>7
  <2> QED
    BY <1>3, <2>4, <2>5, <2>6 DEF Dialogue
<1> QED
  BY <1>6, <1>7

(* The result of one more call: the answer at k is settled when no call is  *)
(* left, and nothing before it is disturbed, because k itself is no tool's  *)
(* message.                                                                 *)
LEMMA ExecuteToolTalk ==
    ASSUME ProviderInv, Dialogue, ExecuteTool
    PROVE  Dialogue'
<1> DEFINE m == Message("tool")
<1>1. m.calls = 0 /\ m.role = "tool"
  BY DEF Message
<1>2. /\ pc = "executing" /\ messages' = Append(messages, m) /\ todo' = Tail(todo)
      /\ pc' = IF Tail(todo) = <<>> THEN "asking" ELSE "executing"
  BY DEF ExecuteTool
<1> HIDE DEF m
<1>3. PICK n \in Nat : n = Len(messages)
  BY DEF ProviderInv, TypeOK
<1>4. /\ Len(messages') = n + 1
      /\ DOMAIN messages = 1..n
      /\ DOMAIN messages' = 1..(n + 1)
      /\ messages'[n + 1] = m
      /\ \A i \in 1..n : messages'[i] = messages[i]
  BY <1>2, <1>3, Appended DEF ProviderInv
<1>5. PICK k \in 1..n : Unsettled(k)
  BY <1>2, <1>4 DEF Dialogue
<1>6. /\ Len(todo) \in Nat /\ Len(todo) > 0 /\ Len(todo') = Len(todo) - 1
      /\ todo' = <<>> <=> Len(todo') = 0
  <2>1. todo \in Seq(ToolNames) /\ todo # <<>>
    BY <1>2 DEF ProviderInv, TypeOK, Ending
  <2> QED
    BY <1>2, <2>1, Tails
<1>7. PICK c \in Nat : c = messages[k].calls
  BY <1>4, <1>5, MessageFields DEF ProviderInv
<1>8. /\ c > 0 /\ k + c = n + Len(todo)
      /\ \A j \in (k + 1)..n : IsToolMessage(j)
      /\ \A i \in 1..(k - 1) : Settled(i)
  BY <1>3, <1>5, <1>7 DEF Unsettled
<1>9. messages[k].role = "assistant" /\ ~IsToolMessage(k)
  BY <1>4, <1>5, <1>7, <1>8 DEF Dialogue, Roled, IsToolMessage
<1>10. \A j \in Int : j <= n => (IsToolMessage(j)' <=> IsToolMessage(j))
  BY <1>4 DEF IsToolMessage
<1>11. IsToolMessage(n + 1)'
  BY <1>1, <1>4 DEF IsToolMessage
<1>12. Roled'
  <2>1. IsToolMessage(n) \/ messages[n].calls > 0
    <3>1. CASE k = n
      BY <1>7, <1>8, <3>1
    <3>2. CASE k # n
      <4>1. n \in (k + 1)..n
        BY <1>5, <3>2
      <4> QED
        BY <1>8, <4>1
    <3> QED
      BY <3>1, <3>2
  <2>2. n > 0
    BY <1>5
  <2> QED
    BY <1>1, <1>2, <1>3, <2>1, <2>2, AppendRoled DEF ProviderInv, Dialogue
<1>13. ASSUME NEW i \in 1..(k - 1) PROVE Settled(i)'
  <2>1. i \in 1..n /\ messages'[i] = messages[i]
    BY <1>4, <1>5
  <2>2. PICK d \in Nat : d = messages[i].calls
    BY <1>4, <2>1, MessageFields DEF ProviderInv
  <2>3. d > 0 => /\ \A j \in 1..d : IsToolMessage(i + j)
                 /\ ~IsToolMessage(i + d + 1)
    BY <1>8, <2>2 DEF Settled
  <2>4. d > 0 => i + d < k
    <3> SUFFICES ASSUME d > 0, i + d >= k PROVE FALSE
      BY <1>5
    <3>1. k - i \in 1..d /\ i + (k - i) = k
      BY <1>5
    <3>2. IsToolMessage(i + (k - i))
      BY <2>3, <3>1
    <3> QED
      BY <1>9, <3>1, <3>2, Zenon
  <2>5. ASSUME d > 0 PROVE /\ \A j \in 1..d : IsToolMessage(i + j)'
                           /\ ~IsToolMessage(i + d + 1)'
    <3>1. i + d + 1 \in Int /\ i + d + 1 <= n
      BY <1>5, <2>4, <2>5
    <3>2. \A j \in 1..d : i + j \in Int /\ i + j <= n
      BY <1>5, <2>4, <2>5
    <3> QED
      BY <1>10, <2>3, <2>5, <3>1, <3>2
  <2> QED
    BY <2>1, <2>2, <2>5 DEF Settled
<1>14. messages'[k] = messages[k] /\ messages'[k].calls = c
  BY <1>4, <1>5, <1>7
<1>15. \A j \in (k + 1)..(n + 1) : IsToolMessage(j)'
  <2> SUFFICES ASSUME NEW j \in (k + 1)..(n + 1) PROVE IsToolMessage(j)'
    OBVIOUS
  <2>1. CASE j = n + 1
    BY <1>11, <2>1
  <2>2. CASE j # n + 1
    <3>1. j \in (k + 1)..n /\ j \in Int /\ j <= n
      BY <1>5, <2>2
    <3> QED
      BY <1>8, <1>10, <3>1
  <2> QED
    BY <2>1, <2>2
<1>16. /\ Len(messages') >= 2
       /\ messages'[1].role = "system" /\ messages'[2].role = "user"
  BY <1>2, <1>3, <1>4 DEF Dialogue
<1>17. CASE Tail(todo) = <<>>
  <2>1. pc' = "asking" /\ k + c = n + 1
    BY <1>2, <1>6, <1>8, <1>17
  <2>2. ASSUME NEW i \in 1..(n + 1) PROVE Settled(i)'
    <3>1. CASE i < k
      BY <1>5, <1>13, <3>1
    <3>2. CASE i = k
      <4>1. \A j \in 1..c : k + j \in (k + 1)..(n + 1)
        BY <1>5, <2>1
      <4>2. \A j \in 1..c : IsToolMessage(k + j)'
        BY <1>15, <4>1
      <4>3. k + c + 1 \notin 1..(n + 1)
        BY <2>1
      <4>4. ~IsToolMessage(k + c + 1)'
        BY <1>4, <4>3 DEF IsToolMessage
      <4>5. Settled(k)'
        BY <1>14, <4>2, <4>4 DEF Settled
      <4> QED
        BY <3>2, <4>5
    <3>3. CASE i > k
      <4>1. IsToolMessage(i)'
        BY <1>5, <1>15, <3>3
      <4>2. messages'[i].role = "tool" /\ ~(messages'[i].calls > 0)
        BY <1>12, <4>1 DEF IsToolMessage, Roled
      <4> QED
        BY <4>2 DEF Settled
    <3> QED
      BY <1>5, <3>1, <3>2, <3>3
  <2>3. messages'[Len(messages')].role = "tool"
    BY <1>1, <1>4
  <2> QED
    BY <1>4, <1>12, <1>16, <2>1, <2>2, <2>3 DEF Dialogue
<1>18. CASE Tail(todo) # <<>>
  <2>1. pc' = "executing"
    BY <1>2, <1>18
  <2>2. k + c = Len(messages') + Len(todo')
    BY <1>4, <1>6, <1>8
  <2>3. Unsettled(k)'
    BY <1>4, <1>8, <1>13, <1>14, <1>15, <2>2 DEF Unsettled
  <2>4. \E x \in DOMAIN messages' : Unsettled(x)'
    BY <1>4, <1>5, <2>3
  <2> QED
    BY <1>12, <1>16, <2>1, <2>4 DEF Dialogue
<1> QED
  BY <1>17, <1>18

LEMMA DialogueInv == ProviderInv /\ Dialogue /\ [Next]_vars => Dialogue'
<1> SUFFICES ASSUME ProviderInv, Dialogue, [Next]_vars PROVE Dialogue'
  OBVIOUS
<1>1. CASE Start
  BY <1>1, StartTalk
<1>2. CASE NextIteration
  BY <1>2, NextIterationTalk
<1>3. CASE OutOfIterations \/ OutOfTurns \/ ChatFails
  BY <1>3, EndTalk DEF OutOfIterations, OutOfTurns, ChatFails, Yields, talkVars
<1>4. CASE AnyCalls
  <2>1. PICK n \in 1..MaxCalls : \E calls \in [1..n -> ToolNames] : AnswersCalls(calls)
    BY <1>4 DEF AnyCalls
  <2>2. PICK calls \in [1..n -> ToolNames] : AnswersCalls(calls)
    BY <2>1
  <2> QED
    BY <2>2, CallsType, AnswersCallsTalk DEF ProviderInv
<1>5. CASE AnyText
  BY <1>5, AnswersTextTalk DEF AnyText
<1>6. CASE ExecuteTool
  BY <1>6, ExecuteToolTalk
<1>7. CASE PublishEnd
  BY <1>7, EndTalk DEF PublishEnd, talkVars
<1>8. CASE Conclude
  BY <1>8, EndTalk DEF Conclude, talkVars
<1>9. CASE Raise \/ Cancel
  BY <1>9, EndTalk DEF Raise, Cancel, talkVars
<1>10. CASE UNCHANGED vars
  <2>1. messages' = messages /\ pc' = pc /\ iteration' = iteration /\ task_def' = task_def
        /\ todo' = todo
    BY <1>10 DEF vars, talkVars
  <2> QED
    BY <2>1 DEF Dialogue, Roled, Settled, Unsettled, IsToolMessage
<1> QED
  BY <1>1, <1>2, <1>3, <1>4, <1>5, <1>6, <1>7, <1>8, <1>9, <1>10 DEF Next, Step

(* Whenever the model is asked, every tool call of the history has its      *)
(* result in its place and the last message is one to be answered.          *)
THEOREM DialogueIsWellFormed == SafeSpec => []DialogueWellFormed
<1>1. Init => Dialogue
  BY DEF Init, Dialogue, Roled
<1>2. ProviderInv /\ Dialogue => DialogueWellFormed
  BY DialogueMeans DEF ProviderInv
<1> QED
  BY <1>1, <1>2, DialogueInv, Invariance, PTL DEF SafeSpec

------------------------------------------------------------------------------
(* The abstract task.                                                       *)

Verdict == IF pc \in {"raised", "cancelled"} THEN "cancelled"
           ELSE IF pc = "done" THEN result.status ELSE "none"

LEMMA TaskVars ==
    ASSUME task_def' = task_def, iteration' = iteration, Verdict' = Verdict
    PROVE  UNCHANGED Task!vars
BY DEF Task!vars, Verdict

LEMMA Working == ~Ended => Verdict = "none"
BY DEF Ended, Verdict

LEMMA ConcludeRefines ==
    ASSUME ProviderInv, Conclude
    PROVE  Task!Next
<1>1. /\ pc = "checking" /\ pc' = "done"
      /\ task_def' = task_def /\ iteration' = iteration
  BY DEF Conclude
<1>2. terminal_event \in {"COMPLETE", "STUCK", "ERROR"}
  BY <1>1 DEF ProviderInv, TypeOK, Ending
<1>3. /\ result'.status \in {"complete", "stuck", "error"}
      /\ result'.status \in {"complete", "stuck"} => terminal_event \in {"COMPLETE", "STUCK"}
  BY <1>2 DEF Conclude
<1>4. result'.status \in {"complete", "stuck"} => iteration > 0
  BY <1>3 DEF ProviderInv, Word
<1>5. Task!Justified(result'.status)
  BY <1>3, <1>4 DEF Task!Justified
<1>6. Task!Answer(result'.status)
  BY <1>1, <1>5 DEF Task!Answer
<1> QED
  BY <1>3, <1>6 DEF Task!Next, Task!Statuses

LEMMA StepRefines == ProviderInv /\ [Next]_vars => [Task!Next]_(Task!vars)
<1> SUFFICES ASSUME ProviderInv, [Next]_vars PROVE [Task!Next]_(Task!vars)
  OBVIOUS
<1>1. CASE NextIteration
  <2>1. Task!Attempt(FALSE)
    BY <1>1 DEF NextIteration, Task!Attempt
  <2> QED
    BY <2>1 DEF Task!Next
<1>2. CASE Conclude
  BY <1>2, ConcludeRefines
<1>3. CASE Raise \/ Cancel
  <2>1. Task!Abandon
    BY <1>3 DEF Raise, Cancel, Ended, Task!Abandon
  <2> QED
    BY <2>1 DEF Task!Next
<1>4. CASE /\ task_def' = task_def /\ iteration' = iteration
           /\ ~Ended /\ ~Ended'
  BY <1>4, TaskVars DEF Ended, Verdict
<1>5. CASE Start \/ OutOfIterations \/ OutOfTurns \/ ChatFails
  BY <1>4, <1>5 DEF Start, OutOfIterations, OutOfTurns, ChatFails, Yields, Ended
<1>6. CASE AnyCalls
  BY <1>4, <1>6 DEF AnyCalls, AnswersCalls, Answered, Ended
<1>7. CASE AnyText
  BY <1>4, <1>7 DEF AnyText, AnswersText, Answered, Yields, Signals, Ended
<1>8. CASE ExecuteTool \/ PublishEnd
  BY <1>4, <1>8 DEF ExecuteTool, PublishEnd, Ended
<1>9. CASE UNCHANGED vars
  BY <1>9, TaskVars DEF vars, endVars, Verdict
<1> QED
  BY <1>1, <1>2, <1>3, <1>5, <1>6, <1>7, <1>8, <1>9 DEF Next, Step

(* The provider path implements the abstract task of the grind loop: at     *)
(* most max_iterations attempts, and one answer that they justify.  That    *)
(* an answer comes (the rest of ImplementsTask) needs the fairness.         *)
THEOREM TaskImplemented == SafeSpec => Task!SafeSpec
<1>1. Init => Task!Init
  <2> SUFFICES ASSUME Init PROVE Task!Init
    OBVIOUS
  <2>1. task_def.max_iterations \in Nat
    BY TaskFields DEF Init
  <2> QED
    BY <2>1 DEF Init, Task!Init
<1>2. ProviderInv /\ [Next]_vars => [Task!Next]_(Task!vars)
  BY StepRefines
<1> QED
  BY <1>1, <1>2, Invariance, PTL DEF SafeSpec, Task!SafeSpec

------------------------------------------------------------------------------
(* What the end of a run rests on: each step leads on, within limits that   *)
(* the task sets.                                                           *)

(* Iterations, requests to the model and calls of an answer are bounded.    *)
Limited ==
    /\ iteration <= task_def.max_iterations
    /\ turns_used <= task_def.max_turns
    /\ Len(todo) <= MaxCalls

Stage(point) ==
    CASE point \in {"start", "iterating", "asking", "executing"} -> 0
      [] point = "ending" -> 1
      [] point = "checking" -> 2
      [] point \in {"done", "raised", "cancelled"} -> 3

(* No iteration is repeated and no turn given back; within a turn the calls *)
(* are executed one by one, and without any of these the run starts or ends.*)
Onward ==
    \/ iteration' > iteration /\ turns_used' = turns_used
    \/ iteration' = iteration /\ turns_used' > turns_used
    \/ /\ iteration' = iteration /\ turns_used' = turns_used
       /\ \/ Len(todo') < Len(todo) /\ Stage(pc') = Stage(pc)
          \/ todo' = todo /\ Stage(pc') > Stage(pc)
          \/ todo' = todo /\ pc = "start" /\ pc' = "iterating"

LEMMA StepOnward ==
    ASSUME ProviderInv, Next
    PROVE  Onward
<1>0. TypeOK /\ Ending
  BY DEF ProviderInv
<1>1. CASE Start
  BY <1>1 DEF Start, Yields, Onward, Stage
<1>2. CASE NextIteration
  BY <1>0, <1>2 DEF NextIteration, talkVars, Onward, TypeOK
<1>3. CASE OutOfIterations \/ OutOfTurns \/ ChatFails
  BY <1>3 DEF OutOfIterations, OutOfTurns, ChatFails, Yields, talkVars, Onward, Stage
<1>4. CASE AnyCalls \/ AnyText
  <2>1. iteration' = iteration /\ turns_used' = turns_used + 1
    <3>1. CASE AnyCalls
      BY <3>1 DEF AnyCalls, AnswersCalls, Answered
    <3>2. CASE AnyText
      BY <3>2 DEF AnyText, AnswersText, Answered
    <3> QED
      BY <1>4, <3>1, <3>2
  <2>2. turns_used' > turns_used
    BY <1>0, <2>1 DEF TypeOK
  <2> QED
    BY <2>1, <2>2 DEF Onward
<1>5. CASE ExecuteTool
  <2>1. todo \in Seq(ToolNames) /\ todo # <<>>
    BY <1>0, <1>5 DEF ExecuteTool, TypeOK, Ending
  <2>2. Len(todo') < Len(todo)
    BY <1>5, <2>1, Tails DEF ExecuteTool
  <2>3. Stage(pc') = Stage(pc)
    BY <1>5 DEF ExecuteTool, Stage
  <2> QED
    BY <1>5, <2>2, <2>3 DEF ExecuteTool, Onward
<1>6. CASE PublishEnd \/ Conclude
  BY <1>6 DEF PublishEnd, Conclude, talkVars, Onward, Stage
<1>7. CASE Raise \/ Cancel
  BY <1>0, <1>7 DEF Raise, Cancel, Ended, talkVars, Onward, Stage, TypeOK, Points
<1> QED
  BY <1>1, <1>2, <1>3, <1>4, <1>5, <1>6, <1>7 DEF Next, Step

(* However the model answers, the run goes on to its end: every step uses   *)
(* up an iteration, a turn or a call, or brings the end nearer.             *)
THEOREM NoWayBack == SafeSpec => [][Onward]_vars
<1>1. ProviderInv /\ [Next]_vars => [Onward]_vars
  BY StepOnward
<1> QED
  BY Invariance, <1>1, PTL DEF SafeSpec

(* No run uses more than its iterations or its turns, whatever the model    *)
(* answers and however the iterations are divided between them.             *)
THEOREM WithinLimits == SafeSpec => []Limited
<1>1. ASSUME Init PROVE Limited
  <2>1. task_def.max_iterations \in Nat /\ task_def.max_turns \in Nat /\ Len(todo) = 0
    BY <1>1, TaskFields DEF Init
  <2> QED
    BY <1>1, <2>1 DEF Init, Limited
<1>2. ASSUME ProviderInv, Limited, [Next]_vars PROVE Limited'
  <2>0. /\ TypeOK /\ Ending
        /\ task_def.max_iterations \in Nat /\ task_def.max_turns \in Nat
    BY <1>2, TaskFields DEF ProviderInv, TypeOK
  <2>1. CASE \/ Start \/ NextIteration \/ OutOfIterations \/ OutOfTurns \/ ChatFails
             \/ AnyText \/ PublishEnd \/ Conclude \/ Raise \/ Cancel
    <3>1. UNCHANGED <<task_def, todo>>
      BY <2>1 DEF Start, NextIteration, OutOfIterations, OutOfTurns, ChatFails, AnyText,
         AnswersText, PublishEnd, Conclude, Raise, Cancel, talkVars
    <3>2. /\ \/ iteration' = iteration
             \/ iteration < task_def.max_iterations /\ iteration' = iteration + 1
          /\ \/ turns_used' = turns_used
             \/ turns_used < task_def.max_turns /\ turns_used' = turns_used + 1
      BY <2>1 DEF Start, NextIteration, OutOfIterations, OutOfTurns, ChatFails, AnyText,
         AnswersText, Answered, PublishEnd, Conclude, Raise, Cancel, talkVars
    <3> QED
      BY <1>2, <2>0, <3>1, <3>2 DEF Limited, TypeOK
  <2>2. CASE AnyCalls
    <3>1. PICK n \in 1..MaxCalls : \E calls \in [1..n -> ToolNames] : AnswersCalls(calls)
      BY <2>2 DEF AnyCalls
    <3>2. PICK calls \in [1..n -> ToolNames] : AnswersCalls(calls)
      BY <3>1
    <3>3. Len(todo') <= MaxCalls
      BY <3>2, CallsType DEF AnswersCalls
    <3> QED
      BY <1>2, <2>0, <3>2, <3>3 DEF AnswersCalls, Answered, Limited, TypeOK
  <2>3. CASE ExecuteTool
    <3>1. todo \in Seq(ToolNames) /\ todo # <<>>
      BY <2>0, <2>3 DEF ExecuteTool, TypeOK, Ending
    <3>2. Len(todo') <= Len(todo) /\ Len(todo) \in Nat /\ Len(todo') \in Nat
      BY <2>3, <3>1, Tails DEF ExecuteTool
    <3> QED
      BY <1>2, <2>3, <3>2 DEF ExecuteTool, Limited
  <2>4. CASE UNCHANGED vars
    BY <1>2, <2>4 DEF vars, talkVars, Limited
  <2> QED
    BY <1>2, <2>1, <2>2, <2>3, <2>4 DEF Next, Step
<1> QED
  BY Invariance, <1>1, <1>2, PTL DEF SafeSpec

==============================================================================
