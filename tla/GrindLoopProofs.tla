--------------------------- MODULE GrindLoopProofs ---------------------------
(****************************************************************************)
(* Theorems about GrindLoop for every set of task definitions: any number   *)
(* of iterations and hooks, whatever the agent, the clock and the user do.  *)
(****************************************************************************)
EXTENDS GrindLoop, TLAPS

USE GrindAssumption

---------------------------------------------------------------------------
(* The inductive invariant, in parts.                                       *)

(* Between NextIteration and Count the iteration has begun and is not       *)
(* counted in the log yet.                                                  *)
InIteration ==
    \/ pc \in {"receive", "signals", "contract", "concluded", "boundary", "checkpoint",
               "continue", "publish", "count"}
    \/ pc = "hooks" /\ stage # "pre_grind"

Counted ==
    /\ iteration <= task_def.max_iterations
    /\ InIteration => iteration = Len(log) + 1
    /\ ~InIteration /\ ~Ended => iteration = Len(log)
    /\ Ended => Len(log) <= iteration

(* consecutive_errors counts the errors the log ends with.                  *)
Trailing ==
    /\ consecutive_errors <= Len(log)
    /\ \A j \in 1..Len(log) : j > Len(log) - consecutive_errors => log[j].error
    /\ consecutive_errors < Len(log) => ~log[Len(log) - consecutive_errors].error

(* The third strike is the last, and the exits for errors need it.          *)
Strikeout ==
    /\ consecutive_errors <= 3
    /\ consecutive_fast_failures <= consecutive_errors
    /\ consecutive_errors = 3 =>
          /\ pc \in {"decide", "closing", "done", "cancelled"}
          /\ result.status \in {"none", "error"}
    /\ pc \in {"closing", "done"} /\ consecutive_errors = 3 => result.status = "error"
    /\ \A i \in 1..Len(log) : StruckOut(i) => consecutive_errors = 3 /\ i + 2 = Len(log)
    /\ result.status = "error" /\ result.iterations > 0 => consecutive_errors = 3

(* The wait before the count is one second after the first error and two    *)
(* after the second.                                                        *)
Waits ==
    /\ slept \in 0..2
    /\ InIteration /\ slept # 0 => pc \in {"publish", "count"} /\ slept = consecutive_errors
    /\ pc = "decide" /\ consecutive_fast_failures = 3 => slept = 0
    /\ result.message = "fast_failures" => slept = 0

(* What _run_iteration may return, and what it has read when it does.       *)
Candidates ==
    /\ candidate # NoResult =>
          /\ candidate.status \in {"complete", "stuck"}
          /\ candidate.message \in {"agent", "aborted", "contract"}
          /\ candidate.iterations = iteration
    /\ candidate.status = "complete" => SaysComplete /\ ~answer.cut
    /\ pc \in {"receive", "signals", "contract", "boundary", "checkpoint", "continue"}
          => candidate = NoResult
    /\ pc = "hooks" /\ stage # "pre_grind" => candidate = NoResult
    /\ pc \in {"receive", "signals"} => ~answer.cut
    /\ pc = "contract" \/ (pc = "hooks" /\ stage = "post_grind") => SaysComplete /\ ~answer.cut
    /\ pc \in {"boundary", "checkpoint", "continue"} => answer.signal = "none"
    /\ pc = "hooks" /\ stage = "post_iteration" => answer.signal = "none"
    /\ pc = "concluded" => candidate # NoResult
    /\ pc = "hooks" => stage \in {"pre_grind", "post_iteration", "post_grind"}
    /\ pc \in {"publish", "count", "decide"} /\ candidate = NoResult =>
          answer.signal = "none" \/ answer.cut
    /\ pc = "decide" => Len(log) > 0 /\ log[Len(log)].signal = answer.signal
                                     /\ log[Len(log)].cut = answer.cut

(* Iterations before the last one gave no signal that was heard.            *)
Silence ==
    /\ \A i \in 1..Len(log) : log[i].signal # "none" =>
          log[i].cut \/ (i = Len(log) /\ pc \in {"decide", "closing", "done", "cancelled"})
    /\ LimitMeansSilence

(* A result justified by what was read.                                     *)
Justification ==
    /\ pc = "closing" => result.status # "none"
    /\ pc \notin {"closing", "done"} => result = NoResult
    /\ CompletionEarned
    /\ result.status \in {"complete", "stuck"} => Len(log) > 0
    /\ result.status = "max_iterations" => Len(log) = task_def.max_iterations

(* The agent has been asked once more than it has answered, at most, and    *)
(* only hooks that failed leave an answer of theirs behind.                 *)
Asked ==
    /\ Len(outstanding) <= 1 + abandoned
    /\ pc \in {"open", "connect", "hooks", "query", "signals", "contract", "boundary",
               "checkpoint", "continue"} => Len(outstanding) <= abandoned
    /\ abandoned = 0 => \A i \in 1..Len(outstanding) : outstanding[i] = "agent"
    /\ answer.source = "hook" => abandoned > 0

GrindInv ==
    /\ TypeOK /\ Counted /\ Trailing /\ Strikeout /\ Waits
    /\ Candidates /\ Silence /\ Justification /\ Asked

---------------------------------------------------------------------------
(* A task definition's fields.                                              *)
LEMMA TaskFields ==
    ASSUME task_def \in TaskDefs
    PROVE  /\ task_def.max_iterations \in Nat
           /\ task_def.interactive \in BOOLEAN
           /\ task_def.contract \in BOOLEAN
           /\ task_def.pre_grind \in Seq(Hook)
           /\ task_def.post_iteration \in Seq(Hook)
           /\ task_def.post_grind \in Seq(Hook)
<1>1. task_def \in TaskDefinition
  OBVIOUS
<1> QED
  BY <1>1 DEF TaskDefinition

LEMMA ResultTypes ==
    /\ NoResult \in Results
    /\ \A status \in Statuses, n \in Nat, message \in Messages :
          GrindResult(status, n, message) \in Results
  BY DEF Results, NoResult, GrindResult, Statuses, Messages

(* The queue of prompts after one was sent, or sent and the oldest answered. *)
LEMMA SentTypes ==
    ASSUME NEW S, NEW q \in Seq(S), NEW x \in S
    PROVE  /\ Append(q, x) \in Seq(S) /\ Len(Append(q, x)) = Len(q) + 1
           /\ Tail(Append(q, x)) \in Seq(S) /\ Len(Tail(Append(q, x))) = Len(q)
  OBVIOUS

LEMMA EntryTypes ==
    ASSUME NEW S, NEW q \in Seq(S)
    PROVE  Len(q) \in Nat /\ \A j \in 1..Len(q) : q[j] \in S
  OBVIOUS

LEMMA QueueTypes ==
    ASSUME TypeOK, NEW who \in {"agent", "hook"}
    PROVE  /\ Append(outstanding, who) \in Seq({"agent", "hook"})
           /\ Len(Append(outstanding, who)) = Len(outstanding) + 1
           /\ Tail(Append(outstanding, who)) \in Seq({"agent", "hook"})
           /\ Len(Tail(Append(outstanding, who))) = Len(outstanding)
<1>1. outstanding \in Seq({"agent", "hook"})
  BY DEF TypeOK
<1> QED
  BY <1>1, SentTypes

LEMMA InitInv == Init => GrindInv
<1> SUFFICES ASSUME Init PROVE GrindInv
  OBVIOUS
<1>1. TypeOK
  <2>1. log \in Seq([error: BOOLEAN, fast: BOOLEAN, signal: Signals, cut: BOOLEAN])
    BY DEF Init
  <2>2. /\ outstanding \in Seq({"agent", "hook"})
        /\ todo \in Seq(Hook)
        /\ hooks_executed \in Seq([stage: Stages, trigger: Triggers, at: Nat])
    BY DEF Init
  <2>3. candidate \in Results /\ result \in Results
    BY ResultTypes DEF Init
  <2>4. answer \in [source: {"none", "agent", "hook"}, signal: Signals,
                     is_error: BOOLEAN, cut: BOOLEAN]
    BY DEF Init, Unread, Signals
  <2> QED
    BY <2>1, <2>2, <2>3, <2>4 DEF Init, TypeOK, PCs, Stages
<1>2. task_def.max_iterations \in Nat
  BY TaskFields DEF Init
<1>3. Counted /\ Trailing /\ Strikeout /\ Waits
  BY <1>2 DEF Init, Counted, Trailing, Strikeout, Waits, InIteration, Ended,
              StruckOut, NoResult
<1>4. Candidates /\ Silence /\ Justification /\ Asked
  BY <1>2 DEF Init, Candidates, Silence, Justification, Asked, CompletionEarned,
              LimitMeansSilence, NoResult, Unread
<1> QED
  BY <1>1, <1>3, <1>4 DEF GrindInv

---------------------------------------------------------------------------
(* Types.                                                                   *)

LEMMA TypeInv ==
    ASSUME TypeOK, Strikeout, Next
    PROVE  TypeOK'
<1> USE DEF TypeOK, loopVars, talkVars, hookVars, userVars
<1>0. task_def.max_iterations \in Nat
  BY TaskFields
<1>1. CASE Open
  BY <1>1 DEF Open, PCs
<1>2. CASE Connect
  BY <1>2, TaskFields DEF Connect, PCs, StartHooks, Stages
<1>3. CASE RunHook
  <2>1. todo # <<>> /\ todo' = Tail(todo) /\ Head(todo) \in Hook
    BY <1>3 DEF RunHook, AtHook
  <2>2. todo' \in Seq(Hook)
    BY <2>1
  <2>3. hooks_executed' \in Seq([stage: Stages, trigger: Triggers, at: Nat])
    BY <1>3, <2>1 DEF RunHook, Hook
  <2>4. outstanding' \in Seq({"agent", "hook"}) /\ abandoned' \in Nat
    <3>1. /\ Append(outstanding, "hook") \in Seq({"agent", "hook"})
          /\ Tail(Append(outstanding, "hook")) \in Seq({"agent", "hook"})
      BY QueueTypes
    <3>2. /\ outstanding' \in {outstanding, Append(outstanding, "hook"),
                               Tail(Append(outstanding, "hook"))}
          /\ abandoned' \in {abandoned, abandoned + 1}
      BY <1>3 DEF RunHook
    <3>3. outstanding' \in Seq({"agent", "hook"})
      BY <3>1, <3>2
    <3>4. abandoned' \in Nat
      BY <3>2
    <3> QED BY <3>3, <3>4
  <2>5. QED BY <1>3, <2>2, <2>3, <2>4 DEF RunHook
<1>4. CASE SkipHook
  <2>1. todo' \in Seq(Hook)
    BY <1>4 DEF SkipHook
  <2>5. QED BY <1>4, <2>1 DEF SkipHook
<1>5. CASE HooksDone
  BY <1>5 DEF HooksDone, PCs
<1>6. CASE InitialQuery
  BY <1>6 DEF InitialQuery, PCs
<1>7. CASE InitialQueryTimesOut
  BY <1>7, QueueTypes, ResultTypes DEF InitialQueryTimesOut, Return, PCs,
                                       Statuses, Messages
<1>8. CASE NextIteration
  BY <1>8, ResultTypes DEF NextIteration, Unread, PCs, Signals
<1>9. CASE LimitReached
  BY <1>9, ResultTypes DEF LimitReached,  Return, PCs, Statuses, Messages
<1>10. CASE Receive
  <2>1. answer' \in [source: {"none", "agent", "hook"}, signal: Signals, is_error: BOOLEAN, cut: BOOLEAN]
    BY <1>10 DEF Receive
  <2>2. outstanding' \in Seq({"agent", "hook"})
    BY <1>10 DEF Receive
  <2>3. QED BY <1>10, <2>1, <2>2 DEF Receive, PCs
<1>11. CASE TimesOut
  <2>1. outstanding' \in Seq({"agent", "hook"}) /\ abandoned' \in Nat
    <3>1. Append(outstanding, "hook") \in Seq({"agent", "hook"})
      BY QueueTypes
    <3>2. /\ outstanding' \in {outstanding, Append(outstanding, "hook")}
          /\ abandoned' \in {abandoned, abandoned + 1}
      BY <1>11 DEF TimesOut, CutOff
    <3>3. outstanding' \in Seq({"agent", "hook"})
      BY <3>1, <3>2
    <3>4. abandoned' \in Nat
      BY <3>2
    <3> QED BY <3>3, <3>4
  <2>3. QED BY <1>11, <2>1, ResultTypes DEF TimesOut, PCs
<1>12. CASE AbortAtSignal
  BY <1>12, ResultTypes DEF AbortAtSignal, ClearInterject, PCs, Statuses, Messages
<1>13. CASE CompleteSignal
  BY <1>13, TaskFields DEF CompleteSignal, KeepSignal, ClearInterject,
                           StartHooks, PCs, Stages
<1>14. CASE Conclude
  BY <1>14, ResultTypes DEF Conclude, PCs, Statuses, Messages
<1>15. CASE StuckSignal
  BY <1>15, ResultTypes DEF StuckSignal, KeepSignal, ClearInterject, PCs,
                            Statuses, Messages
<1>16. CASE NoSignal
  BY <1>16, TaskFields DEF NoSignal, StartHooks, PCs, Stages
<1>17. CASE Publish
  BY <1>17 DEF Publish, PCs
<1>18. CASE ToCheckpoint
  BY <1>18 DEF ToCheckpoint, ClearInterject, PCs
<1>19. CASE NoCheckpoint
  BY <1>19 DEF NoCheckpoint, PCs
<1>20. CASE Continue
  <2>1. slept' \in Nat
    <3>1. consecutive_errors \in {0, 1, 2}
      BY <1>20 DEF Continue, Strikeout
    <3>2. 2^0 = 1 /\ 2^1 = 2
      OBVIOUS
    <3>3. CASE consecutive_errors = 0
      BY <1>20, <3>3 DEF Continue, Backoff
    <3>4. CASE consecutive_errors = 1
      <4>1. slept' \in {0, 2^0}
        BY <1>20, <3>4 DEF Continue, Backoff
      <4> QED BY <4>1, <3>2
    <3>5. CASE consecutive_errors = 2
      <4>1. slept' \in {0, 2^1}
        BY <1>20, <3>5 DEF Continue, Backoff
      <4> QED BY <4>1, <3>2
    <3> QED BY <3>1, <3>3, <3>4, <3>5
  <2>2. outstanding' \in Seq({"agent", "hook"})
    BY <1>20, QueueTypes DEF Continue, SendPrompt
  <2>3. QED BY <1>20, <2>1, <2>2 DEF Continue, SendPrompt, PCs
<1>21. CASE CheckpointContinue
  BY <1>21, QueueTypes DEF CheckpointContinue, SendPrompt, PCs
<1>22. CASE CheckpointAbort
  BY <1>22, ResultTypes DEF CheckpointAbort, PCs, Statuses, Messages
<1>23. CASE Count
  <2>1. log' \in Seq([error: BOOLEAN, fast: BOOLEAN, signal: Signals, cut: BOOLEAN])
    BY <1>23 DEF Count
  <2>2. consecutive_errors' \in Nat /\ consecutive_fast_failures' \in Nat
    BY <1>23 DEF Count
  <2>3. QED BY <1>23, <2>1, <2>2 DEF Count, PCs
<1>24. CASE StrikeOut
  BY <1>24, ResultTypes DEF StrikeOut, Return, PCs, Statuses, Messages
<1>25. CASE ReturnCandidate
  <2>1. GrindResult(candidate.status, candidate.iterations, candidate.message) \in Results
    BY ResultTypes DEF Results
  <2> QED BY <1>25, <2>1 DEF ReturnCandidate, Return, PCs
<1>26. CASE GoOn
  BY <1>26 DEF GoOn, PCs
<1>27. CASE Close
  BY <1>27, TaskFields, ResultTypes DEF Close, StopListener, PCs, Statuses,
                                        Messages
<1>28. CASE Raise
  BY <1>28, TaskFields, ResultTypes DEF Raise, StopListener, PCs, Statuses,
                                        Messages
<1>29. CASE Cancel
  BY <1>29, TaskFields, ResultTypes DEF Cancel, StopListener, PCs
<1>30. CASE KeyPress
  BY <1>30 DEF KeyPress
<1> QED
  BY <1>1, <1>2, <1>3, <1>4, <1>5, <1>6, <1>7, <1>8, <1>9, <1>10, <1>11, <1>12,
     <1>13, <1>14, <1>15, <1>16, <1>17, <1>18, <1>19, <1>20, <1>21, <1>22, <1>23,
     <1>24, <1>25, <1>26, <1>27, <1>28, <1>29, <1>30 DEF Next, Step, Iteration

LEMMA CountedInv ==
    ASSUME GrindInv, Next
    PROVE  Counted'
<1> USE DEF loopVars, talkVars, hookVars, userVars
<1>a. /\ iteration \in Nat /\ task_def.max_iterations \in Nat /\ Len(log) \in Nat
      /\ Counted
  BY TaskFields DEF GrindInv, TypeOK
<1>1. CASE Open
  BY <1>1, <1>a DEF Open, Counted, InIteration, Ended
<1>2. CASE Connect
  BY <1>2, <1>a DEF Connect, StartHooks, Counted, InIteration, Ended
<1>3. CASE RunHook
  BY <1>3, <1>a DEF RunHook, AtHook, Counted, InIteration, Ended
<1>4. CASE SkipHook
  BY <1>4, <1>a DEF SkipHook, Counted, InIteration, Ended
<1>5. CASE HooksDone
  BY <1>5, <1>a DEF HooksDone, Counted, InIteration, Ended
<1>6. CASE InitialQuery
  BY <1>6, <1>a DEF InitialQuery, Counted, InIteration, Ended
<1>7. CASE InitialQueryTimesOut
  BY <1>7, <1>a DEF InitialQueryTimesOut, Return, GrindResult, Counted,
                    InIteration, Ended
<1>8. CASE NextIteration
  BY <1>8, <1>a DEF NextIteration, Unread, NoResult, Counted, InIteration, Ended
<1>9. CASE LimitReached
  BY <1>9, <1>a DEF LimitReached, Return, GrindResult, Counted, InIteration, Ended
<1>10. CASE Receive
  BY <1>10, <1>a DEF Receive, Counted, InIteration, Ended
<1>11. CASE TimesOut
  BY <1>11, <1>a DEF TimesOut, CutOff, AtHook, NoResult, Counted, InIteration,
                     Ended
<1>12. CASE AbortAtSignal
  BY <1>12, <1>a DEF AbortAtSignal, ClearInterject, GrindResult, Counted,
                     InIteration, Ended
<1>13. CASE CompleteSignal
  BY <1>13, <1>a DEF CompleteSignal, KeepSignal, ClearInterject, StartHooks,
                     Counted, InIteration, Ended
<1>14. CASE Conclude
  BY <1>14, <1>a DEF Conclude, GrindResult, Counted, InIteration, Ended
<1>15. CASE StuckSignal
  BY <1>15, <1>a DEF StuckSignal, KeepSignal, ClearInterject, GrindResult,
                     Counted, InIteration, Ended
<1>16. CASE NoSignal
  BY <1>16, <1>a DEF NoSignal, StartHooks, Counted, InIteration, Ended
<1>17. CASE Publish
  BY <1>17, <1>a DEF Publish, Counted, InIteration, Ended
<1>18. CASE ToCheckpoint
  BY <1>18, <1>a DEF ToCheckpoint, ClearInterject, Counted, InIteration, Ended
<1>19. CASE NoCheckpoint
  BY <1>19, <1>a DEF NoCheckpoint, Counted, InIteration, Ended
<1>20. CASE Continue
  BY <1>20, <1>a DEF Continue, SendPrompt, Counted, InIteration, Ended
<1>21. CASE CheckpointContinue
  BY <1>21, <1>a DEF CheckpointContinue, SendPrompt, Counted, InIteration, Ended
<1>22. CASE CheckpointAbort
  BY <1>22, <1>a DEF CheckpointAbort, GrindResult, Counted, InIteration, Ended
<1>23. CASE Count
  BY <1>23, <1>a DEF Count, Counted, InIteration, Ended
<1>24. CASE StrikeOut
  BY <1>24, <1>a DEF StrikeOut, Return, GrindResult, Counted, InIteration, Ended
<1>25. CASE ReturnCandidate
  BY <1>25, <1>a DEF ReturnCandidate, Return, GrindResult, Counted, InIteration,
                     Ended
<1>26. CASE GoOn
  BY <1>26, <1>a DEF GoOn, InPlay, Counted, InIteration, Ended
<1>27. CASE Close
  BY <1>27, <1>a DEF Close, StopListener, GrindResult, Counted, InIteration, Ended
<1>28. CASE Raise
  BY <1>28, <1>a DEF Raise, StopListener, GrindResult, Counted, InIteration, Ended
<1>29. CASE Cancel
  BY <1>29, <1>a DEF Cancel, StopListener, Suspended, AtHook, NoResult, Counted,
                     InIteration, Ended
<1>30. CASE KeyPress
  BY <1>30, <1>a DEF KeyPress, Counted, InIteration, Ended
<1> QED
  BY <1>1, <1>2, <1>3, <1>4, <1>5, <1>6, <1>7, <1>8, <1>9, <1>10, <1>11, <1>12,
     <1>13, <1>14, <1>15, <1>16, <1>17, <1>18, <1>19, <1>20, <1>21, <1>22, <1>23,
     <1>24, <1>25, <1>26, <1>27, <1>28, <1>29, <1>30 DEF Next, Step, Iteration

(* Only Count touches the counters and the log.                             *)
LEMMA CountAlone ==
    ASSUME Next
    PROVE  \/ Count
           \/ UNCHANGED <<task_def, consecutive_errors, consecutive_fast_failures, log>>
<1> USE DEF loopVars
<1>1. CASE Open
  BY <1>1 DEF Open
<1>2. CASE Connect
  BY <1>2 DEF Connect, StartHooks
<1>3. CASE RunHook
  BY <1>3 DEF RunHook, AtHook
<1>4. CASE SkipHook
  BY <1>4 DEF SkipHook
<1>5. CASE HooksDone
  BY <1>5 DEF HooksDone
<1>6. CASE InitialQuery
  BY <1>6 DEF InitialQuery
<1>7. CASE InitialQueryTimesOut
  BY <1>7 DEF InitialQueryTimesOut, Return, GrindResult
<1>8. CASE NextIteration
  BY <1>8 DEF NextIteration, Unread, NoResult
<1>9. CASE LimitReached
  BY <1>9 DEF LimitReached, Return, GrindResult
<1>10. CASE Receive
  BY <1>10 DEF Receive
<1>11. CASE TimesOut
  BY <1>11 DEF TimesOut, CutOff, AtHook, NoResult
<1>12. CASE AbortAtSignal
  BY <1>12 DEF AbortAtSignal, ClearInterject, GrindResult
<1>13. CASE CompleteSignal
  BY <1>13 DEF CompleteSignal, KeepSignal, ClearInterject, StartHooks
<1>14. CASE Conclude
  BY <1>14 DEF Conclude, GrindResult
<1>15. CASE StuckSignal
  BY <1>15 DEF StuckSignal, KeepSignal, ClearInterject, GrindResult
<1>16. CASE NoSignal
  BY <1>16 DEF NoSignal, StartHooks
<1>17. CASE Publish
  BY <1>17 DEF Publish
<1>18. CASE ToCheckpoint
  BY <1>18 DEF ToCheckpoint, ClearInterject
<1>19. CASE NoCheckpoint
  BY <1>19 DEF NoCheckpoint
<1>20. CASE Continue
  BY <1>20 DEF Continue, SendPrompt
<1>21. CASE CheckpointContinue
  BY <1>21 DEF CheckpointContinue, SendPrompt
<1>22. CASE CheckpointAbort
  BY <1>22 DEF CheckpointAbort, GrindResult
<1>23. CASE StrikeOut
  BY <1>23 DEF StrikeOut, Return, GrindResult
<1>24. CASE ReturnCandidate
  BY <1>24 DEF ReturnCandidate, Return, GrindResult
<1>25. CASE GoOn
  BY <1>25 DEF GoOn, InPlay
<1>26. CASE Close
  BY <1>26 DEF Close, StopListener, GrindResult
<1>27. CASE Raise
  BY <1>27 DEF Raise, StopListener, GrindResult
<1>28. CASE Cancel
  BY <1>28 DEF Cancel, StopListener, Suspended, AtHook, NoResult
<1>29. CASE KeyPress
  BY <1>29 DEF KeyPress
<1> QED
  BY <1>1, <1>2, <1>3, <1>4, <1>5, <1>6, <1>7, <1>8, <1>9, <1>10, <1>11, <1>12,
     <1>13, <1>14, <1>15, <1>16, <1>17, <1>18, <1>19, <1>20, <1>21, <1>22, <1>23,
     <1>24, <1>25, <1>26, <1>27, <1>28, <1>29 DEF Next, Step, Iteration

(* The types that most steps below need.                                    *)
LEMMA Types ==
    ASSUME TypeOK
    PROVE  /\ iteration \in Nat /\ task_def.max_iterations \in Nat /\ Len(log) \in Nat
           /\ consecutive_errors \in Nat /\ consecutive_fast_failures \in Nat
           /\ \A j \in 1..Len(log) :
                 log[j] \in [error: BOOLEAN, fast: BOOLEAN, signal: Signals, cut: BOOLEAN]
           /\ answer \in [source: {"none", "agent", "hook"}, signal: Signals,
                          is_error: BOOLEAN, cut: BOOLEAN]
           /\ candidate \in Results /\ result \in Results
           /\ outstanding \in Seq({"agent", "hook"}) /\ abandoned \in Nat
<1>1. log \in Seq([error: BOOLEAN, fast: BOOLEAN, signal: Signals, cut: BOOLEAN])
  BY DEF TypeOK
<1>2. /\ Len(log) \in Nat
      /\ \A j \in 1..Len(log) :
            log[j] \in [error: BOOLEAN, fast: BOOLEAN, signal: Signals, cut: BOOLEAN]
  BY <1>1, EntryTypes
<1> QED
  BY <1>2, TaskFields DEF TypeOK

(* What Count appends.                                                      *)
LEMMA Counting ==
    ASSUME TypeOK, Count
    PROVE  /\ Len(log') = Len(log) + 1
           /\ \A j \in 1..Len(log) : log'[j] = log[j]
           /\ log'[Len(log) + 1].error = answer.is_error
           /\ log'[Len(log) + 1].signal = answer.signal
           /\ log'[Len(log) + 1].cut = answer.cut
           /\ consecutive_errors' = IF answer.is_error THEN consecutive_errors + 1 ELSE 0
           /\ \/ /\ answer.is_error /\ slept < 2
                 /\ consecutive_fast_failures' = consecutive_fast_failures + 1
              \/ consecutive_fast_failures' = 0
<1>1. PICK fast \in BOOLEAN :
         /\ fast => answer.is_error /\ slept < 2
         /\ consecutive_fast_failures' = IF fast THEN consecutive_fast_failures + 1 ELSE 0
         /\ log' = Append(log, [error |-> answer.is_error, fast |-> fast,
                                signal |-> answer.signal, cut |-> answer.cut])
  BY DEF Count
<1>2. log \in Seq([error: BOOLEAN, fast: BOOLEAN, signal: Signals, cut: BOOLEAN])
  BY DEF TypeOK
<1>3. [error |-> answer.is_error, fast |-> fast, signal |-> answer.signal,
       cut |-> answer.cut] \in [error: BOOLEAN, fast: BOOLEAN, signal: Signals, cut: BOOLEAN]
  BY Types
<1>4. /\ Len(log') = Len(log) + 1
      /\ \A j \in 1..Len(log) : log'[j] = log[j]
      /\ log'[Len(log) + 1] = [error |-> answer.is_error, fast |-> fast,
                               signal |-> answer.signal, cut |-> answer.cut]
  BY <1>1, <1>2, <1>3
<1> QED
  BY <1>1, <1>4 DEF Count

LEMMA TrailingInv ==
    ASSUME GrindInv, Next
    PROVE  Trailing'
<1>1. CASE UNCHANGED <<consecutive_errors, log>>
  BY <1>1 DEF GrindInv, Trailing
<1>2. CASE Count
  <2>1. /\ TypeOK /\ Trailing
        /\ Len(log) \in Nat /\ consecutive_errors \in Nat
    BY Types DEF GrindInv
  <2>2. CASE answer.is_error
    <3>1. /\ Len(log') = Len(log) + 1 /\ consecutive_errors' = consecutive_errors + 1
          /\ \A j \in 1..Len(log) : log'[j] = log[j]
          /\ log'[Len(log) + 1].error
      BY <1>2, <2>1, <2>2, Counting
    <3>2. \A j \in 1..Len(log') : j > Len(log) - consecutive_errors => log'[j].error
      BY <2>1, <3>1 DEF Trailing
    <3>3. consecutive_errors < Len(log) => ~log'[Len(log) - consecutive_errors].error
      BY <2>1, <3>1 DEF Trailing
    <3> QED
      BY <2>1, <3>1, <3>2, <3>3 DEF Trailing
  <2>3. CASE ~answer.is_error
    BY <1>2, <2>1, <2>3, Counting DEF Trailing
  <2> QED
    BY <2>2, <2>3
<1> QED
  BY <1>1, <1>2, CountAlone

(* How the result comes about.                                              *)
LEMMA StrikeoutInv ==
    ASSUME GrindInv, Next
    PROVE  Strikeout'
<1> USE DEF loopVars, talkVars, hookVars, userVars
<1>a. /\ TypeOK /\ Strikeout /\ Trailing /\ Counted /\ Candidates /\ Justification
      /\ Len(log) \in Nat /\ iteration \in Nat
      /\ consecutive_errors \in Nat /\ consecutive_fast_failures \in Nat
  BY Types DEF GrindInv
<1>b. CASE Count
  <2>1. consecutive_errors < 3
    BY <1>a, <1>b DEF Count, Strikeout
  <2>2. \A i \in 1..Len(log') : StruckOut(i)' => consecutive_errors' = 3 /\ i + 2 = Len(log')
    <3> SUFFICES ASSUME NEW i \in 1..Len(log'), StruckOut(i)'
                 PROVE  consecutive_errors' = 3 /\ i + 2 = Len(log')
      OBVIOUS
    <3>1. /\ Len(log') = Len(log) + 1
          /\ \A j \in 1..Len(log) : log'[j] = log[j]
      BY <1>a, <1>b, Counting
    <3>2. CASE i + 2 < Len(log')
      <4>1. StruckOut(i)
        BY <1>a, <3>1, <3>2 DEF StruckOut
      <4> QED
        BY <1>a, <2>1, <3>1, <3>2, <4>1 DEF Strikeout
    <3>3. CASE i + 2 = Len(log')
      <4>1. /\ log[i].error /\ log[i + 1].error /\ log'[Len(log) + 1].error
            /\ i = Len(log) - 1 /\ i >= 1
        BY <1>a, <3>1, <3>3 DEF StruckOut
      <4>2. answer.is_error /\ consecutive_errors' = consecutive_errors + 1
        BY <1>a, <1>b, <4>1, Counting
      <4>3. consecutive_errors >= 2
        BY <1>a, <4>1 DEF Trailing
      <4> QED
        BY <1>a, <2>1, <3>3, <4>2, <4>3
    <3> QED
      BY <1>a, <3>1, <3>2, <3>3 DEF StruckOut
  <2>3. /\ consecutive_errors' \in 0..3
        /\ consecutive_fast_failures' <= consecutive_errors'
    BY <1>a, <1>b, <2>1, Counting DEF Strikeout
  <2>4. pc' = "decide" /\ result' = NoResult
    BY <1>a, <1>b DEF Count, Justification
  <2> QED
    BY <2>2, <2>3, <2>4 DEF Strikeout, NoResult
<1>c. ASSUME UNCHANGED <<consecutive_errors, log>>
      PROVE  \A i \in 1..Len(log') :
                StruckOut(i)' => consecutive_errors' = 3 /\ i + 2 = Len(log')
  BY <1>a, <1>c DEF StruckOut, Strikeout

<1>1. CASE Open
  BY <1>1, <1>a, <1>c DEF Open, Strikeout, Justification, NoResult
<1>2. CASE Connect
  BY <1>2, <1>a, <1>c DEF Connect, StartHooks, Strikeout, Justification, NoResult
<1>3. CASE RunHook
  BY <1>3, <1>a, <1>c DEF RunHook, AtHook, Strikeout, Justification, NoResult
<1>4. CASE SkipHook
  BY <1>4, <1>a, <1>c DEF SkipHook, Strikeout, Justification, NoResult
<1>5. CASE HooksDone
  BY <1>5, <1>a, <1>c DEF HooksDone, Strikeout, Justification, NoResult
<1>6. CASE InitialQuery
  BY <1>6, <1>a, <1>c DEF InitialQuery, Strikeout, Justification, NoResult
<1>7. CASE InitialQueryTimesOut
  <2>1. /\ pc' = "closing" /\ result'.status = "error" /\ result'.iterations = 0
        /\ UNCHANGED <<consecutive_errors, consecutive_fast_failures, log>>
        /\ consecutive_errors < 3
    BY <1>7, <1>a DEF InitialQueryTimesOut, Return, GrindResult, Strikeout
  <2> QED
    BY <2>1, <1>a, <1>c DEF Strikeout
<1>8. CASE NextIteration
  BY <1>8, <1>a, <1>c DEF NextIteration, Unread, NoResult, Strikeout,
                          Justification, NoResult
<1>9. CASE LimitReached
  BY <1>9, <1>a, <1>c DEF LimitReached, Return, GrindResult, Strikeout,
                          Justification, NoResult
<1>10. CASE Receive
  BY <1>10, <1>a, <1>c DEF Receive, Strikeout, Justification, NoResult
<1>11. CASE TimesOut
  BY <1>11, <1>a, <1>c DEF TimesOut, CutOff, AtHook, NoResult, Strikeout,
                           Justification, NoResult
<1>12. CASE AbortAtSignal
  BY <1>12, <1>a, <1>c DEF AbortAtSignal, ClearInterject, GrindResult, Strikeout,
                           Justification, NoResult
<1>13. CASE CompleteSignal
  BY <1>13, <1>a, <1>c DEF CompleteSignal, KeepSignal, ClearInterject,
                           StartHooks, Strikeout, Justification, NoResult
<1>14. CASE Conclude
  BY <1>14, <1>a, <1>c DEF Conclude, GrindResult, Strikeout, Justification,
                           NoResult
<1>15. CASE StuckSignal
  BY <1>15, <1>a, <1>c DEF StuckSignal, KeepSignal, ClearInterject, GrindResult,
                           Strikeout, Justification, NoResult
<1>16. CASE NoSignal
  BY <1>16, <1>a, <1>c DEF NoSignal, StartHooks, Strikeout, Justification,
                           NoResult
<1>17. CASE Publish
  BY <1>17, <1>a, <1>c DEF Publish, Strikeout, Justification, NoResult
<1>18. CASE ToCheckpoint
  BY <1>18, <1>a, <1>c DEF ToCheckpoint, ClearInterject, Strikeout,
                           Justification, NoResult
<1>19. CASE NoCheckpoint
  BY <1>19, <1>a, <1>c DEF NoCheckpoint, Strikeout, Justification, NoResult
<1>20. CASE Continue
  BY <1>20, <1>a, <1>c DEF Continue, SendPrompt, Strikeout, Justification,
                           NoResult
<1>21. CASE CheckpointContinue
  BY <1>21, <1>a, <1>c DEF CheckpointContinue, SendPrompt, Strikeout,
                           Justification, NoResult
<1>22. CASE CheckpointAbort
  BY <1>22, <1>a, <1>c DEF CheckpointAbort, GrindResult, Strikeout,
                           Justification, NoResult
<1>23. CASE StrikeOut
  <2>1. /\ pc' = "closing" /\ result'.status = "error"
        /\ UNCHANGED <<consecutive_errors, consecutive_fast_failures, log>>
        /\ consecutive_errors = 3
    BY <1>23, <1>a DEF StrikeOut, Return, GrindResult, Strikes, Strikeout
  <2> QED
    BY <2>1, <1>a, <1>c DEF Strikeout
<1>24. CASE ReturnCandidate
  BY <1>24, <1>a, <1>c DEF ReturnCandidate, Return, GrindResult, InPlay, Strikes,
                           Strikeout, Candidates, Justification
<1>25. CASE GoOn
  BY <1>25, <1>a, <1>c DEF GoOn, InPlay, Strikes, Strikeout, Justification,
                           NoResult
<1>26. CASE Close
  BY <1>26, <1>a, <1>c DEF Close, StopListener, GrindResult, Strikeout,
                           Justification, NoResult
<1>27. CASE Raise
  BY <1>27, <1>a, <1>c DEF Raise, StopListener, GrindResult, Strikeout,
                           Justification, NoResult
<1>28. CASE Cancel
  BY <1>28, <1>a, <1>c DEF Cancel, StopListener, Suspended, AtHook, NoResult,
                           Strikeout, Justification, NoResult
<1>29. CASE KeyPress
  BY <1>29, <1>a, <1>c DEF KeyPress, Strikeout, Justification, NoResult
<1> QED
  BY <1>b, <1>1, <1>2, <1>3, <1>4, <1>5, <1>6, <1>7, <1>8, <1>9, <1>10, <1>11,
     <1>12, <1>13, <1>14, <1>15, <1>16, <1>17, <1>18, <1>19, <1>20, <1>21, <1>22,
     <1>23, <1>24, <1>25, <1>26, <1>27, <1>28, <1>29 DEF Next, Step, Iteration

(* What the exit for fast failures needs to know about the backoff.         *)
LEMMA WaitsInv ==
    ASSUME GrindInv, Next
    PROVE  Waits'
<1> USE DEF loopVars, talkVars, hookVars, userVars
<1>a. /\ TypeOK /\ Waits /\ Strikeout /\ Justification /\ Candidates
      /\ Len(log) \in Nat /\ iteration \in Nat /\ task_def.max_iterations \in Nat
      /\ consecutive_errors \in Nat /\ consecutive_fast_failures \in Nat
  BY Types DEF GrindInv
<1>1. CASE Open
  BY <1>1, <1>a DEF Open, Waits, InIteration, Justification, NoResult
<1>2. CASE Connect
  BY <1>2, <1>a DEF Connect, StartHooks, Waits, InIteration, Justification,
                    NoResult
<1>3. CASE RunHook
  BY <1>3, <1>a DEF RunHook, AtHook, Waits, InIteration, Justification, NoResult
<1>4. CASE SkipHook
  BY <1>4, <1>a DEF SkipHook, Waits, InIteration, Justification, NoResult
<1>5. CASE HooksDone
  BY <1>5, <1>a DEF HooksDone, Waits, InIteration, Justification, NoResult
<1>6. CASE InitialQuery
  BY <1>6, <1>a DEF InitialQuery, Waits, InIteration, Justification, NoResult
<1>7. CASE InitialQueryTimesOut
  BY <1>7, <1>a DEF InitialQueryTimesOut, Return, GrindResult, Waits,
                    InIteration, Justification, NoResult
<1>8. CASE NextIteration
  BY <1>8, <1>a DEF NextIteration, Unread, NoResult, Waits, InIteration,
                    Justification, NoResult
<1>9. CASE LimitReached
  BY <1>9, <1>a DEF LimitReached, Return, GrindResult, Waits, InIteration,
                    Justification, NoResult
<1>10. CASE Receive
  BY <1>10, <1>a DEF Receive, Waits, InIteration, Justification, NoResult
<1>11. CASE TimesOut
  BY <1>11, <1>a DEF TimesOut, CutOff, AtHook, NoResult, Waits, InIteration,
                     Justification, NoResult
<1>12. CASE AbortAtSignal
  BY <1>12, <1>a DEF AbortAtSignal, ClearInterject, GrindResult, Waits,
                     InIteration, Justification, NoResult
<1>13. CASE CompleteSignal
  BY <1>13, <1>a DEF CompleteSignal, KeepSignal, ClearInterject, StartHooks,
                     Waits, InIteration, Justification, NoResult
<1>14. CASE Conclude
  BY <1>14, <1>a DEF Conclude, GrindResult, Waits, InIteration, Justification,
                     NoResult
<1>15. CASE StuckSignal
  BY <1>15, <1>a DEF StuckSignal, KeepSignal, ClearInterject, GrindResult, Waits,
                     InIteration, Justification, NoResult
<1>16. CASE NoSignal
  BY <1>16, <1>a DEF NoSignal, StartHooks, Waits, InIteration, Justification,
                     NoResult
<1>17. CASE Publish
  BY <1>17, <1>a DEF Publish, Waits, InIteration, Justification, NoResult
<1>18. CASE ToCheckpoint
  BY <1>18, <1>a DEF ToCheckpoint, ClearInterject, Waits, InIteration,
                     Justification, NoResult
<1>19. CASE NoCheckpoint
  BY <1>19, <1>a DEF NoCheckpoint, Waits, InIteration, Justification, NoResult
<1>20. CASE Continue
  <2>1. consecutive_errors \in 0..2 /\ slept = 0
    BY <1>20, <1>a DEF Continue, Strikeout, Waits, InIteration
  <2>2. 2^0 = 1 /\ 2^1 = 2
    OBVIOUS
  <2>3. slept' \in 0..2 /\ (slept' # 0 => slept' = consecutive_errors)
    <3>1. CASE consecutive_errors = 0 \/ ~answer.is_error
      BY <1>20, <3>1 DEF Continue, Backoff
    <3>2. CASE consecutive_errors = 1 /\ answer.is_error
      <4>1. slept' = 2^0
        BY <1>20, <3>2 DEF Continue, Backoff
      <4> QED
        BY <2>2, <3>2, <4>1
    <3>3. CASE consecutive_errors = 2 /\ answer.is_error
      <4>1. slept' = 2^1
        BY <1>20, <3>3 DEF Continue, Backoff
      <4> QED
        BY <2>2, <3>3, <4>1
    <3> QED
      BY <2>1, <3>1, <3>2, <3>3
  <2> QED
    BY <1>20, <1>a, <2>3 DEF Continue, SendPrompt, Waits, Justification, NoResult
<1>21. CASE CheckpointContinue
  BY <1>21, <1>a DEF CheckpointContinue, SendPrompt, Waits, InIteration,
                     Justification, NoResult
<1>22. CASE CheckpointAbort
  BY <1>22, <1>a DEF CheckpointAbort, GrindResult, Waits, InIteration,
                     Justification, NoResult
<1>23. CASE Count
  <2>1. \/ consecutive_fast_failures' = 0
        \/ slept < 2 /\ consecutive_fast_failures' = consecutive_fast_failures + 1
    BY <1>23, <1>a, Counting
  <2>2. /\ consecutive_errors < 3 /\ slept' = slept /\ pc' = "decide" /\ result' = NoResult
        /\ pc = "count"
    BY <1>23, <1>a DEF Count, Strikeout, Justification
  <2>3. consecutive_fast_failures' = 3 => slept = 0
    BY <1>a, <2>1, <2>2 DEF Waits, Strikeout, InIteration
  <2> QED
    BY <1>a, <2>2, <2>3 DEF Waits, InIteration, NoResult
<1>24. CASE StrikeOut
  <2>1. /\ pc = "decide" /\ pc' = "closing" /\ slept' = slept
        /\ result'.message = "fast_failures" => consecutive_fast_failures = 3
        /\ UNCHANGED consecutive_fast_failures
    BY <1>24, <1>a DEF StrikeOut, Return, GrindResult, Strikes, Strikeout
  <2> QED
    BY <1>a, <2>1 DEF Waits, InIteration
<1>25. CASE ReturnCandidate
  BY <1>25, <1>a DEF ReturnCandidate, Return, GrindResult, Waits, InIteration,
                     Candidates
<1>26. CASE GoOn
  BY <1>26, <1>a DEF GoOn, InPlay, Waits, InIteration, Justification, NoResult
<1>27. CASE Close
  BY <1>27, <1>a DEF Close, StopListener, GrindResult, Waits, InIteration,
                     Justification, NoResult
<1>28. CASE Raise
  BY <1>28, <1>a DEF Raise, StopListener, GrindResult, Waits, InIteration,
                     Justification, NoResult
<1>29. CASE Cancel
  BY <1>29, <1>a DEF Cancel, StopListener, Suspended, AtHook, NoResult, Waits,
                     InIteration, Justification, NoResult
<1>30. CASE KeyPress
  BY <1>30, <1>a DEF KeyPress, Waits, InIteration, Justification, NoResult
<1> QED
  BY <1>1, <1>2, <1>3, <1>4, <1>5, <1>6, <1>7, <1>8, <1>9, <1>10, <1>11, <1>12,
     <1>13, <1>14, <1>15, <1>16, <1>17, <1>18, <1>19, <1>20, <1>21, <1>22, <1>23,
     <1>24, <1>25, <1>26, <1>27, <1>28, <1>29, <1>30 DEF Next, Step, Iteration

(* What _run_iteration returns.                                             *)
LEMMA CandidatesInv ==
    ASSUME GrindInv, Next
    PROVE  Candidates'
<1> USE DEF loopVars, talkVars, hookVars, userVars
<1>a. /\ TypeOK /\ Candidates /\ Counted /\ Strikeout
      /\ Len(log) \in Nat /\ iteration \in Nat /\ task_def.max_iterations \in Nat
      /\ consecutive_errors \in Nat /\ consecutive_fast_failures \in Nat
  BY Types DEF GrindInv
<1>1. CASE Open
  BY <1>1, <1>a DEF Open, Candidates, SaysComplete, InIteration
<1>2. CASE Connect
  BY <1>2, <1>a DEF Connect, StartHooks, Candidates, SaysComplete, InIteration
<1>3. CASE RunHook
  BY <1>3, <1>a DEF RunHook, AtHook, Candidates, SaysComplete, InIteration
<1>4. CASE SkipHook
  BY <1>4, <1>a DEF SkipHook, Candidates, SaysComplete, InIteration
<1>5. CASE HooksDone
  BY <1>5, <1>a DEF HooksDone, Candidates, SaysComplete, InIteration
<1>6. CASE InitialQuery
  BY <1>6, <1>a DEF InitialQuery, Candidates, SaysComplete, InIteration
<1>7. CASE InitialQueryTimesOut
  BY <1>7, <1>a DEF InitialQueryTimesOut, Return, GrindResult, Candidates,
                    SaysComplete, InIteration
<1>8. CASE NextIteration
  BY <1>8, <1>a DEF NextIteration, Unread, NoResult, Candidates, SaysComplete,
                    InIteration
<1>9. CASE LimitReached
  BY <1>9, <1>a DEF LimitReached, Return, GrindResult, Candidates, SaysComplete,
                    InIteration
<1>10. CASE Receive
  BY <1>10, <1>a DEF Receive, NoResult, Candidates, SaysComplete, InIteration
<1>11. CASE TimesOut
  BY <1>11, <1>a DEF TimesOut, CutOff, AtHook, NoResult, Candidates,
                     SaysComplete, InIteration
<1>12. CASE AbortAtSignal
  BY <1>12, <1>a DEF AbortAtSignal, ClearInterject, GrindResult, NoResult,
                     Candidates, SaysComplete, InIteration
<1>13. CASE CompleteSignal
  BY <1>13, <1>a DEF CompleteSignal, KeepSignal, ClearInterject, StartHooks,
                     Candidates, SaysComplete, InIteration
<1>14. CASE Conclude
  BY <1>14, <1>a DEF Conclude, GrindResult, NoResult, Candidates, SaysComplete,
                     InIteration
<1>15. CASE StuckSignal
  BY <1>15, <1>a DEF StuckSignal, KeepSignal, ClearInterject, GrindResult,
                     NoResult, Candidates, SaysComplete, InIteration
<1>16. CASE NoSignal
  BY <1>16, <1>a DEF NoSignal, StartHooks, Candidates, SaysComplete, InIteration
<1>17. CASE Publish
  BY <1>17, <1>a DEF Publish, Candidates, SaysComplete, InIteration
<1>18. CASE ToCheckpoint
  BY <1>18, <1>a DEF ToCheckpoint, ClearInterject, Candidates, SaysComplete,
                     InIteration
<1>19. CASE NoCheckpoint
  BY <1>19, <1>a DEF NoCheckpoint, Candidates, SaysComplete, InIteration
<1>20. CASE Continue
  BY <1>20, <1>a DEF Continue, SendPrompt, Candidates, SaysComplete, InIteration
<1>21. CASE CheckpointContinue
  BY <1>21, <1>a DEF CheckpointContinue, SendPrompt, Candidates, SaysComplete,
                     InIteration
<1>22. CASE CheckpointAbort
  BY <1>22, <1>a DEF CheckpointAbort, GrindResult, Candidates, SaysComplete,
                     InIteration
<1>23. CASE Count
  <2>1. /\ Len(log') = Len(log) + 1
        /\ log'[Len(log) + 1].signal = answer.signal
        /\ log'[Len(log) + 1].cut = answer.cut
    BY <1>23, <1>a, Counting
  <2> QED
    BY <1>23, <1>a, <2>1 DEF Count, Candidates, SaysComplete
<1>24. CASE StrikeOut
  BY <1>24, <1>a DEF StrikeOut, Return, GrindResult, Candidates, SaysComplete,
                     InIteration
<1>25. CASE ReturnCandidate
  BY <1>25, <1>a DEF ReturnCandidate, Return, GrindResult, Candidates,
                     SaysComplete, InIteration
<1>26. CASE GoOn
  BY <1>26, <1>a DEF GoOn, InPlay, Candidates, SaysComplete, InIteration
<1>27. CASE Close
  BY <1>27, <1>a DEF Close, StopListener, GrindResult, Candidates, SaysComplete,
                     InIteration
<1>28. CASE Raise
  BY <1>28, <1>a DEF Raise, StopListener, GrindResult, Candidates, SaysComplete,
                     InIteration
<1>29. CASE Cancel
  BY <1>29, <1>a DEF Cancel, StopListener, Suspended, AtHook, NoResult,
                     Candidates, SaysComplete, InIteration
<1>30. CASE KeyPress
  BY <1>30, <1>a DEF KeyPress, Candidates, SaysComplete, InIteration
<1> QED
  BY <1>1, <1>2, <1>3, <1>4, <1>5, <1>6, <1>7, <1>8, <1>9, <1>10, <1>11, <1>12,
     <1>13, <1>14, <1>15, <1>16, <1>17, <1>18, <1>19, <1>20, <1>21, <1>22, <1>23,
     <1>24, <1>25, <1>26, <1>27, <1>28, <1>29, <1>30 DEF Next, Step, Iteration

(* Prompts and answers.                                                     *)
LEMMA AskedInv ==
    ASSUME GrindInv, Next
    PROVE  Asked'
<1> USE DEF loopVars, talkVars, hookVars, userVars
<1>a. /\ TypeOK /\ Asked
      /\ Len(outstanding) \in Nat /\ abandoned \in Nat
  BY Types DEF GrindInv
<1>1. CASE Open
  BY <1>1, <1>a DEF Open, Asked
<1>2. CASE Connect
  BY <1>2, <1>a DEF Connect, StartHooks, Asked
<1>3. CASE RunHook
  BY <1>3, <1>a DEF RunHook, AtHook, Asked
<1>4. CASE SkipHook
  BY <1>4, <1>a DEF SkipHook, Asked
<1>5. CASE HooksDone
  BY <1>5, <1>a DEF HooksDone, Asked
<1>6. CASE InitialQuery
  BY <1>6, <1>a DEF InitialQuery, Asked
<1>7. CASE InitialQueryTimesOut
  BY <1>7, <1>a DEF InitialQueryTimesOut, Return, GrindResult, Asked
<1>8. CASE NextIteration
  BY <1>8, <1>a DEF NextIteration, Unread, NoResult, Asked
<1>9. CASE LimitReached
  BY <1>9, <1>a DEF LimitReached, Return, GrindResult, Asked
<1>10. CASE Receive
  BY <1>10, <1>a DEF Receive, Asked
<1>11. CASE TimesOut
  <2>1. CASE pc = "receive"
    BY <1>11, <2>1, <1>a DEF TimesOut, CutOff, AtHook, Asked
  <2>2. CASE pc = "hooks" /\ UNCHANGED <<outstanding, abandoned>>
    BY <1>11, <2>2, <1>a DEF TimesOut, Asked
  <2>3. CASE outstanding' = Append(outstanding, "hook") /\ abandoned' = abandoned + 1
    BY <1>11, <2>3, <1>a, QueueTypes DEF TimesOut, Asked
  <2> QED
    BY <1>11, <2>1, <2>2, <2>3 DEF TimesOut, CutOff, AtHook
<1>12. CASE AbortAtSignal
  BY <1>12, <1>a DEF AbortAtSignal, ClearInterject, GrindResult, Asked
<1>13. CASE CompleteSignal
  BY <1>13, <1>a DEF CompleteSignal, KeepSignal, ClearInterject, StartHooks, Asked
<1>14. CASE Conclude
  BY <1>14, <1>a DEF Conclude, GrindResult, Asked
<1>15. CASE StuckSignal
  BY <1>15, <1>a DEF StuckSignal, KeepSignal, ClearInterject, GrindResult, Asked
<1>16. CASE NoSignal
  BY <1>16, <1>a DEF NoSignal, StartHooks, Asked
<1>17. CASE Publish
  BY <1>17, <1>a DEF Publish, Asked
<1>18. CASE ToCheckpoint
  BY <1>18, <1>a DEF ToCheckpoint, ClearInterject, Asked
<1>19. CASE NoCheckpoint
  BY <1>19, <1>a DEF NoCheckpoint, Asked
<1>20. CASE Continue
  BY <1>20, <1>a DEF Continue, SendPrompt, Asked
<1>21. CASE CheckpointContinue
  BY <1>21, <1>a DEF CheckpointContinue, SendPrompt, Asked
<1>22. CASE CheckpointAbort
  BY <1>22, <1>a DEF CheckpointAbort, GrindResult, Asked
<1>23. CASE Count
  BY <1>23, <1>a DEF Count, Asked
<1>24. CASE StrikeOut
  BY <1>24, <1>a DEF StrikeOut, Return, GrindResult, Asked
<1>25. CASE ReturnCandidate
  BY <1>25, <1>a DEF ReturnCandidate, Return, GrindResult, Asked
<1>26. CASE GoOn
  BY <1>26, <1>a DEF GoOn, InPlay, Asked
<1>27. CASE Close
  BY <1>27, <1>a DEF Close, StopListener, GrindResult, Asked
<1>28. CASE Raise
  BY <1>28, <1>a DEF Raise, StopListener, GrindResult, Asked
<1>29. CASE Cancel
  BY <1>29, <1>a DEF Cancel, StopListener, Suspended, AtHook, NoResult, Asked
<1>30. CASE KeyPress
  BY <1>30, <1>a DEF KeyPress, Asked
<1> QED
  BY <1>1, <1>2, <1>3, <1>4, <1>5, <1>6, <1>7, <1>8, <1>9, <1>10, <1>11, <1>12,
     <1>13, <1>14, <1>15, <1>16, <1>17, <1>18, <1>19, <1>20, <1>21, <1>22, <1>23,
     <1>24, <1>25, <1>26, <1>27, <1>28, <1>29, <1>30 DEF Next, Step, Iteration

(* Signals heard in earlier iterations.                                     *)
LEMMA SilenceInv ==
    ASSUME GrindInv, Next
    PROVE  Silence'
<1> USE DEF loopVars, talkVars, hookVars, userVars
<1>a. /\ TypeOK /\ Silence /\ Candidates /\ Counted /\ Justification
      /\ Len(log) \in Nat /\ iteration \in Nat /\ task_def.max_iterations \in Nat
      /\ consecutive_errors \in Nat /\ consecutive_fast_failures \in Nat
  BY Types DEF GrindInv
<1>1. CASE Open
  BY <1>1, <1>a DEF Open, Silence, LimitMeansSilence, Counted, InIteration,
                    Candidates, Justification, NoResult
<1>2. CASE Connect
  BY <1>2, <1>a DEF Connect, StartHooks, Silence, LimitMeansSilence, Counted,
                    InIteration, Candidates, Justification, NoResult
<1>3. CASE RunHook
  BY <1>3, <1>a DEF RunHook, AtHook, Silence, LimitMeansSilence, Counted,
                    InIteration, Candidates, Justification, NoResult
<1>4. CASE SkipHook
  BY <1>4, <1>a DEF SkipHook, Silence, LimitMeansSilence, Counted, InIteration,
                    Candidates, Justification, NoResult
<1>5. CASE HooksDone
  BY <1>5, <1>a DEF HooksDone, Silence, LimitMeansSilence, Counted, InIteration,
                    Candidates, Justification, NoResult
<1>6. CASE InitialQuery
  BY <1>6, <1>a DEF InitialQuery, Silence, LimitMeansSilence, Counted,
                    InIteration, Candidates, Justification, NoResult
<1>7. CASE InitialQueryTimesOut
  BY <1>7, <1>a DEF InitialQueryTimesOut, Return, GrindResult, Silence,
                    LimitMeansSilence, Counted, InIteration, Candidates,
                    Justification, NoResult
<1>8. CASE NextIteration
  BY <1>8, <1>a DEF NextIteration, Unread, NoResult, Silence, LimitMeansSilence,
                    Counted, InIteration, Candidates, Justification, NoResult
<1>9. CASE LimitReached
  BY <1>9, <1>a DEF LimitReached, Return, GrindResult, Silence,
                    LimitMeansSilence, Counted, Ended, InIteration, Candidates,
                    Justification, NoResult
<1>10. CASE Receive
  BY <1>10, <1>a DEF Receive, Silence, LimitMeansSilence, Counted, InIteration,
                     Candidates, Justification, NoResult
<1>11. CASE TimesOut
  BY <1>11, <1>a DEF TimesOut, CutOff, AtHook, NoResult, Silence,
                     LimitMeansSilence, Counted, InIteration, Candidates,
                     Justification, NoResult
<1>12. CASE AbortAtSignal
  BY <1>12, <1>a DEF AbortAtSignal, ClearInterject, GrindResult, Silence,
                     LimitMeansSilence, Counted, InIteration, Candidates,
                     Justification, NoResult
<1>13. CASE CompleteSignal
  BY <1>13, <1>a DEF CompleteSignal, KeepSignal, ClearInterject, StartHooks,
                     Silence, LimitMeansSilence, Counted, InIteration,
                     Candidates, Justification, NoResult
<1>14. CASE Conclude
  BY <1>14, <1>a DEF Conclude, GrindResult, Silence, LimitMeansSilence, Counted,
                     InIteration, Candidates, Justification, NoResult
<1>15. CASE StuckSignal
  BY <1>15, <1>a DEF StuckSignal, KeepSignal, ClearInterject, GrindResult,
                     Silence, LimitMeansSilence, Counted, InIteration,
                     Candidates, Justification, NoResult
<1>16. CASE NoSignal
  BY <1>16, <1>a DEF NoSignal, StartHooks, Silence, LimitMeansSilence, Counted,
                     InIteration, Candidates, Justification, NoResult
<1>17. CASE Publish
  BY <1>17, <1>a DEF Publish, Silence, LimitMeansSilence, Counted, InIteration,
                     Candidates, Justification, NoResult
<1>18. CASE ToCheckpoint
  BY <1>18, <1>a DEF ToCheckpoint, ClearInterject, Silence, LimitMeansSilence,
                     Counted, InIteration, Candidates, Justification, NoResult
<1>19. CASE NoCheckpoint
  BY <1>19, <1>a DEF NoCheckpoint, Silence, LimitMeansSilence, Counted,
                     InIteration, Candidates, Justification, NoResult
<1>20. CASE Continue
  BY <1>20, <1>a DEF Continue, SendPrompt, Silence, LimitMeansSilence, Counted,
                     InIteration, Candidates, Justification, NoResult
<1>21. CASE CheckpointContinue
  BY <1>21, <1>a DEF CheckpointContinue, SendPrompt, Silence, LimitMeansSilence,
                     Counted, InIteration, Candidates, Justification, NoResult
<1>22. CASE CheckpointAbort
  BY <1>22, <1>a DEF CheckpointAbort, GrindResult, Silence, LimitMeansSilence,
                     Counted, InIteration, Candidates, Justification, NoResult
<1>23. CASE Count
  <2>1. /\ Len(log') = Len(log) + 1
        /\ \A j \in 1..Len(log) : log'[j] = log[j]
    BY <1>23, <1>a, Counting
  <2>2. pc = "count" /\ pc' = "decide" /\ result' = NoResult
    BY <1>23, <1>a DEF Count, Justification
  <2> QED
    BY <1>a, <2>1, <2>2 DEF Silence, LimitMeansSilence, NoResult
<1>24. CASE StrikeOut
  BY <1>24, <1>a DEF StrikeOut, Return, GrindResult, Silence, LimitMeansSilence,
                     Counted, InIteration, Candidates, Justification, NoResult
<1>25. CASE ReturnCandidate
  BY <1>25, <1>a DEF ReturnCandidate, Return, GrindResult, Silence,
                     LimitMeansSilence, Counted, InIteration, Candidates,
                     Justification, NoResult
<1>26. CASE GoOn
  BY <1>26, <1>a DEF GoOn, InPlay, Silence, LimitMeansSilence, Counted,
                     InIteration, Candidates, Justification, NoResult
<1>27. CASE Close
  BY <1>27, <1>a DEF Close, StopListener, GrindResult, Silence,
                     LimitMeansSilence, Counted, InIteration, Candidates,
                     Justification, NoResult
<1>28. CASE Raise
  BY <1>28, <1>a DEF Raise, StopListener, GrindResult, Silence,
                     LimitMeansSilence, Counted, InIteration, Candidates,
                     Justification, NoResult
<1>29. CASE Cancel
  BY <1>29, <1>a DEF Cancel, StopListener, Suspended, AtHook, NoResult, Silence,
                     LimitMeansSilence, Counted, InIteration, Candidates,
                     Justification, NoResult
<1>30. CASE KeyPress
  BY <1>30, <1>a DEF KeyPress, Silence, LimitMeansSilence, Counted, InIteration,
                     Candidates, Justification, NoResult
<1> QED
  BY <1>1, <1>2, <1>3, <1>4, <1>5, <1>6, <1>7, <1>8, <1>9, <1>10, <1>11, <1>12,
     <1>13, <1>14, <1>15, <1>16, <1>17, <1>18, <1>19, <1>20, <1>21, <1>22, <1>23,
     <1>24, <1>25, <1>26, <1>27, <1>28, <1>29, <1>30 DEF Next, Step, Iteration

(* What a result rests on.                                                  *)
LEMMA JustificationInv ==
    ASSUME GrindInv, Next
    PROVE  Justification'
<1> USE DEF loopVars, talkVars, hookVars, userVars
<1>a. /\ TypeOK /\ Justification /\ Candidates /\ Counted
      /\ Len(log) \in Nat /\ iteration \in Nat /\ task_def.max_iterations \in Nat
      /\ consecutive_errors \in Nat /\ consecutive_fast_failures \in Nat
  BY Types DEF GrindInv
<1>1. CASE Open
  BY <1>1, <1>a DEF Open, Justification, CompletionEarned, Counted, InIteration,
                    Ended, Candidates, SaysComplete, NoResult
<1>2. CASE Connect
  BY <1>2, <1>a DEF Connect, StartHooks, Justification, CompletionEarned,
                    Counted, InIteration, Ended, Candidates, SaysComplete,
                    NoResult
<1>3. CASE RunHook
  BY <1>3, <1>a DEF RunHook, AtHook, Justification, CompletionEarned, Counted,
                    InIteration, Ended, Candidates, SaysComplete, NoResult
<1>4. CASE SkipHook
  BY <1>4, <1>a DEF SkipHook, Justification, CompletionEarned, Counted,
                    InIteration, Ended, Candidates, SaysComplete, NoResult
<1>5. CASE HooksDone
  BY <1>5, <1>a DEF HooksDone, Justification, CompletionEarned, Counted,
                    InIteration, Ended, Candidates, SaysComplete, NoResult
<1>6. CASE InitialQuery
  BY <1>6, <1>a DEF InitialQuery, Justification, CompletionEarned, Counted,
                    InIteration, Ended, Candidates, SaysComplete, NoResult
<1>7. CASE InitialQueryTimesOut
  BY <1>7, <1>a DEF InitialQueryTimesOut, Return, GrindResult, Justification,
                    CompletionEarned, Counted, InIteration, Ended, Candidates,
                    SaysComplete, NoResult
<1>8. CASE NextIteration
  BY <1>8, <1>a DEF NextIteration, Unread, NoResult, Justification,
                    CompletionEarned, Counted, InIteration, Ended, Candidates,
                    SaysComplete, NoResult
<1>9. CASE LimitReached
  BY <1>9, <1>a DEF LimitReached, Return, GrindResult, Justification,
                    CompletionEarned, Counted, InIteration, Ended, Candidates,
                    SaysComplete, NoResult
<1>10. CASE Receive
  BY <1>10, <1>a DEF Receive, Justification, CompletionEarned, Counted,
                     InIteration, Ended, Candidates, SaysComplete, NoResult
<1>11. CASE TimesOut
  BY <1>11, <1>a DEF TimesOut, CutOff, AtHook, NoResult, Justification,
                     CompletionEarned, Counted, InIteration, Ended, Candidates,
                     SaysComplete, NoResult
<1>12. CASE AbortAtSignal
  BY <1>12, <1>a DEF AbortAtSignal, ClearInterject, GrindResult, Justification,
                     CompletionEarned, Counted, InIteration, Ended, Candidates,
                     SaysComplete, NoResult
<1>13. CASE CompleteSignal
  BY <1>13, <1>a DEF CompleteSignal, KeepSignal, ClearInterject, StartHooks,
                     Justification, CompletionEarned, Counted, InIteration,
                     Ended, Candidates, SaysComplete, NoResult
<1>14. CASE Conclude
  BY <1>14, <1>a DEF Conclude, GrindResult, Justification, CompletionEarned,
                     Counted, InIteration, Ended, Candidates, SaysComplete,
                     NoResult
<1>15. CASE StuckSignal
  BY <1>15, <1>a DEF StuckSignal, KeepSignal, ClearInterject, GrindResult,
                     Justification, CompletionEarned, Counted, InIteration,
                     Ended, Candidates, SaysComplete, NoResult
<1>16. CASE NoSignal
  BY <1>16, <1>a DEF NoSignal, StartHooks, Justification, CompletionEarned,
                     Counted, InIteration, Ended, Candidates, SaysComplete,
                     NoResult
<1>17. CASE Publish
  BY <1>17, <1>a DEF Publish, Justification, CompletionEarned, Counted,
                     InIteration, Ended, Candidates, SaysComplete, NoResult
<1>18. CASE ToCheckpoint
  BY <1>18, <1>a DEF ToCheckpoint, ClearInterject, Justification,
                     CompletionEarned, Counted, InIteration, Ended, Candidates,
                     SaysComplete, NoResult
<1>19. CASE NoCheckpoint
  BY <1>19, <1>a DEF NoCheckpoint, Justification, CompletionEarned, Counted,
                     InIteration, Ended, Candidates, SaysComplete, NoResult
<1>20. CASE Continue
  BY <1>20, <1>a DEF Continue, SendPrompt, Justification, CompletionEarned,
                     Counted, InIteration, Ended, Candidates, SaysComplete,
                     NoResult
<1>21. CASE CheckpointContinue
  BY <1>21, <1>a DEF CheckpointContinue, SendPrompt, Justification,
                     CompletionEarned, Counted, InIteration, Ended, Candidates,
                     SaysComplete, NoResult
<1>22. CASE CheckpointAbort
  BY <1>22, <1>a DEF CheckpointAbort, GrindResult, Justification,
                     CompletionEarned, Counted, InIteration, Ended, Candidates,
                     SaysComplete, NoResult
<1>23. CASE Count
  BY <1>23, <1>a DEF Count, Justification, CompletionEarned, Counted,
                     InIteration, Ended, Candidates, SaysComplete, NoResult
<1>24. CASE StrikeOut
  BY <1>24, <1>a DEF StrikeOut, Return, GrindResult, Justification,
                     CompletionEarned, Counted, InIteration, Ended, Candidates,
                     SaysComplete, NoResult
<1>25. CASE ReturnCandidate
  BY <1>25, <1>a DEF ReturnCandidate, Return, GrindResult, Justification,
                     CompletionEarned, Counted, InIteration, Ended, Candidates,
                     SaysComplete, NoResult
<1>26. CASE GoOn
  BY <1>26, <1>a DEF GoOn, InPlay, Justification, CompletionEarned, Counted,
                     InIteration, Ended, Candidates, SaysComplete, NoResult
<1>27. CASE Close
  BY <1>27, <1>a DEF Close, StopListener, GrindResult, Justification,
                     CompletionEarned, Counted, InIteration, Ended, Candidates,
                     SaysComplete, NoResult
<1>28. CASE Raise
  BY <1>28, <1>a DEF Raise, StopListener, GrindResult, Justification,
                     CompletionEarned, Counted, InIteration, Ended, Candidates,
                     SaysComplete, NoResult
<1>29. CASE Cancel
  BY <1>29, <1>a DEF Cancel, StopListener, Suspended, AtHook, NoResult,
                     Justification, CompletionEarned, Counted, InIteration,
                     Ended, Candidates, SaysComplete, NoResult
<1>30. CASE KeyPress
  BY <1>30, <1>a DEF KeyPress, Justification, CompletionEarned, Counted,
                     InIteration, Ended, Candidates, SaysComplete, NoResult
<1> QED
  BY <1>1, <1>2, <1>3, <1>4, <1>5, <1>6, <1>7, <1>8, <1>9, <1>10, <1>11, <1>12,
     <1>13, <1>14, <1>15, <1>16, <1>17, <1>18, <1>19, <1>20, <1>21, <1>22, <1>23,
     <1>24, <1>25, <1>26, <1>27, <1>28, <1>29, <1>30 DEF Next, Step, Iteration

---------------------------------------------------------------------------
(* The theorems.                                                            *)

LEMMA NextInv == GrindInv /\ [Next]_vars => GrindInv'
<1> SUFFICES ASSUME GrindInv, [Next]_vars PROVE GrindInv'
  OBVIOUS
<1>1. CASE Next
  <2>1. TypeOK'
    BY <1>1, TypeInv DEF GrindInv
  <2>2. Counted' /\ Trailing' /\ Strikeout' /\ Waits'
    BY <1>1, CountedInv, TrailingInv, StrikeoutInv, WaitsInv
  <2>3. Candidates' /\ Silence' /\ Justification' /\ Asked'
    BY <1>1, CandidatesInv, SilenceInv, JustificationInv, AskedInv
  <2> QED
    BY <2>1, <2>2, <2>3 DEF GrindInv
<1>2. CASE UNCHANGED vars
  <2>1. TypeOK' /\ Counted' /\ Trailing' /\ Strikeout' /\ Waits'
    BY <1>2 DEF GrindInv, vars, loopVars, talkVars, hookVars, userVars, TypeOK,
                Counted,
                InIteration, Ended, Trailing, Strikeout, StruckOut, Waits
  <2>2. Candidates' /\ Silence' /\ Justification' /\ Asked'
    BY <1>2 DEF GrindInv, vars, loopVars, talkVars, hookVars, userVars,
                Candidates,
                SaysComplete, Silence, LimitMeansSilence, Justification, CompletionEarned,
                Asked
  <2> QED
    BY <2>1, <2>2 DEF GrindInv
<1> QED
  BY <1>1, <1>2

LEMMA Invariance == SafeSpec => []GrindInv
<1>1. GrindInv /\ [Next]_vars => GrindInv'
  BY NextInv
<1> QED
  BY InitInv, <1>1, PTL DEF SafeSpec

(* The variables of a grind always have their types: among others, no       *)
(* counter goes below zero and a result's status is one callers know.       *)
THEOREM TypeCorrect == SafeSpec => []TypeOK
<1>1. GrindInv => TypeOK
  BY DEF GrindInv
<1> QED
  BY Invariance, <1>1, PTL

(* The third error in a row ends the task with ERROR and nothing else does  *)
(* that reports an iteration, for every limit and every history of errors.  *)
THEOREM StrikesAreThree == SafeSpec => []ThreeStrikes
<1>1. ASSUME GrindInv PROVE ThreeStrikes
  <2>1. /\ Trailing /\ Strikeout
        /\ Len(log) \in Nat /\ consecutive_errors \in Nat
    BY <1>1, Types DEF GrindInv
  <2>2. \A i \in 1..Len(log) : StruckOut(i) =>
          /\ i + 2 = Len(log)
          /\ pc \in {"decide", "closing", "done", "cancelled"}
          /\ result.status \in {"none", "error"}
    BY <2>1 DEF Strikeout
  <2>3. result.status = "error" /\ result.iterations > 0 => StruckOut(Len(log) - 2)
    <3>1. consecutive_errors = 3 => StruckOut(Len(log) - 2)
      BY <2>1 DEF Trailing, StruckOut
    <3> QED
      BY <2>1, <3>1 DEF Strikeout
  <2> QED
    BY <2>2, <2>3 DEF ThreeStrikes
<1> QED
  BY Invariance, <1>1, PTL

(* COMPLETE is answered only for a COMPLETE read in the last iteration.     *)
THEOREM CompletionIsEarned == SafeSpec => []CompletionEarned
<1>1. GrindInv => CompletionEarned
  BY DEF GrindInv, Justification
<1> QED
  BY Invariance, <1>1, PTL

(* MAX_ITERATIONS is answered only when no iteration was heard to give a    *)
(* signal.                                                                  *)
THEOREM LimitIsSilence == SafeSpec => []LimitMeansSilence
<1>1. GrindInv => LimitMeansSilence
  BY DEF GrindInv, Silence
<1> QED
  BY Invariance, <1>1, PTL

(* However long the task and whatever times out, the loop is at most one    *)
(* answer ahead, unless a hook's answer was left unread.                    *)
THEOREM StaysInStep == SafeSpec => []AnswersInStep
<1>1. GrindInv => AnswersInStep
  BY DEF GrindInv, Asked, AnswersInStep
<1> QED
  BY Invariance, <1>1, PTL

(* The exit for fast failures is never taken after a backoff.               *)
THEOREM FastExitUnslept == SafeSpec => []FastExitWithoutBackoff
<1>1. GrindInv => FastExitWithoutBackoff
  BY DEF GrindInv, Waits, FastExitWithoutBackoff
<1> QED
  BY Invariance, <1>1, PTL

(* Whose request the flag is.  That of an earlier grind outlives the start  *)
(* of this one only where nobody listens.                                   *)
KeyMeant ==
    /\ interject <=> asked # "nobody"
    /\ asked = "earlier" => ~listening

LEMMA KeyMeantInv == KeyMeant /\ [Next]_vars => KeyMeant'
<1> SUFFICES ASSUME KeyMeant, [Next]_vars PROVE KeyMeant'
  OBVIOUS
<1>1. CASE Open
  BY <1>1 DEF Open, KeyMeant, userVars
<1>2. CASE KeyPress
  BY <1>2 DEF KeyPress, KeyMeant
<1>3. CASE AbortAtSignal \/ CompleteSignal \/ StuckSignal \/ ToCheckpoint
  BY <1>3 DEF AbortAtSignal, CompleteSignal, StuckSignal, ToCheckpoint, KeepSignal, ClearInterject,
              StartHooks, KeyMeant
<1>4. CASE Close \/ Raise \/ Cancel \/ CheckpointAbort
  <2>1. UNCHANGED <<interject, asked>>
    BY <1>4 DEF Close, Raise, Cancel, CheckpointAbort
  <2>2. listening' => listening
    BY <1>4 DEF Close, Raise, Cancel, CheckpointAbort, StopListener
  <2> QED
    BY <2>1, <2>2 DEF KeyMeant
<1>5. CASE \/ Connect \/ RunHook \/ SkipHook \/ HooksDone \/ InitialQuery \/ InitialQueryTimesOut
           \/ NextIteration \/ LimitReached \/ Receive \/ TimesOut \/ Conclude \/ NoSignal
           \/ Publish \/ NoCheckpoint \/ Continue \/ CheckpointContinue
           \/ Count \/ StrikeOut \/ ReturnCandidate \/ GoOn
  <2>1. UNCHANGED userVars
    BY <1>5 DEF Connect, RunHook, AtHook, SkipHook, HooksDone, InitialQuery, InitialQueryTimesOut,
                NextIteration, LimitReached, Receive, TimesOut, CutOff, Conclude, NoSignal, Publish,
                NoCheckpoint, Continue, SendPrompt, CheckpointContinue, Count, StrikeOut,
                ReturnCandidate, GoOn, StartHooks, Return
  <2> QED
    BY <2>1 DEF KeyMeant, userVars
<1>6. CASE UNCHANGED vars
  BY <1>6 DEF vars, userVars, KeyMeant
<1> QED
  BY <1>1, <1>2, <1>3, <1>4, <1>5, <1>6 DEF Next, Step, Iteration

(* A menu takes a request, and uses it up.                                  *)
LEMMA MenuTakesRequest == Next /\ MenuOpens => interject /\ asked' = "nobody"
<1> SUFFICES ASSUME Next, MenuOpens PROVE interject /\ asked' = "nobody"
  OBVIOUS
<1>1. CASE AbortAtSignal \/ CompleteSignal \/ StuckSignal \/ ToCheckpoint
  BY <1>1 DEF AbortAtSignal, CompleteSignal, StuckSignal, ToCheckpoint, KeepSignal, ClearInterject,
              StartHooks, MenuOpens, Interjected
<1>2. CASE ~(AbortAtSignal \/ CompleteSignal \/ StuckSignal \/ ToCheckpoint)
  BY <1>2 DEF Next, Step, Iteration, Open, KeyPress, StartHooks, Return, Connect, RunHook, AtHook,
              SkipHook, HooksDone, InitialQuery, InitialQueryTimesOut, NextIteration, LimitReached,
              Receive, TimesOut, CutOff, Conclude, NoSignal, Publish, NoCheckpoint, Continue,
              SendPrompt, CheckpointContinue, CheckpointAbort, Count, StrikeOut, ReturnCandidate,
              GoOn, Close, Raise, Cancel, Suspended, MenuOpens
<1> QED
  BY <1>1, <1>2

(* No menu opens by itself.  A request that an earlier grind left behind    *)
(* opens one at most, and only where the listener of this grind could not   *)
(* be started.                                                              *)
THEOREM KeyFirst == SafeSpec => CheckpointNeedsKey
<1>1. Init => KeyMeant
  BY DEF Init, KeyMeant
<1>2. KeyMeant /\ [Next]_vars => KeyMeant'
  BY KeyMeantInv
<1>3. KeyMeant /\ GrindInv /\ [Next]_vars =>
         [MenuOpens => asked = "user" \/ (asked = "earlier" /\ ~listening /\ asked' = "nobody")]_vars
  <2> SUFFICES ASSUME KeyMeant, GrindInv, Next, MenuOpens
               PROVE  asked = "user" \/ (asked = "earlier" /\ ~listening /\ asked' = "nobody")
    OBVIOUS
  <2>1. interject /\ asked' = "nobody"
    BY MenuTakesRequest
  <2>2. asked \in {"nobody", "user", "earlier"}
    BY DEF GrindInv, TypeOK
  <2> QED
    BY <2>1, <2>2 DEF KeyMeant
<1> QED
  BY <1>1, <1>2, <1>3, Invariance, PTL DEF SafeSpec, CheckpointNeedsKey

(* Every step of the loop is an attempt, the answer, the cancellation or    *)
(* nothing at all to the abstract task.                                     *)
LEMMA StepRefines == GrindInv /\ [Next]_vars => [Task!Next]_(Task!vars)
<1> SUFFICES ASSUME GrindInv, [Next]_vars PROVE [Task!Next]_(Task!vars)
  OBVIOUS
<1> USE DEF loopVars, talkVars, hookVars, userVars
<1>a. /\ TypeOK /\ Counted /\ Strikeout /\ Justification
      /\ Len(log) \in Nat /\ iteration \in Nat /\ task_def.max_iterations \in Nat
      /\ consecutive_errors \in Nat /\ result \in Results
  BY Types DEF GrindInv
<1>1. CASE Count
  <2>1. /\ pc = "count" /\ pc' = "decide" /\ task_def' = task_def
        /\ Len(log) < task_def.max_iterations /\ consecutive_errors < 3
    BY <1>1, <1>a DEF Count, Counted, InIteration, Strikeout
  <2>2. /\ Len(log') = Len(log) + 1
        /\ consecutive_errors' = IF answer.is_error THEN consecutive_errors + 1 ELSE 0
    BY <1>1, <1>a, Counting
  <2>3. answer.is_error \in BOOLEAN
    BY <1>a, Types
  <2>4. Task!Attempt(answer.is_error)
    BY <2>1, <2>2 DEF Task!Attempt
  <2> QED
    BY <2>3, <2>4 DEF Task!Next
<1>2. CASE Close
  <2>1. /\ pc = "closing" /\ pc' = "done" /\ task_def' = task_def
        /\ UNCHANGED <<log, consecutive_errors>>
        /\ result'.status \in {result.status, "error"}
    BY <1>2 DEF Close, GrindResult
  <2>2. result.status \in Task!Statuses
    BY <1>a, <2>1 DEF Justification, Results, Statuses, Task!Statuses
  <2>3. Task!Justified(result'.status)
    BY <1>a, <2>1, <2>2 DEF Justification, Strikeout, Task!Justified,
                            Task!Statuses
  <2>4. Task!Answer(result'.status) /\ result'.status \in Task!Statuses
    BY <2>1, <2>2, <2>3 DEF Task!Answer, Task!Statuses
  <2> QED
    BY <2>4 DEF Task!Next
<1>3. CASE Raise
  <2>1. /\ pc \notin {"done", "cancelled"} /\ pc' = "done" /\ task_def' = task_def
        /\ UNCHANGED <<log, consecutive_errors>>
        /\ result'.status = "error"
    BY <1>3 DEF Raise, GrindResult
  <2>2. Task!Answer("error")
    BY <2>1 DEF Task!Answer, Task!Justified
  <2> QED
    BY <2>2 DEF Task!Next, Task!Statuses
<1>4. CASE Cancel
  <2>1. /\ pc \notin {"done", "cancelled"} /\ pc' = "cancelled" /\ task_def' = task_def
        /\ UNCHANGED <<log, consecutive_errors>>
    BY <1>4 DEF Cancel, Suspended, AtHook
  <2>2. Task!Abandon
    BY <2>1 DEF Task!Abandon
  <2> QED
    BY <2>2 DEF Task!Next
<1>5. ASSUME UNCHANGED <<task_def, log, consecutive_errors>>,
             \/ pc \notin {"done", "cancelled"} /\ pc' \notin {"done", "cancelled"}
             \/ UNCHANGED <<pc, result>>
      PROVE  UNCHANGED Task!vars
  BY <1>5 DEF Task!vars
<1>6. CASE ~Count /\ ~Close /\ ~Raise /\ ~Cancel /\ Next
  <2>1. UNCHANGED <<task_def, log, consecutive_errors>>
    BY <1>6, CountAlone
  <2>2. \/ pc \notin {"done", "cancelled"} /\ pc' \notin {"done", "cancelled"}
        \/ UNCHANGED <<pc, result>>
    <3>1. CASE Open \/ Connect \/ RunHook \/ SkipHook \/ HooksDone \/ InitialQuery
               \/ InitialQueryTimesOut
      BY <3>1 DEF Open, Connect, RunHook, SkipHook, AtHook, HooksDone, StartHooks,
                  InitialQuery, InitialQueryTimesOut, Return
    <3>2. CASE NextIteration \/ LimitReached \/ Receive \/ TimesOut \/ AbortAtSignal
               \/ CompleteSignal \/ Conclude \/ StuckSignal \/ NoSignal \/ Publish
      BY <3>2 DEF NextIteration, LimitReached, Return, Receive, TimesOut, CutOff,
                  AtHook,
                  AbortAtSignal, CompleteSignal, StartHooks, Conclude, StuckSignal,
                  NoSignal, Publish
    <3>3. CASE ToCheckpoint \/ NoCheckpoint \/ Continue \/ CheckpointContinue
               \/ CheckpointAbort \/ StrikeOut \/ ReturnCandidate \/ GoOn \/ KeyPress
      BY <3>3 DEF ToCheckpoint, NoCheckpoint, Continue, SendPrompt,
                  CheckpointContinue,
                  CheckpointAbort, StrikeOut, Return, ReturnCandidate, GoOn, KeyPress
    <3> QED
      BY <1>6, <3>1, <3>2, <3>3 DEF Next, Step, Iteration
  <2> QED
    BY <1>5, <2>1, <2>2
<1>7. CASE UNCHANGED vars
  BY <1>5, <1>7 DEF vars
<1> QED
  BY <1>1, <1>2, <1>3, <1>4, <1>6, <1>7

(* The grind loop, hooks, listener, timeouts and all, implements the        *)
(* abstract task: at most max_iterations attempts, three strikes, one       *)
(* answer that the attempts justify.                                        *)
THEOREM TaskImplemented == SafeSpec => ImplementsTask
<1>1. Init => Task!Init
  <2> SUFFICES ASSUME Init PROVE Task!Init
    OBVIOUS
  <2>1. task_def.max_iterations \in Nat
    BY TaskFields DEF Init
  <2> QED
    BY <2>1 DEF Init, Task!Init
<1>2. GrindInv /\ [Next]_vars => [Task!Next]_(Task!vars)
  BY StepRefines
<1> QED
  BY <1>1, <1>2, Invariance, PTL DEF SafeSpec, ImplementsTask, Task!SafeSpec
=============================================================================
