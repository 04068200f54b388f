----------------------------- MODULE GrindTask -----------------------------
(***************************************************************************)
(* What grind() promises about one task, whatever drives the agent: it     *)
(* makes at most `limit` attempts, gives up after three attempts in a row  *)
(* that ended in an API error, and answers once with a status that the     *)
(* attempts made justify.                                                  *)
(***************************************************************************)
EXTENDS Integers

VARIABLES
    limit,      \* task_def.max_iterations
    attempts,   \* iterations counted so far
    strikes,    \* errors in a row at the end of them
    verdict     \* the GrindStatus answered, "none" before that

vars == <<limit, attempts, strikes, verdict>>

Statuses == {"complete", "stuck", "max_iterations", "error"}

Init ==
    /\ limit \in Nat
    /\ attempts = 0
    /\ strikes = 0
    /\ verdict = "none"

\* One more iteration, which ended in an API error or did not.
Attempt(bad) ==
    /\ verdict = "none"
    /\ attempts < limit
    /\ strikes < 3
    /\ attempts' = attempts + 1
    /\ strikes' = IF bad THEN strikes + 1 ELSE 0
    /\ UNCHANGED <<limit, verdict>>

\* The agent's own word needs an attempt, the limit needs all of them, and
\* after three strikes only an error can be answered.
Justified(status) ==
    \/ status = "error"
    \/ status \in {"complete", "stuck"} /\ attempts > 0 /\ strikes < 3
    \/ status = "max_iterations" /\ attempts = limit /\ strikes < 3

Answer(status) ==
    /\ verdict = "none"
    /\ Justified(status)
    /\ verdict' = status
    /\ UNCHANGED <<limit, attempts, strikes>>

\* The caller may cancel the coroutine instead of waiting for the answer, and an
\* exception may leave it without one.
Abandon ==
    /\ verdict = "none"
    /\ verdict' = "cancelled"
    /\ UNCHANGED <<limit, attempts, strikes>>

Next ==
    \/ \E bad \in BOOLEAN : Attempt(bad)
    \/ \E status \in Statuses : Answer(status)
    \/ Abandon

SafeSpec == Init /\ [][Next]_vars

\* Every task is answered or cancelled.
Concludes == <>(verdict # "none")

Spec == SafeSpec /\ Concludes
=============================================================================
