--------------------------- MODULE OrchestratorMC ---------------------------
(* Event types, subscriptions and registries for model-checking. *)
EXTENDS Orchestrator

CONSTANTS a, b, h1, h2

RunEvents == {"agent_started", "agent_completed", "agent_failed"}

Both == [t \in RunEvents |-> <<h1, h2>>]

\* Everybody listens to everything, or only to the completions.
Subscriptions ==
    {Both, [[t \in RunEvents |-> <<>>] EXCEPT !["agent_completed"] = <<h1, h2>>]}

CallerSymmetry == Permutations(Publishers)

Registries == {<<a>>, <<a, b>>}
=============================================================================
