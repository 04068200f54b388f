---------------------------- MODULE ProviderRunMC ----------------------------
(* Tasks for model-checking ProviderRun.                                    *)
EXTENDS ProviderRun

CONSTANT o1

Free == [max_tool_calls |-> Unlimited, max_wall_time_s |-> Unlimited,
         parent_tool_calls |-> Unlimited, parent_wall_time_s |-> Unlimited,
         required_outputs |-> {}]

Task3x4(contract) == [max_iterations |-> 3, max_turns |-> 4, contract |-> contract]
Task3x3(contract) == [max_iterations |-> 3, max_turns |-> 3, contract |-> contract]

(* Two iterations can be used up before the turns, and three or four turns  *)
(* before the iterations; one contract for each thing it can limit.         *)
Tasks == {
    [max_iterations |-> 2, max_turns |-> 3, contract |-> Free],
    Task3x4([Free EXCEPT !.required_outputs = {o1}, !.max_tool_calls = 1]),
    Task3x3([Free EXCEPT !.max_wall_time_s = 2, !.parent_tool_calls = 1]),
    Task3x3([Free EXCEPT !.max_tool_calls = 2, !.parent_tool_calls = 1])}

==============================================================================
