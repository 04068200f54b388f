---------------------------- MODULE GrindLoopMC ----------------------------
(* Task definitions for model-checking the grind loop. *)
EXTENDS GrindLoop

Slash(trigger) == [trigger |-> trigger, trigger_count |-> 1]
EveryOther == [trigger |-> "every_n", trigger_count |-> 2]

Plain(max) ==
    [max_iterations |-> max, interactive |-> FALSE, contract |-> FALSE,
     pre_grind |-> <<>>, post_iteration |-> <<>>, post_grind |-> <<>>]

\* Four iterations are one more than the three strikes need.
Simple == Plain(4)
Attended == [Plain(4) EXCEPT !.interactive = TRUE, !.contract = TRUE]
Hooked == [Plain(3) EXCEPT !.contract = TRUE,
    !.pre_grind = <<Slash("every")>>,
    !.post_iteration = <<EveryOther>>,
    !.post_grind = <<Slash("every")>>]
Triggered == [Plain(2) EXCEPT !.interactive = TRUE,
    !.pre_grind = <<Slash("once")>>,
    !.post_iteration = <<Slash("on_error"), Slash("once")>>,
    !.post_grind = <<Slash("on_success"), Slash("every")>>]

Tasks == {Plain(0), Simple, Attended, Hooked, Triggered}
=============================================================================
