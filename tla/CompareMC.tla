----------------------------- MODULE CompareMC -----------------------------
(* Models for model-checking compare: two of one name, one of another. *)
EXTENDS Compare, TLC

CONSTANTS x, y, gpt_4, gpt4, opus

TwoOfOneName == gpt_4 :> x @@ gpt4 :> x @@ opus :> y
=============================================================================
