SPECIFICATION CompareSpec
CONSTANTS
    x = x
    y = y
    gpt_4 = gpt_4
    gpt4 = gpt4
    opus = opus
    Models = {gpt_4, gpt4, opus}
    Ids = {x, y}
    Name <- TwoOfOneName
INVARIANTS
    GrindsInOwnWorktree
    LeavesNoTrace
\* run_compare has returned or was cancelled.
CHECK_DEADLOCK FALSE
