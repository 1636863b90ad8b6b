\* relayctl config edit left alone, of a document without a newline at its end.
SPECIFICATION Spec
CONSTANTS
    None = None
    Text = {"cut", "whole", "starter"}
    Broken = "broken"
    Refused = {"starter"}
    Starter = "starter"
    Blank = "starter"
    Unterminated = {"cut"}
    Newline <- AddNewline
    LoadSlot = {1, 2}
    PollSlot = {1}
    SaveSlot = {1, 2}
    WaitPolls = 2
    MaxOps = 3
INVARIANTS UnchangedEditAppliesNothing
CHECK_DEADLOCK FALSE
