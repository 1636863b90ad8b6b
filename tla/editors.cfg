\* A tab with two loads, two applies and a poll under way, relayctl, and End Close, on a
\* relay that runs, has nothing, or cannot use what it has.
SPECIFICATION FairSpec
CONSTANTS
    None = None
    Text = {"old", "starter"}
    Broken = "broken"
    Refused = {"old"}
    Starter = "starter"
    Blank = "starter"
    Unterminated = {}
    Newline <- AddNewline
    LoadSlot = {1, 2}
    PollSlot = {1}
    SaveSlot = {1, 2}
    WaitPolls = 2
    MaxOps = 3
INVARIANTS PostsWhatWasClicked
PROPERTIES EveryApplyEnds
CHECK_DEADLOCK FALSE
