\* Two routes of one source, one event sent three times, two requests at once;
\* a fault and two operator actions.
SPECIFICATION Spec
CONSTANTS
    None = None
    q1 = q1
    q2 = q2
    Key <- Keys
    Route = {"r1", "r2"}
    Inst = {}
    MaxId = 2
    MaxAttempts = 0
    Event = {"e1"}
    Source = {"payabli"}
    SourceOf <- OneSource
    Req = {q1, q2}
    MaxSends = 3
    MaxFaults = 1
    MaxOps = 2
SYMMETRY Slots
INVARIANTS AckedIsKept PanicTakesHold
CHECK_DEADLOCK FALSE
