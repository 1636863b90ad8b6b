\* One relay, one event that was parked and that an operator replays after its
\* retry window, counted from its receipt, has closed.
SPECIFICATION Spec
CONSTANTS
    None = None
    Key = {"k1"}
    Route = {"r1"}
    Inst = {"relay"}
    MaxId = 2
    MaxAttempts = 1
    Arrivals <- OneRoute
    Undecodable = {}
    RecordName <- SameNames
    EventName <- SameNames
    ReusesIds = TRUE
    BatchMax = 2
    LeaseMs = 1
    RecoverIntervalMs = 1
    ParkAfterMs = 1
    BackoffBaseMs = 1
    BackoffCapMs = 2
    WipeAfterMs = 0
    DeleteAfterMs = 1
    IN_REQUEST_RETRIES = 1
    RESULT_POLL_ATTEMPTS = 2
    StartTime = 1
    Horizon = 4
    MaxFaults = 0
    MaxOutages = 0
    MaxOps = 1
    Outlasts = {"lease", "retry"}
    Restarts = {"relay"}
PROPERTIES ParksWhatRetried
CHECK_DEADLOCK FALSE
