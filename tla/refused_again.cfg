\* One relay, one event; a store call fails between the answer that refuses the
\* event and its record, and the batch is posted again.
SPECIFICATION Spec
CONSTANTS
    None = None
    Key = {"k1"}
    Route = {"r1"}
    Inst = {"relay"}
    MaxId = 1
    MaxAttempts = 0
    Arrivals <- OneRoute
    Undecodable = {}
    RecordName <- SameNames
    EventName <- SameNames
    ReusesIds = TRUE
    BatchMax = 2
    LeaseMs = 1
    RecoverIntervalMs = 1
    ParkAfterMs = 1
    BackoffBaseMs = 1
    BackoffCapMs = 2
    WipeAfterMs = 0
    DeleteAfterMs = 1
    IN_REQUEST_RETRIES = 0
    RESULT_POLL_ATTEMPTS = 1
    StartTime = 1
    Horizon = 3
    MaxFaults = 1
    MaxOutages = 0
    MaxOps = 0
    Outlasts = {"lease", "retry"}
    Restarts = {"relay"}
INVARIANTS RefusedNotDelivered
CHECK_DEADLOCK FALSE
