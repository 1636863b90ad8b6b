\* One relay; the route's mapping takes external_id from a payload field that
\* is not the event id.
SPECIFICATION Spec
CONSTANTS
    None = None
    Key = {"k1", "k2"}
    Route = {"r1"}
    Inst = {"relay"}
    MaxId = 2
    MaxAttempts = 1
    Arrivals <- OneRoute
    Undecodable = {}
    RecordName <- OtherNames
    EventName <- SameNames
    ReusesIds = TRUE
    BatchMax = 2
    LeaseMs = 1
    RecoverIntervalMs = 1
    ParkAfterMs = 1
    BackoffBaseMs = 1
    BackoffCapMs = 2
    WipeAfterMs = 0
    DeleteAfterMs = 1
    IN_REQUEST_RETRIES = 1
    RESULT_POLL_ATTEMPTS = 2
    StartTime = 1
    Horizon = 4
    MaxFaults = 0
    MaxOutages = 0
    MaxOps = 0
    Outlasts = {"lease", "retry"}
    Restarts = {"relay"}
INVARIANTS RefusedNotDelivered
CHECK_DEADLOCK FALSE
