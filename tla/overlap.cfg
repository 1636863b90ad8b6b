\* Two replicas, a backoff shorter than the lease, as in the shipped settings: an
\* event that a batch has put back comes due while the batch is still at work.
SPECIFICATION Spec
CONSTANTS
    None = None
    Key = {"k1"}
    Route = {"r1"}
    Inst = {a, b}
    MaxId = 1
    MaxAttempts = 0
    Arrivals <- OneRoute
    Undecodable = {}
    RecordName <- SameNames
    EventName <- SameNames
    ReusesIds = TRUE
    BatchMax = 2
    LeaseMs = 2
    RecoverIntervalMs = 1
    ParkAfterMs = 2
    BackoffBaseMs = 1
    BackoffCapMs = 1
    WipeAfterMs = 6
    DeleteAfterMs = 6
    IN_REQUEST_RETRIES = 0
    RESULT_POLL_ATTEMPTS = 1
    StartTime = 1
    Horizon = 4
    MaxFaults = 0
    MaxOutages = 0
    MaxOps = 0
    Outlasts = {"retry"}
    Restarts = {a}
    a = a
    b = b
INVARIANTS LeaseIsExclusive
CHECK_DEADLOCK FALSE
