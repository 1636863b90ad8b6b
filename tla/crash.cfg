\* One relay on SQLite, two events in a batch: a store call fails, the process
\* dies or is stopped, answers are lost, batches are posted again, retention runs.
SPECIFICATION Spec
CONSTANTS
    None = None
    Key = {"k1", "k2"}
    Route = {"r1"}
    Inst = {"relay"}
    MaxId = 2
    MaxAttempts = 0
    Arrivals <- OneRoute
    Undecodable = {}
    RecordName <- SameNames
    EventName <- SameNames
    ReusesIds = TRUE
    BatchMax = 2
    LeaseMs = 1
    RecoverIntervalMs = 1
    ParkAfterMs = 1
    BackoffBaseMs = 1
    BackoffCapMs = 2
    WipeAfterMs = 0
    DeleteAfterMs = 1
    IN_REQUEST_RETRIES = 0
    RESULT_POLL_ATTEMPTS = 1
    StartTime = 1
    Horizon = 3
    MaxFaults = 1
    MaxOutages = 1
    MaxOps = 0
    Outlasts = {"lease", "retry"}
    Restarts = {"relay"}
INVARIANTS TypeOK NoOrphanedClaim DeliveredWasAccepted NothingLost RefusalIsHeeded
PROPERTIES KeepsPromise
CHECK_DEADLOCK FALSE
