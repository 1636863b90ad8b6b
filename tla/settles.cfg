\* One relay, two routes, one payload that cannot be decoded; a store call
\* fails and the process dies or is stopped once.  Terminal rows are deleted at
\* the next tick, and their ids go to the events that arrive then.
SPECIFICATION FairSpec
CONSTANTS
    None = None
    Key = {"k1", "k2"}
    Route = {"r1", "r2"}
    Inst = {"relay"}
    MaxId = 2
    MaxAttempts = 1
    Arrivals <- RouteEach
    Undecodable = {"k2"}
    RecordName <- SameNames
    EventName <- SameNames
    ReusesIds = TRUE
    BatchMax = 2
    LeaseMs = 1
    RecoverIntervalMs = 1
    ParkAfterMs = 0
    BackoffBaseMs = 1
    BackoffCapMs = 2
    WipeAfterMs = 6
    DeleteAfterMs = 0
    IN_REQUEST_RETRIES = 0
    RESULT_POLL_ATTEMPTS = 1
    StartTime = 1
    Horizon = 3
    MaxFaults = 1
    MaxOutages = 1
    MaxOps = 0
    Outlasts = {"lease", "retry"}
    Restarts = {"relay"}
INVARIANTS NoOrphanedClaim
PROPERTIES EventuallySettled
CHECK_DEADLOCK FALSE
