\* Two replicas, of which b never comes back after an outage.  The backoff is
\* shorter than the lease, as in the shipped settings, but no batch is still at
\* work when its lease runs out or when an event it has put back comes due.  No
\* symmetry: the replicas differ, and a property is temporal.
SPECIFICATION FairSpec
CONSTANTS
    None = None
    Key = {"k1"}
    Route = {"r1"}
    Inst = {a, b}
    MaxId = 1
    MaxAttempts = 0
    Arrivals <- OneRoute
    Undecodable = {}
    RecordName <- SameNames
    EventName <- SameNames
    ReusesIds = TRUE
    BatchMax = 2
    LeaseMs = 2
    RecoverIntervalMs = 1
    ParkAfterMs = 2
    BackoffBaseMs = 1
    BackoffCapMs = 1
    WipeAfterMs = 6
    DeleteAfterMs = 6
    IN_REQUEST_RETRIES = 0
    RESULT_POLL_ATTEMPTS = 1
    StartTime = 1
    Horizon = 4
    MaxFaults = 0
    MaxOutages = 1
    MaxOps = 0
    Outlasts = {}
    Restarts = {a}
    a = a
    b = b
INVARIANTS LeaseIsExclusive
PROPERTIES DeliveredIsFinal EveryClaimEnds
CHECK_DEADLOCK FALSE
