\* Two processes on one file, new or old, with two routes; two faults and three
\* writes.
SPECIFICATION FairSpec
CONSTANTS
    None = None
    Proc = {"old", "new"}
    Route = {"r1", "r2"}
    BUSY_RETRY_ATTEMPTS = 3
    MaxFaults = 2
    MaxOps = 3
INVARIANTS UpIsMigrated PausesSurvive
PROPERTIES AllComeUp
CHECK_DEADLOCK FALSE
