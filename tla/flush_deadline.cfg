\* One relay whose loop runs while its host flushes; the loop is woken again and
\* again during its own cycles.
SPECIFICATION FairSpec
CONSTANTS
    Event = {"e1"}
    Route = {"r1"}
    RouteOf <- SameRoute
    BatchMax = 1
    MaxPrunes = 1
    MaxOps = 2
    MaxFaults = 0
    MaxRipe = 0
PROPERTIES FlushReturns
CHECK_DEADLOCK FALSE
