\* One relay on a shared store and one event that may fail and come due again;
\* up to three calls of the host and operator actions, one failure, one batch
\* to prune.
SPECIFICATION FairSpec
CONSTANTS
    Event = {"e1"}
    Route = {"r1"}
    RouteOf <- SameRoute
    BatchMax = 1
    MaxPrunes = 1
    MaxOps = 3
    MaxFaults = 1
    MaxRipe = 1
INVARIANTS WakeIsScheduled StoppedIsQuiet
PROPERTIES SignalIsSeen FlushAloneReturns StopReturns
CHECK_DEADLOCK FALSE
