\* One relay on a shared store and one event; another instance has it in hand when
\* flush looks at the backlog.
SPECIFICATION Spec
CONSTANTS
    Event = {"e1"}
    Route = {"r1"}
    RouteOf <- SameRoute
    BatchMax = 1
    MaxPrunes = 1
    MaxOps = 1
    MaxFaults = 0
    MaxRipe = 0
PROPERTIES DrainedMeansSettled
CHECK_DEADLOCK FALSE
