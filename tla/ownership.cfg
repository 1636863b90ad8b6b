\* One relay that End Close manages; a check is cut short between the next document
\* and its hash, and the relay restarts into an outage.
SPECIFICATION Spec
CONSTANTS
    None = None
    Local = {"mine"}
    Remote = {"theirs", "other"}
    Old = "old"
    RoutesOf <- Routes
    Secretive = {"theirs"}
    Seeds = {"mine", None}
    Environments <- Environment
    Tags = {TRUE}
    Interrupts = {"saved"}
    MaxOps = 1
    MaxStops = 1
    MaxShifts = 2
INVARIANTS OwnershipSurvives
CHECK_DEADLOCK FALSE
