\* One relay with a stored document its schema no longer accepts; an operator repairs
\* it, and the process dies between the document and the killswitch.
SPECIFICATION Spec
CONSTANTS
    None = None
    Local = {"mine"}
    Remote = {"theirs", "other"}
    Old = "old"
    RoutesOf <- Routes
    Secretive = {"theirs"}
    Seeds = {"mine", None}
    Environments <- Environment
    Tags = {TRUE, FALSE}
    Interrupts = {"saved", "untagged", "done"}
    MaxOps = 1
    MaxStops = 1
    MaxShifts = 0
INVARIANTS RepairComesUpPaused
CHECK_DEADLOCK FALSE
