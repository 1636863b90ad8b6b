\* One relay: an empty, an old or a local configuration, a document of End Close's that
\* needs a secret and one that does not; two operator actions or failed writes, one crash
\* or stop, one change at End Close.
SPECIFICATION FairSpec
CONSTANTS
    None = None
    Local = {"mine"}
    Remote = {"theirs", "other"}
    Old = "old"
    RoutesOf <- Routes
    Secretive = {"theirs"}
    Seeds = {"mine", None}
    Environments <- Environment
    Tags = {TRUE, FALSE}
    Interrupts = {"saved", "untagged", "done"}
    MaxOps = 2
    MaxStops = 1
    MaxShifts = 1
INVARIANTS NoGhostPause TagDescribesStored RecoveryHeld RecordedOwnershipSurvives
PROPERTIES ComesToRunEndCloses SourceIsReported
CHECK_DEADLOCK FALSE
