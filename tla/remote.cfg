\* Two lookups, two requests (the code keeps to one), two documents.
SPECIFICATION FairSpec
CONSTANTS
    None = None
    Lookup = {"l1", "l2"}
    Slot = {1, 2}
    MaxVersion = 2
    MaxShifts = 3
PROPERTIES DocumentNeverGoesBack FailsOnlyUnloaded ComesToRunIt
