\* A reader that meets the gap in a save stores the default configuration over it.
SPECIFICATION ConfigSpec
CONSTANTS
    Clients = {k1, k2}
    MaxOps = 3
    MaxFaults = 0
INVARIANT DefaultOnlyIfNone
CHECK_DEADLOCK FALSE
