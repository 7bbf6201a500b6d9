SPECIFICATION FairSpec
CONSTANTS
    Names = {n1, n2}
    Contents = {d1, d2}
    Models = {k1}
    Instances = {i1}
    Requests = {o1}
    MaxRows = 6
    MaxRequests = 4
    MaxChanges = 0
    MaxFaults = 0
    MaxLosses = 1
    MaxCrashes = 1
    QuietSweeps = TRUE
    None = None
INVARIANTS ReadyMatchesUntilCrash
PROPERTIES FilesSettle
CHECK_DEADLOCK FALSE
