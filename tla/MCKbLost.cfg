SPECIFICATION FairSpec
CONSTANTS
    Names = {n1}
    Contents = {d1}
    Models = {k1}
    Instances = {i1}
    Requests = {o1, o2}
    MaxRows = 3
    MaxRequests = 3
    MaxChanges = 0
    MaxFaults = 0
    MaxLosses = 0
    MaxCrashes = 0
    QuietSweeps = TRUE
    None = None
PROPERTIES FilesSettle
CHECK_DEADLOCK FALSE
