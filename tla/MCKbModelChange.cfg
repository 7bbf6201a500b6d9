SPECIFICATION FairSpec
CONSTANTS
    Names = {n1}
    Contents = {d1}
    Models = {k1, k2}
    Instances = {i1}
    Requests = {o1}
    MaxRows = 2
    MaxRequests = 1
    MaxChanges = 1
    MaxFaults = 0
    MaxLosses = 0
    MaxCrashes = 0
    QuietSweeps = FALSE
    None = None
PROPERTIES ModelChangeReembeds
CHECK_DEADLOCK FALSE
