SPECIFICATION FairSpec
CONSTANTS
    MaxSends = 2
    MaxReloads = 0
    MaxPolls = 2
PROPERTIES CancelSparesLaterSend
CHECK_DEADLOCK FALSE
