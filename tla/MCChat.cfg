SPECIFICATION FairSpec
CONSTANTS
    MaxSends = 2
    MaxReloads = 1
    MaxPolls = 2
INVARIANTS SentOnce AcceptedIsRecoverable NewChatIsClean BusyHasOwner
PROPERTIES CancelledNotResent EverythingSettles
CHECK_DEADLOCK FALSE
