SPECIFICATION FairSpec
CONSTANTS
    Conversations = {c1}
    Requests = {q1}
    Texts = {t1}
    Networks = {n1}
    Attempts = {a1}
    Senders = {s1}
    Recoverers = {r1}
    Finalizer = self
    None = None
    ConcurrencyLimit = 1
    DailyLimit = 1
    MaxVersion = 1
    MaxDay = 0
    Switchable = FALSE
    MaxOutput = 2
    MaxTries = 1
INVARIANTS TypeOK SuccessIsRecorded UsageOnce CompletedTextAccounted
PROPERTIES EndedIsFinal CancelTakesEffect AttemptsEnd UsageEventuallyRecorded
CHECK_DEADLOCK FALSE
