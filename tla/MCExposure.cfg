SPECIFICATION Spec
CONSTANTS
    Conversations = {c1}
    Requests = {q1}
    Texts = {t1}
    Networks = {n1}
    Attempts = {a1}
    Senders = {s1}
    Recoverers = {}
    Finalizer = self
    None = None
    ConcurrencyLimit = 1
    DailyLimit = 1
    MaxVersion = 1
    MaxDay = 0
    Switchable = FALSE
    MaxOutput = 0
    MaxTries = 1
SYMMETRY Symmetry
INVARIANTS UsageBeforeSuccess
CHECK_DEADLOCK FALSE
