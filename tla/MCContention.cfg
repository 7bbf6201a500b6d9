SPECIFICATION Spec
CONSTANTS
    Conversations = {c1, c2}
    Requests = {q1, q2}
    Texts = {t1}
    Networks = {n1}
    Attempts = {a1, a2}
    Senders = {s1}
    Recoverers = {}
    Finalizer = self
    None = None
    ConcurrencyLimit = 1
    DailyLimit = 1
    MaxVersion = 1
    MaxDay = 1
    Switchable = FALSE
    MaxOutput = 0
    MaxTries = 2
SYMMETRY Symmetry
VIEW WithoutEvents
INVARIANTS OneActiveTurn LinearHistory RevisionCountsCompleted NetworkCap AllowanceExact
PROPERTIES ImplementsTurnLog
CHECK_DEADLOCK FALSE
