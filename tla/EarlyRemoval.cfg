\* A message is marked for deletion while the job of another message uses it.
CONSTANTS
    w1 = w1
    none = none
    d1 = d1
    d2 = d2
    MaxJobs = 2
    MaxAttempts = 1
    Workers = {w1}
    NoWorker = none
    Recoverers = {}
    MaxMsgs = 2
    Deleters = {d1, d2}
    MaxClears = 1
    Copies = {"node"}
    MaxLosses = 1
CHECK_DEADLOCK FALSE
SPECIFICATION ConversationSpec
PROPERTY FrozenMessageStays
