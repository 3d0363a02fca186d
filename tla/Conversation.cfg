\* Two deletions, two messages, two jobs, one lost post or failed copy.
CONSTANTS
    w1 = w1
    none = none
    d1 = d1
    d2 = d2
    MaxJobs = 2
    MaxAttempts = 1
    Workers = {w1}
    NoWorker = none
    Recoverers = {}
    MaxMsgs = 2
    Deleters = {d1, d2}
    MaxClears = 1
    Copies = {"none", "node"}
    MaxLosses = 1
CHECK_DEADLOCK FALSE
SPECIFICATION ConversationFairSpec
INVARIANT SnapshotsAreSound
PROPERTY DeferredDeleteWaits
PROPERTY PendingDeleteGoes
