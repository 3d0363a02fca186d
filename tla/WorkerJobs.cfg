\* Three circumstances: processes one after the other, one of which is killed or
\* late at any point; two punctual processes side by side with two jobs; and two
\* side by side that are late at any point, with one job.
CONSTANTS
    w1 = w1
    w2 = w2
    none = none
    MaxJobs = 2
    MaxAttempts = 2
    Workers = {w1, w2}
    Recoverers = {w1, w2}
    NoWorker = none
    Settings <- Circumstances
CHECK_DEADLOCK FALSE
SPECIFICATION WorkerFairSpec
INVARIANT QueueTypeOK
INVARIANT CancelBeatsResult
 
INVARIANT CompletedHasReply
INVARIANT CancelDecides
PROPERTY ClosedJobIsFinal
PROPERTY LifecycleSpec
 
