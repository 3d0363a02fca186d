\* Three jobs in one slot, three files, one kill, any number of failed runs.
CONSTANTS
    MaxJobs = 3
    Slots = 1
    MaxSaves = 3
    MaxKills = 1
CHECK_DEADLOCK FALSE
SPECIFICATION ContinuationSpec
INVARIANT FilesAreRuns
INVARIANT CheckpointBacksRun
PROPERTY ContinuationsGoByName
