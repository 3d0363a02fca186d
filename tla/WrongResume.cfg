\* Two jobs, one after the other; the first is cancelled.
CONSTANTS
    MaxJobs = 2
    Slots = 1
    MaxSaves = 3
    MaxKills = 1
CHECK_DEADLOCK FALSE
SPECIFICATION ContinuationSpec
PROPERTY ResumesOwnExecution
