\* Two files, one text with two kinds of line ends and another text, two
\* writes of other hands, two kills.
CONSTANTS
    MaxPath = 2
    Texts = {"lf", "crlf", "other"}
    Absent = "absent"
    Decoded <- LineEnds
    MaxEdits = 2
    MaxKills = 2
CHECK_DEADLOCK FALSE
SPECIFICATION ChangeSpec
INVARIANT ChangeTypeOK
INVARIANT FailedLeavesNoTrace
INVARIANT SuccessIsOnDisk
PROPERTY OverwritesOnlyConfirmed
