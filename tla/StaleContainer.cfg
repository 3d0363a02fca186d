\* A host with Docker and without Bubblewrap: commands and tests share it.
CONSTANTS
    CommandBackends = {"docker"}
    TestBackends = {"docker"}
    MaxCalls = 3
    MaxEdits = 1
    MaxKills = 0
CHECK_DEADLOCK FALSE
SPECIFICATION SandboxSpec
INVARIANT TestsSeeTheirCopy
