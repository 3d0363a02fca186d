\* Every choice of backends, for commands and for tests.
CONSTANTS
    CommandBackends = {"direct", "docker", "microsandbox"}
    TestBackends = {"direct", "docker", "microsandbox"}
    MaxCalls = 3
    MaxEdits = 1
    MaxKills = 1
CHECK_DEADLOCK FALSE
SPECIFICATION SandboxSpec
INVARIANT HostIsKnown
INVARIANT FittingTestsSeeTheirCopy
INVARIANT CommandsShareTheirWork
