\* One explore and one build operation, two results, one effect, one kill.
CONSTANTS
    e1 = e1
    b1 = b1
    r1 = r1
    r2 = r2
    none = none
    Explores = {e1}
    Builds = {b1}
    Results = {r1}
    NoResult = none
    Limit = 9
    Costs = {2, 3}
    MaxEffects = 1
    MaxGates = 2
    MaxGens = 6
    MaxCrashes = 1
    MaxSilent = 2
CHECK_DEADLOCK FALSE
SPECIFICATION AgentFairSpec
INVARIANT SessionIsTrue
INVARIANT BudgetHolds
PROPERTY CheckpointsAdvance
PROPERTY JobsRest
