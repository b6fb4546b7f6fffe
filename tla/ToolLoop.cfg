\* A supervisor and a worker invocation, with two restarts.
CONSTANTS
    s1 = s1
    Skills = {s1}
    None = None
    MaxModel = 4
    MaxTool = 3
    MaxIterations = 2
    MaxLeaf = 2
    TaskLimits <- MCTaskLimits
    Responses <- MCResponses
    MaxTurns = 2
    MaxVerify = 1
    MaxCrashes = 2
SPECIFICATION FairSpec
INVARIANTS
    LoopInv
    FinalizeReserved
    AnsweredBeforeAsking
    SpendingTracked
    UsedWasLoaded
PROPERTIES
    RunEnds
