\* A resumed worker reports the skills of its interrupted first try as used.
CONSTANTS
    s1 = s1
    Skills = {s1}
    None = None
    MaxModel = 4
    MaxTool = 3
    MaxIterations = 2
    MaxLeaf = 2
    TaskLimits <- MCTaskLimits
    Responses <- MCResponses
    MaxTurns = 2
    MaxVerify = 1
    MaxCrashes = 1
SPECIFICATION Spec
INVARIANTS
    ReportsOwnUses
