\* A cancellation during verification.
CONSTANTS
    Paths <- MCPaths
    Contents = {"base", "fix", "skip"}
    Absent = Absent
    Keep = Keep
    NoTree = NoTree
    NoTask = NoTask
    Head <- MCHead
    Green <- MCGreen
    Bypass = {"skip"}
    Dispatches <- MCDispatches
    Proposals <- MCProposals
    SensitivePathSets <- MCSensitive
    MaxBatches = 2
    HashStrict = TRUE
    CopyCrashes = FALSE
    MaxForeignEdits = 0
    MaxCrashes = 1
SPECIFICATION Spec
INVARIANTS
    VerifiesTheCandidate
