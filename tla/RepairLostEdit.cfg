\* A third-party edit between apply_candidate's look at a file and its write.
CONSTANTS
    Paths <- MCPaths
    Contents = {"base", "fix", "skip"}
    Absent = Absent
    Keep = Keep
    NoTree = NoTree
    NoTask = NoTask
    Head <- MCHead
    Green <- MCGreen
    Bypass = {"skip"}
    Dispatches <- MCDispatches
    Proposals <- MCProposals
    SensitivePathSets <- MCSensitive
    MaxBatches = 2
    HashStrict = TRUE
    CopyCrashes = FALSE
    MaxForeignEdits = 1
    MaxCrashes = 0
SPECIFICATION Spec
PROPERTIES
    ApplyLosesNoEdit
