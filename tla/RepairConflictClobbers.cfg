\* A second batch's apply conflict after a failed verification.
CONSTANTS
    Paths <- MCPaths
    Contents = {"base", "fix", "skip"}
    Absent = Absent
    Keep = Keep
    NoTree = NoTree
    NoTask = NoTask
    Head <- MCHead
    Green <- MCGreen
    Bypass = {"skip"}
    Dispatches <- MCDispatches
    Proposals <- MCProposals
    SensitivePathSets <- MCSensitive
    MaxBatches = 2
    HashStrict = TRUE
    CopyCrashes = FALSE
    MaxForeignEdits = 1
    MaxCrashes = 0
SPECIFICATION Spec
PROPERTIES
    ConflictKeepsForeignEdits
