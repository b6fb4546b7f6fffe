\* A crash between two writes, then a cancelled replay, in a run nobody else writes to.
CONSTANTS
    Paths <- MCPaths
    Contents = {"base", "fix", "skip"}
    Absent = Absent
    Keep = Keep
    NoTree = NoTree
    NoTask = NoTask
    Head <- MCHead
    Green <- MCGreen
    Bypass = {"skip"}
    Dispatches <- MCDispatches
    Proposals <- MCProposals
    SensitivePathSets <- MCSensitive
    MaxBatches = 2
    HashStrict = TRUE
    CopyCrashes = FALSE
    MaxForeignEdits = 0
    MaxCrashes = 2
SPECIFICATION Spec
INVARIANTS
    ConflictUndoesTheAttempt
