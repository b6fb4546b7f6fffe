\* One run with a third-party edit and a crash or cancellation.
CONSTANTS
    Paths <- MCPaths
    Contents = {"base", "fix", "skip"}
    Absent = Absent
    Keep = Keep
    NoTree = NoTree
    NoTask = NoTask
    Head <- MCHead
    Green <- MCGreen
    Bypass = {"skip"}
    Dispatches <- MCDispatches
    Proposals <- MCProposals
    SensitivePathSets <- MCSensitive
    MaxBatches = 3
    HashStrict = TRUE
    CopyCrashes = FALSE
    MaxForeignEdits = 1
    MaxCrashes = 1
SPECIFICATION Spec
INVARIANTS
    RepairInv
    VerifiedSuccess
    NoBypassInSuccess
    SuccessOnlyByRepair
    RejectedLeavesNoTrace
    FailedRunIsClean
PROPERTIES
    ApplyKeepsForeignContent
    ApprovedBeforeWrite
