\* A tool turn and a structured call, two attempts each, one restart.
CONSTANTS
    None = None
    Plan <- MCPlan
    MaxAttempts = 2
    Answers <- MCAnswers
    MaxLate = 1
    MaxCrashes = 1
    MaxFaults = 1
SPECIFICATION FairSpec
INVARIANTS
    GatewayInv
    AccountedOnce
    CompleteMeansReported
PROPERTIES
    CallsEnd
