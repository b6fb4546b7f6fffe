\* What usage_complete says of the calls, without restart or lost event.
CONSTANTS
    None = None
    Plan <- MCPlan
    MaxAttempts = 1
    Answers <- MCAnswers
    MaxLate = 0
    MaxCrashes = 0
    MaxFaults = 0
SPECIFICATION Spec
INVARIANTS
    CompleteCoversCalls
