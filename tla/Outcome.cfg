\* Two runs over shared stores, and two troubles, each a death, a failed call or
\* a task tried again.
CONSTANTS
    r1 = r1
    r2 = r2
    f1 = f1
    None = None
    Runs = {r1, r2}
    Kinds <- MCKinds
    Facts = {f1}
    MaxTroubles = 2
SPECIFICATION FairSpec
INVARIANTS
    OutcomeInv
    CarriesOutTheDecision
    LearnsFromVerdict
    CompleteOrReported
PROPERTIES
    RunsReturn
