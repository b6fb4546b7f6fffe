\* Up to two commands, or two attempts of the official tests, and two failing operations.
CONSTANTS
    c1 = c1
    c2 = c2
    t1 = t1
    t2 = t2
    t3 = t3
    None = None
    Inputs <- MCInputs
    Budgets = {0, 1, 2}
    FailToPass = {t1, t3}
    PassToPass = {t2}
    PtpRetries = 1
    MaxFaults = 2
SPECIFICATION FairSpec
INVARIANTS
    VerificationInv
    VerdictMatchesRuns
    FailBeforePassAfter
PROPERTIES
    VerificationEnds
