\* One learning process at a time: three sound candidates, an unsound one, two deaths.
CONSTANTS
    w1 = w1
    w2 = w2
    v1 = v1
    v2 = v2
    v3 = v3
    v4 = v4
    r1 = r1
    r2 = r2
    None = None
    Writers = {w1}
    Versions = {v1, v2, v3, v4}
    Sound = {v1, v2, v3}
    Runs = {r1, r2}
    MaxCrashes = 2
SPECIFICATION Spec
SYMMETRY Symmetric
INVARIANTS
    RegistryInv
    InstalledOnce
    CleanWhenIdle
    GivenWasRegistered
    OnlyValidatedRuns
PROPERTIES
    LessonsKeptOnce
