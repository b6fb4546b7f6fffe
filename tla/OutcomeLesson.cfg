\* A lesson that is dropped in silence (violated).
CONSTANTS
    r1 = r1
    r2 = r2
    f1 = f1
    None = None
    Runs = {r1, r2}
    Kinds <- MCKinds
    Facts = {f1}
    MaxTroubles = 2
SPECIFICATION Spec
INVARIANTS
    LessonsAreReported
