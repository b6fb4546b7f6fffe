\* Two processes that may both get past the lock; nothing stops them.
CONSTANTS
    p1 = p1
    p2 = p2
    a = a
    b = b
    Procs = {p1, p2}
    CanSignal <- SameUser
    Dead = Dead
    None = None
    MaxRound = 2
    RoundTasks <- OneTask
    Reruns = TRUE
    MaxStops = 0
SPECIFICATION Spec
SYMMETRY Symmetric
INVARIANTS
    CampaignInv
PROPERTIES
    LineageSpec
