\* Two processes that may both get past the lock: a stale campaign.json is written.
CONSTANTS
    p1 = p1
    p2 = p2
    a = a
    b = b
    Procs = {p1, p2}
    CanSignal <- SameUser
    Dead = Dead
    None = None
    MaxRound = 2
    RoundTasks <- TwoTasks
    Reruns = TRUE
    MaxStops = 0
SPECIFICATION Spec
PROPERTIES
    NeverBack
