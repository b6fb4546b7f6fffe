\* One process that stops between two writes.
CONSTANTS
    p1 = p1
    p2 = p2
    a = a
    b = b
    Procs = {p1}
    CanSignal <- SameUser
    Dead = Dead
    None = None
    MaxRound = 2
    RoundTasks <- TwoTasks
    Reruns = TRUE
    MaxStops = 1
SPECIFICATION Spec
INVARIANTS
    ReturnedIsCommitted
