\* Two processes create the same skill.
CONSTANTS
    w1 = w1
    w2 = w2
    v1 = v1
    v2 = v2
    v3 = v3
    v4 = v4
    r1 = r1
    r2 = r2
    None = None
    Writers = {w1, w2}
    Versions = {v1, v2, v3, v4}
    Sound = {v1, v2, v3}
    Runs = {}
    MaxCrashes = 0
SPECIFICATION Spec
INVARIANTS
    CollisionKeepsFirst
