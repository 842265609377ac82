CONSTANTS
    Starters = {s1, s2}
    Workers = {w1, w2}
    None = None
    Backlog = 1
    ReProbes = 1
SPECIFICATION Spec
INVARIANTS LiveSocketKept
