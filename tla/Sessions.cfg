SPECIFICATION Spec
CONSTANTS
    t1 = t1
    t2 = t2
    t3 = t3
    s1 = s1
    s2 = s2
    None = None
    Turns = {t1, t2, t3}
    Sessions = {s1, s2}
    MaxId = 2
    MaxMade = 2
    MaxRestarts = 1
    Worlds = {{}, {"overlap", "new-pods", "persist-fails"}, {"postgres"},
              {"postgres", "overlap", "new-pods", "persist-fails"}}
SYMMETRY TurnSymmetry
CHECK_DEADLOCK FALSE
INVARIANTS NoOrphans ProviderKept
PROPERTY HistoryKept
