SPECIFICATION Spec
CONSTANTS
    t1 = t1
    t2 = t2
    t3 = t3
    s1 = s1
    s2 = s2
    None = None
    Turns = {t1, t2, t3}
    Sessions = {s1}
    MaxId = 2
    MaxMade = 2
    MaxRestarts = 1
    Worlds = {{"postgres"}}
CHECK_DEADLOCK FALSE
INVARIANT ProviderAlwaysKept
