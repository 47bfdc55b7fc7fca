SPECIFICATION Spec
CONSTANTS
    t1 = t1
    t2 = t2
    Tabs = {t1}
    MaxTokens = 2
    MaxLogins = 1
    MaxReloads = 0
    Worlds = {{"one-tab", "bursts"}}
CHECK_DEADLOCK FALSE
INVARIANT OwnCallbackAccepted
