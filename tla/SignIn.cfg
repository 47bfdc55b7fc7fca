SPECIFICATION Spec
CONSTANTS
    t1 = t1
    t2 = t2
    Tabs = {t1, t2}
    MaxTokens = 2
    MaxLogins = 2
    MaxReloads = 1
    Worlds = {{"one-tab", "lossy", "bursts", "strict", "reloads"}, {"one-tab", "lossy", "reloads"},
              {"dev-bypass", "one-tab"}, {}}
CHECK_DEADLOCK FALSE
INVARIANTS ShownWithToken ErrorIsEarned
PROPERTIES CredentialsKept Settles
