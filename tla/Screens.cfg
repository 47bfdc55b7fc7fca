SPECIFICATION ScreenSpec
CONSTANTS
    a = a
    b = b
    None = None
    Keys <- MCKeys
    MaxActs = 2
    MaxVer = 3
    ScreenWorlds <- MCWorlds
INVARIANTS ShowsItsOwn ActsOnItsRow LatestInTurn
PROPERTIES PanelSettles
CHECK_DEADLOCK FALSE
