SPECIFICATION Spec
CONSTANTS
    a = a
    b = b
    x = x
    y = y
    Keys = {a, b}
    Home = a
    Items = {x, y}
    KeyOf <- OneEach
    MaxVersion = 2
    MaxActs = 4
    MaxOverlap = 3
    Worlds <- EveryStore
CHECK_DEADLOCK FALSE
INVARIANTS RowsConverge OneRowEach FlagsAreBacked
PROPERTY PageFills
