SPECIFICATION Spec
CONSTANTS
    a = a
    b = b
    x = x
    y = y
    Keys = {a, b}
    Home = a
    Items = {x, y}
    KeyOf <- OneEach
    MaxVersion = 2
    MaxActs = 4
    MaxOverlap = 3
    Worlds <- AIStorageOnly
CHECK_DEADLOCK FALSE
PROPERTY NeverSwapped
