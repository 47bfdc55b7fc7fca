SPECIFICATION MCSpec
CONSTANTS
    kserve = kserve
    own = own
    system = system
    others = others
    c1 = c1
    c2 = c2
    None = None
    Builtin = {kserve}
    Embedded = {kserve}
    Importable = {own}
    SystemNs = system
    ForeignNs = {others}
    Calls = {c1, c2}
INVARIANTS InstallingIsOwned SnapshotSeesActions BackedInTurn
PROPERTIES StatusReflectsInTurn InstallingSettles
