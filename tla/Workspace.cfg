SPECIFICATION Spec
CONSTANTS
    c1 = c1
    c2 = c2
    Worlds = {{"ensure", "update", "restart", "overlap"},
              {"ensure", "update", "restart", "delete", "overlap"},
              {"ensure", "update", "restart", "delete"}}
    Sizes = {1, 2}
    Default = 1
    Same = Same
    Specs <- SomeSpecs
    Calls = {c1, c2}
SYMMETRY CallSymmetry
INVARIANTS LiveDeploymentHasParts
PROPERTIES OnlyAskedChanges DeleteLeavesNothing
