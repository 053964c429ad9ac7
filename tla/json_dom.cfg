SPECIFICATION Spec
CONSTANTS
    Roots = {v1, v2}
    Names = {name}
    Blocks = {1, 2}
    Default = 1
    Reserved = 2
    MaxCells = 5
    MaxCapacity = 3
    MaxDepth = 2
SYMMETRY RootPerms
INVARIANTS
    OneOwner
    KeepsTrees
