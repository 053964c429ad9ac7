CONSTANTS
    p1 = p1
    p2 = p2
    p3 = p3
    p4 = p4
    p5 = p5
    Ptr = {p1, p2, p3}
    Null = Null
    NoCategory = NoCategory
    Message <- Messages
    NUM_BUFFER = 3
    BUFFER_CAPACITY <- Capacities
    MaxTasks = 4
    MaxTime = 2
SPECIFICATION Spec
SYMMETRY Perms
INVARIANTS
    SingleOwner
    BuffersHoldTasks
    ValuableIsPlaced
    InvalidIsGone
