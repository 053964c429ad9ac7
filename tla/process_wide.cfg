CONSTANTS
    p1 = p1
    p2 = p2
    p3 = p3
    p4 = p4
    p5 = p5
    Ptr = {p1, p2, p3, p4, p5}
    Null = Null
    NoCategory = NoCategory
    Message <- WideMessages
    NUM_BUFFER = 2
    BUFFER_CAPACITY <- WideCapacities
    MaxTasks = 5
    MaxTime = 1
SPECIFICATION Spec
SYMMETRY Perms
INVARIANTS
    WithinCapacity
    WorkConserving
PROPERTIES
    UrgentFirst
    LeftAgeBrackets
