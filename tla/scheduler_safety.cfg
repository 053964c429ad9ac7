CONSTANTS
    w1 = w1
    w2 = w2
    f1 = f1
    f2 = f2
    f3 = f3
    Worker = {w1, w2}
    Root = w1
    Null = Null
    AnyThread = AnyThread
    Pin = {AnyThread, w1, w2}
    Fiber = {f1, f2, f3}
    MaxSubmit = 3
    MaxStarts = 1
    MaxStops = 1
    Careless = {"late"}
SPECIFICATION Spec
SYMMETRY FiberPerms
INVARIANTS
    AssertionsHold
    OneStack
    OneTicket
