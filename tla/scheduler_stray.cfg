CONSTANTS
    w1 = w1
    w2 = w2
    f1 = f1
    f2 = f2
    f3 = f3
    Worker = {w1, w2}
    Root = Null
    Null = Null
    AnyThread = AnyThread
    Pin = {AnyThread, w1}
    Fiber = {f1, f2}
    MaxSubmit = 2
    MaxStarts = 1
    MaxStops = 1
    Careless = {"stray"}
SPECIFICATION Spec
SYMMETRY FiberPerms
INVARIANT ActiveCountExact
PROPERTY NothingLeftBehind
CHECK_DEADLOCK FALSE
