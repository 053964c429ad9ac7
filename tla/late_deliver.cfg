CONSTANTS
    p1 = p1
    p2 = p2
    p3 = p3
    Ptr = {p1, p2}
    Null = Null
    NoCategory = NoCategory
    Message <- ServerMessages
    NUM_BUFFER = 2
    BUFFER_CAPACITY <- OneEach
    MaxTasks = 3
    MaxTime = 7
    DRIVER_DELAY = 2
    TIMER_PERIOD = 3
    LastArrival = 7
SPECIFICATION ServerSpec
PROPERTY LateDeliverIsHarmless
