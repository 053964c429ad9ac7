CONSTANTS
    main = main
    other = other
    w1 = w1
    w2 = w2
    v1 = v1
    v2 = v2
    Nobody = Nobody
    NoThread = NoThread
    Undefined = Undefined
    Failed = Failed
    LogIniter = LogIniter
    Watcher = Watcher
    Thread = {main, w1}
    Main = {main}
    Worker = {w1}
    Named = TRUE
    Callback = {LogIniter, Watcher}
    Stepwise = {LogIniter}
    Var <- MCVar
    Value <- MCValue
    First <- MCFirst
    Same <- MCSame
    TypeOf <- MCTypeOf
    FromText <- MCFromText
    ToText <- MCToText
    Node <- MCNode
    MaxId = 2
    Known = {"m", "p"}
    Letter = {"m", "p", "x"}
    FileName = {"", "root.txt", "system.txt"}
    NameOrder <- MCOrder
    DefaultPattern <- MCDefault
    Files <- MCFiles
    Listened <- MCListened
    Level = {2, 5}
    Segment = {"logs", "system", "port"}
    MaxLoads = 2
    MaxEvents = 1
SPECIFICATION FairSpec
INVARIANTS
    ConfigApplied
    FormattersFollow
    CastsRoundTrip
    DefinesRoundTrip
    PunctualListenerKnowsValue
    ConstructedIsReady
PROPERTIES
    EventsAreDelivered
    CallsReturn
