SPECIFICATION TasksSpec
CONSTANTS
    f1 = f1
    f2 = f2
    b1 = b1
    b2 = b2
    w1 = w1
    w2 = w2
    client = client
    NoTask = NoTask
    Task <- MCTask
    BackgroundTask <- MCBackgroundTask
    Worker <- MCWorker
    Client <- MCClient
    Region <- MCRegion
    BackgroundRegion <- MCBackgroundRegion
    LaunchOrder <- MCLaunchOrder
    MaxInFlight <- MCMaxInFlight
    PoolWorker <- MCWorker
    NoItem = NoItem
    search = search
    filter = filter
    Call <- MCCall
    Bounded <- MCBounded
    Watched <- MCWatched
    WithInput <- MCWithInput
    MayDie = TRUE
    NoCall = NoCall
    NoMutex = NoMutex
    c1 = c1
    c2 = c2
INVARIANTS
    IndInv
    WaitsBehindOneBackgroundPerWorker
    RegionsAreSafe
    KillsAreFinal
PROPERTIES
    DestructorReturns
    ImplementsTaskPool
    RegionsEnd
    ToolCallsReturn
CHECK_DEADLOCK FALSE
