SPECIFICATION MCSpec
CONSTANTS
    c1 = c1
    c2 = c2
    b1 = b1
    b2 = b2
    r1 = r1
    s1 = s1
    s2 = s2
    e1 = e1
    e2 = e2
    x1 = x1
    one = one
    pair = pair
    Clients <- MCClients
    Window = 2
    Limits <- MCLimits
    Builds <- MCBuilds
    Runs <- MCRuns
    MaxQueue = 3
    None = None
    Streams <- MCStreams
    ContentOf <- MCContents
    MaxChunks = 2
    Nothing = Nothing
    CallIds <- MCCalls
    MethodOf <- MCMethods
    Handlers <- MCHandlers
    Values <- MCValues
    Depth <- MCDepth
    RecursionLimit = 2
    Text <- MCText
    NoText = NoText
    NoValue = NoValue
    Sessions <- MCSessions
    MaxIdle = 3
    CleanupInterval = 2
    NoSession = NoSession
INVARIANT KeysArrive
