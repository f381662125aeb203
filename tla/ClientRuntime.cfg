SPECIFICATION MCSpec
CONSTANTS
    d1 = d1
    d2 = d2
    c1 = c1
    c2 = c2
    l1 = l1
    l2 = l2
    a = a
    b = b
    m = m
    Daemons <- MCDaemons
    BaseDelay = 1
    MaxDelay = 3
    Torn = Torn
    None = None
    Calls <- MCCalls
    NoCall = NoCall
    Loops <- MCLoops
    NoTask = NoTask
    Interval = 2
    Lifetime = 2
    NoFile = NoFile
    Callers <- MCCalls
    Strategies = 2
    Guarded <- MCGuarded
    MaxRetries = 1
    RetryBase = 1
    RetryCap = 2
    Factor = 3
    Threshold = 2
    Reset = 1
    Packages <- MCPackages
    Submodules <- MCSubmodules
INVARIANTS RuntimeTypeOK OneLoop OneKind
PROPERTIES StoppedNeverReconnects StopEndsDaemon AnswerReaches CallsEnd AdmitsExactly KeepsSyncing
