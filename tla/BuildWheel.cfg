SPECIFICATION Spec
CONSTANTS
    j1 = j1
    j2 = j2
    j3 = j3
    w1 = w1
    w2 = w2
    Jobs <- MCJobs
    RequestId <- MCRequestId
    Priority <- MCPriority
    Matches <- MCMatches
    Workers <- MCWorkers
    Lowest = 3
    None = None
CHECK_DEADLOCK FALSE
INVARIANT SignedIsOwn
