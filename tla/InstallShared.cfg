SPECIFICATION FairSpec
CONSTANTS
    p1 = p1
    p2 = p2
    latest = latest
    pinned = pinned
    other = other
    f1 = f1
    f2 = f2
    Processes <- MCProcesses
    Keys <- MCOneKey
    Files <- MCFiles
    FileOf <- MCFileOf
    SizeOf <- MCOneSize
    PackageOf <- MCPackageOf
    MaxPolls = 1
    Limit = 1
    None = None
INVARIANT CloudPlanEndsInExec
PROPERTY InstallEnds
