SPECIFICATION Spec
CONSTANTS
    p1 = p1
    p2 = p2
    latest = latest
    pinned = pinned
    other = other
    f1 = f1
    f2 = f2
    Processes <- MCOneProcess
    Keys <- MCKeys
    Files <- MCFiles
    FileOf <- MCFileOf
    SizeOf <- MCSizeOf
    PackageOf <- MCPackageOf
    MaxPolls = 1
    Limit = 1
    None = None
INVARIANT HitIsWheel
