SPECIFICATION MCSpec
CONSTANTS
    p1 = p1
    latest = latest
    pinned = pinned
    other = other
    f1 = f1
    f2 = f2
    a = a
    b = b
    l1 = l1
    m1 = m1
    m2 = m2
    n1 = n1
    Processes <- MCProcesses
    Keys <- MCKeys
    Files <- MCFiles
    FileOf <- MCFileOf
    SizeOf <- MCSizeOf
    PackageOf <- MCPackageOf
    MaxPolls = 1
    Limit = 2
    None = None
    Packages <- MCPackages
    LazyPackages <- MCLazy
    Layers <- MCLayers
    Lists <- MCLists
    NoLayers = NoLayers
    Stray = Stray
    Managers <- MCPrograms
    Names <- MCNames
    CloudTypes <- MCCloudTypes
    Clouds <- MCClouds
    GPUs <- MCGPUs
    Figures <- MCFigures
    NoConfig = NoConfig
    TornConfig = TornConfig
    Commands <- MCPrograms
INVARIANTS CountedBound PartIsNoHit DiskTypeOK RightContent PathsAreMounts MemoryIsDisk SettingsKept
PROPERTIES InstallEnds OverwriteAsked
