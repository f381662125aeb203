SPECIFICATION Spec
CONSTANTS
    s1 = s1
    s2 = s2
    d1 = d1
    c1 = c1
    Sockets <- MCSockets
    Ids <- MCIds
    Unknown = Unknown
    Heartbeater = Heartbeater
    Callers <- MCCallers
    None = None
    Interval = 1
SYMMETRY MCSymmetry
INVARIANTS TypeOK LiveIsRegistered RegisteredIsOpen ReturnedIsForgotten
