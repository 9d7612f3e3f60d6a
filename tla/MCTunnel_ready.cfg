SPECIFICATION Spec
CONSTANTS
    a = a
    b = b
    Keys = {a, b}
    PodIPs = {x, y}
    Objs = {o1, o2, o3}
    NoObj = NoObj
    NoKey = NoKey
    NoIP = NoIP
    Backoff = 0
    Expiration = 1
    CleanUpPeriod = 2
    MaxPending = 1
    MaxCleaners = 1
    MaxFaults = 0
SYMMETRY Symmetry
INVARIANT ReadyMeansRouted
