SPECIFICATION LiveSpec
CONSTANTS
    a = a
    b = b
    Keys = {a}
    PodIPs = {x, y}
    Objs = {o1, o2}
    NoObj = NoObj
    NoKey = NoKey
    NoIP = NoIP
    Backoff = 0
    Expiration = 1
    CleanUpPeriod = 2
    MaxPending = 2
    MaxCleaners = 1
    MaxFaults = 2
PROPERTIES PodFollowedA CreationRetriedA
