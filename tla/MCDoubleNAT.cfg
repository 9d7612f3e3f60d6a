SPECIFICATION Spec
CONSTANTS
    W = 4
    SeedContainers = {s1, s2}
    Server = s1
    ShootContainers = {h1}
    Configs <- MCConfigs
    PodMapped <- PodRange
    ServiceMapped <- ServiceRange
    NodeMapped <- NodeRange
    SeedMapped <- SeedRange
    MaxStarts = 3
INVARIANTS Delivered ShootBlocked AnswersPass
CHECK_DEADLOCK FALSE
