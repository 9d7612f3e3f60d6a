SPECIFICATION PodFairSpec
CONSTANTS
    Byte = 16
    HAVPNServers = 2
    HAVPNClients = 2
    Environments <- AllEnvironments
    NoNumber = NoNumber
    MaxFaults = 3
    Hosts = {2, 3}
INVARIANTS BondConfigured PathToEveryClient NothingFiltered OneAddress OwnNetworks
PROPERTY PodConnects
CHECK_DEADLOCK FALSE
