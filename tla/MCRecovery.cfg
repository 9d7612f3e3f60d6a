SPECIFICATION RecoveryFairSpec
CONSTANTS
    WindowSize = 6
    Threshold = 3
    Cooldown = 4
    HAVPNClients = 3
    HAVPNServers = 2
    Reconnect = 6
    MaxFaults = 3
INVARIANTS SilenceNoticed WatchdogInv
PROPERTIES FiresApart WindowSpec Recovers
