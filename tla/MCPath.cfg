SPECIFICATION FairSpec
CONSTANTS
    Clients = {c1, c2, c3}
    NoClient = NoClient
    Nets = 2
    Tries = 2
    MaxFaults = 2
INVARIANTS RoutesFollowPrimary PathInv
PROPERTIES PrimarySettles TrafficSettles
