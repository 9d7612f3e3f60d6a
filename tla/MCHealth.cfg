SPECIFICATION FairSpec
CONSTANTS
    Interval = 2
    Slack = 2
    Delay = 1
    Keepalive = 1
    MaxFaults = 1
INVARIANTS HealthInv ReadyIsCurrent SteadyIsAlive
PROPERTIES FailuresApart ReadyFollows
