SPECIFICATION FairSpec
CONSTANTS
    SWARM <- Fleet
    Watched = {"SC-02"}
    Fault = {"temp"}
    OwnFaults = {}
    Modes = {"NORMAL"}
    Launchable = {"stress-test", "comms-blackout", "watchdog-drill"}
    StaleAfter = 0
    SafeAfter = 0
    NotSafe = NotSafe
    Engine = Engine
    Operator = Operator
    Adrift = Adrift
    Nothing = Nothing
    MaxMounts = 2
    MaxLaunches = 2
    MaxMisses = 1
    MaxOutages = 0
    MaxOrders = 0
INVARIANT TypeOK
PROPERTY ScenarioEnds
