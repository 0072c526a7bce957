SPECIFICATION FairSpec
CONSTANTS
    SWARM <- Trio
    Craft <- TrioCraft
    Moving = {"SC-01"}
    Proc = {p1, p2, p3}
    Boot = p1
    NoProc = NoProc
    NoFrame = NoFrame
    NoCraft = NoCraft
    Conditions = {"nominal", "faulty", "commDown"}
    MaxRequests = 2
    MaxDeaths = 1
INVARIANTS TypeOK OneProcess StatusTruthful KillIsFollowed HealthiestRelays
PROPERTY TelemetryReturns
