SPECIFICATION FairSpec
CONSTANTS
    CpuMon = CpuMon
    HeapMon = HeapMon
    PwrMgr = PwrMgr
    Watched = {CpuMon, HeapMon}
    Others = {PwrMgr}
    HasSpec = {HeapMon}
    Period <- PeriodsOfTasks
    WdTimeout = 7
    WdTickPeriod = 1
    MaxRestarts = 1
    SkipBound = 1
    Freezable = {HeapMon}
    FreezeBound = 1
    Callback = Callback
    Nobody = Nobody
INVARIANTS TypeOK MutexConsistent JudgedForCause DetectionBound
PROPERTIES RestartBudget FrozenIsHandled WatchGoesOn
