SPECIFICATION FairSpec
CONSTANTS
    TelemSrv = TelemSrv
    FaultInj = FaultInj
    CmdTask = CmdTask
    Writers <- BothWriters
    Room = 2
    MaxCommands <- OneAndTwo
    Torn = Torn
    Clients = {c1}
    MaxClients = 1
    LogQueueLength = 1
    MaxLeaves = 1
    NoClient = NoClient
INVARIANTS TypeOK ExecutedInOrder NoLostWakeup SlotsConsistent
PROPERTIES ClientIsServed CommandsDrain
CHECK_DEADLOCK FALSE
