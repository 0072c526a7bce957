SPECIFICATION Spec
CONSTANTS
    TelemSrv = TelemSrv
    FaultInj = FaultInj
    CmdTask = CmdTask
    Writers <- BothWriters
    Room = 2
    MaxCommands <- OneEach
    Torn = Torn
    Clients = {c1}
    MaxClients = 2
    LogQueueLength = 1
    MaxLeaves = 0
    NoClient = NoClient
INVARIANT AcceptedIsExecuted
