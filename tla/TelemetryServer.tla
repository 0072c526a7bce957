--------------------------- MODULE TelemetryServer ---------------------------
(***************************************************************************)
(* TelemSrv as a whole (src/telemetry_server/telemetry_server.c): one task   *)
(* that accepts connections and answers their requests, cleans its slots,    *)
(* broadcasts telemetry and log lines, and sleeps; with CmdProc and FaultInj *)
(* around the command buffer.                                               *)
(***************************************************************************)
EXTENDS CommandProcessor, ClientSlots

CONSTANTS TelemSrv, FaultInj

ASSUME ServerAssumption == Writers = {TelemSrv, FaultInj} /\ TelemSrv # FaultInj

Tasks == Writers \cup {CmdTask}

VARIABLE
    phase  \* TelemSrv in its loop: "accept", "clean", "broadcast", "logs"

vars == <<command, streams, phase>>

Init ==
    /\ CommandInit
    /\ SlotsInit
    /\ phase = "accept"

\* TelemSrv is not inside Submit and has the processor.
ServerRuns == TelemSrv \notin asleep /\ wpc[TelemSrv] = "idle" /\ ~CmdReady

\* The accept loop goes on while there is a connection.
AcceptStream ==
    /\ ServerRuns
    /\ phase = "accept"
    /\ Accept
    /\ UNCHANGED <<command, phase>>

\* The connection and the request are logged.
LogsRequest == QueueLogs(logs, 2) /\ UNCHANGED <<clients, backlog, slot, leaves>>

\* A request of /api/fault: its connection is answered {"ok":true} and closed once
\* Submit has returned, whatever became of the command.
AcceptFault ==
    /\ phase = "accept"
    /\ SubmitBegin(TelemSrv)
    /\ LogsRequest
    /\ UNCHANGED phase

\* A request of /api/suspend or /api/resume, for any task by its name.  TelemSrv may
\* suspend itself: then nobody is left to resume anything.
AcceptSuspend ==
    /\ ServerRuns
    /\ phase = "accept"
    /\ \E t \in Tasks : Suspend(t) \/ Resume(t)
    /\ LogsRequest
    /\ UNCHANGED phase

\* Any other request, or none that can be read: answered and closed at once.
AcceptOther ==
    /\ ServerRuns
    /\ phase = "accept"
    /\ LogsRequest
    /\ UNCHANGED <<command, phase>>

\* accept finds nothing: peek at the slots.
AcceptNone ==
    /\ ServerRuns
    /\ phase = "accept"
    /\ backlog = <<>>
    /\ phase' = "clean"
    /\ UNCHANGED <<command, streams>>

CleanSlots ==
    /\ ServerRuns
    /\ phase = "clean"
    /\ CleanUp
    /\ phase' = "broadcast"
    /\ UNCHANGED command

\* The keep-alive comment and the telemetry frame, as one broadcast: a slot that the
\* first one frees is skipped by the second.
BroadcastFrame ==
    /\ ServerRuns
    /\ phase = "broadcast"
    /\ Broadcast(logs)
    /\ phase' = "logs"
    /\ UNCHANGED command

\* A line of the log queue.
BroadcastLog ==
    /\ ServerRuns
    /\ phase = "logs"
    /\ logs > 0
    /\ Broadcast(logs - 1)
    /\ UNCHANGED <<command, phase>>

\* vTaskDelay(120 ms).
EndCycle ==
    /\ ServerRuns
    /\ phase = "logs"
    /\ logs = 0
    /\ Retry
    /\ phase' = "accept"
    /\ UNCHANGED <<command, backlog, slot, logs, leaves>>

Submitting(w) == (SubmitEnd(w) \/ SubmitNotify(w)) /\ UNCHANGED <<streams, phase>>

Serve ==
    \/ AcceptStream \/ AcceptNone \/ CleanSlots \/ BroadcastFrame \/ BroadcastLog \/ EndCycle
    \/ Submitting(TelemSrv)

\* FaultInj submits a ping or asks for diagnostics.
Inject == SubmitBegin(FaultInj) /\ UNCHANGED <<streams, phase>>

Execute == CmdProc /\ UNCHANGED <<streams, phase>>

Visit(c) == (Ask(c) \/ Leave(c)) /\ UNCHANGED <<command, phase>>

\* Bound: the other tasks log nothing while TelemSrv drains the queue, which takes
\* it less time than a line takes them.
Log ==
    /\ phase # "logs"
    /\ LogLine
    /\ UNCHANGED <<command, phase>>

Next ==
    \/ Serve
    \/ AcceptFault
    \/ AcceptSuspend
    \/ AcceptOther
    \/ Inject
    \/ Submitting(FaultInj)
    \/ Execute
    \/ \E c \in Clients : Visit(c)
    \/ Log

Spec == Init /\ [][Next]_vars

\* CmdProc runs when it is ready; TelemSrv and FaultInj, which share a priority, get
\* the processor again and again, and connections are accepted in their order.  A
\* client that wants the stream tries again for ever.  Nobody has to request or log
\* anything.
Fairness ==
    /\ WF_vars(Execute)
    /\ SF_vars(Serve)
    /\ SF_vars(Submitting(FaultInj))
    /\ \A c \in Clients : WF_vars(Ask(c) /\ UNCHANGED <<command, phase>>)

FairSpec == Spec /\ Fairness

-----------------------------------------------------------------------------
(* Properties *)

CommandTypeOK ==
    /\ store \in [0..(Room - 1) -> (Writers \X Nat) \cup {Torn}]
    /\ head \in Nat
    /\ tail \in Nat
    /\ seen \in [Writers -> Nat]
    /\ wpc \in [Writers -> {"idle", "send", "sent"}]
    /\ submitted \in [Writers -> Nat]
    /\ notified \in BOOLEAN
    /\ cpc \in {"take", "receive", "log"}
    /\ asleep \in SUBSET Tasks
    /\ rejected \in Nat
    /\ accepted \in Seq(Writers \X Nat)
    /\ executed \in Seq((Writers \X Nat) \cup {Torn})
    /\ overlapped \in BOOLEAN

\* Every variable holds a value of its type, and the buffer never holds more than
\* fits.
TypeOK ==
    /\ CommandTypeOK
    /\ head - tail \in 0..Room
    /\ clients \in [Clients -> {"away", "asking", "streaming", "backoff"}]
    /\ backlog \in Seq(Connections)
    /\ slot \in [SlotNumbers -> Connections \cup {Free}]
    /\ logs \in 0..LogQueueLength
    /\ leaves \in 0..MaxLeaves
    /\ phase \in {"accept", "clean", "broadcast", "logs"}

\* A client that keeps asking gets its stream although clients that have gone may
\* hold the slots when it asks, and although broken connections log lines that are
\* broadcast to broken connections; unless the server has been told to suspend itself.
ClientIsServed ==
    \A c \in Clients : clients[c] # "streaming" ~> clients[c] = "streaming" \/ TelemSrv \in asleep

\* A command in the buffer is executed, unless CmdProc stays suspended, or its sender was
\* suspended between the send and the notification.
CommandsDrain ==
    (head # tail) ~> \/ head = tail
                     \/ CmdTask \in asleep
                     \/ \E w \in asleep \cap Writers : wpc[w] = "sent"
=============================================================================
