----------------------------- MODULE ClientSlots -----------------------------
(***************************************************************************)
(* The streaming clients of TelemSrv                                        *)
(* (src/telemetry_server/telemetry_server.c): the backlog of the listening   *)
(* socket, the slots of client_sockets, and the broadcasts.                 *)
(*                                                                         *)
(* A client is "away", "asking" (its connection is in the backlog),          *)
(* "streaming" or in "backoff" (it was refused).  When it leaves, the server *)
(* notices at a peek or at a failed send; until then the slot is taken.     *)
(***************************************************************************)
EXTENDS Integers, Sequences, FiniteSets

CONSTANTS
    Clients,         \* programs that open /telemetry
    MaxClients,      \* MAX_CLIENTS
    LogQueueLength,  \* LOG_QUEUE_LENGTH
    MaxLeaves,       \* bound: times a client leaves
    NoClient         \* the entry of a free slot

ASSUME SlotsAssumption ==
    /\ MaxClients \in Nat \ {0}
    /\ LogQueueLength \in Nat
    /\ MaxLeaves \in Nat
    /\ NoClient \notin Clients

SlotNumbers == 1..MaxClients

\* A connection: whose it is, and whether that client is still there.
Connections == [who : Clients, open : BOOLEAN]
Free == [who |-> NoClient, open |-> FALSE]

VARIABLES
    clients,  \* where each client stands
    backlog,  \* connections that wait for accept, oldest first
    slot,     \* client_sockets
    logs,     \* number of lines in xLogQueue
    leaves    \* times a client has left

streams == <<clients, backlog, slot, logs, leaves>>

SlotsInit ==
    /\ clients = [c \in Clients |-> "away"]
    /\ backlog = <<>>
    /\ slot = [i \in SlotNumbers |-> Free]
    /\ logs = 0
    /\ leaves = 0

FreeSlots == {i \in SlotNumbers : slot[i] = Free}
DeadSlots == {i \in SlotNumbers : slot[i] # Free /\ ~slot[i].open}

\* Log_Event, n times, with a queue that holds so many lines: a full queue drops the
\* line, and Log_Event gives up when the log mutex does not become free in time.
QueueLogs(lines, n) == logs' \in {k \in lines..(lines + n) : k <= LogQueueLength}

-----------------------------------------------------------------------------
(* The clients *)

\* A client connects and sends its request.
Ask(c) ==
    /\ clients[c] = "away"
    /\ clients' = [clients EXCEPT ![c] = "asking"]
    /\ backlog' = Append(backlog, [who |-> c, open |-> TRUE])
    /\ UNCHANGED <<slot, logs, leaves>>

Gone(k) == [k EXCEPT !.open = FALSE]

\* A client closes its connection, before or after it was accepted.
Leave(c) ==
    /\ clients[c] \in {"asking", "streaming"}
    /\ leaves < MaxLeaves
    /\ leaves' = leaves + 1
    /\ clients' = [clients EXCEPT ![c] = "away"]
    /\ backlog' = [n \in DOMAIN backlog |-> IF backlog[n].who = c THEN Gone(backlog[n]) ELSE backlog[n]]
    /\ slot' = [i \in SlotNumbers |-> IF slot[i].who = c THEN Gone(slot[i]) ELSE slot[i]]
    /\ UNCHANGED logs

-----------------------------------------------------------------------------
(* The server *)

\* accept a request for the stream and put its connection into the first free slot.
Register(k) ==
    /\ \E first \in FreeSlots :
         /\ \A i \in FreeSlots : first <= i
         /\ slot' = [slot EXCEPT ![first] = k]
    /\ clients' = IF k.open THEN [clients EXCEPT ![k.who] = "streaming"] ELSE clients

\* "Max clients reached, closing".
Refuse(k) ==
    /\ clients' = IF k.open THEN [clients EXCEPT ![k.who] = "backoff"] ELSE clients
    /\ UNCHANGED slot

\* One round of the accept loop, for a request of /telemetry.  A request that its
\* client has given up may still be there to be read, or not.
Accept ==
    /\ backlog # <<>>
    /\ backlog' = Tail(backlog)
    /\ LET k == Head(backlog)
       IN  \/ Register(k)
           \/ (FreeSlots = {} \/ ~k.open) /\ Refuse(k)
    /\ QueueLogs(logs, 3)
    /\ UNCHANGED leaves

\* Variant of CleanUp: a slot with nothing to read is freed too.
CleanUpQuiet ==
    /\ slot' = [i \in SlotNumbers |-> Free]
    /\ QueueLogs(logs, Cardinality(SlotNumbers \ FreeSlots))
    /\ UNCHANGED <<clients, backlog, leaves>>

\* Variant of CleanUp: an orderly end of the connection is not taken for one.
CleanUpErrors ==
    /\ \E failed \in SUBSET DeadSlots :
         /\ slot' = [i \in SlotNumbers |-> IF i \in failed THEN Free ELSE slot[i]]
         /\ QueueLogs(logs, Cardinality(failed))
    /\ UNCHANGED <<clients, backlog, leaves>>

\* The peek at every slot: a client that has gone is found out and its slot freed.
\* A stream's client sends nothing after its request that could hide its end.
CleanUp ==
    /\ slot' = [i \in SlotNumbers |-> IF i \in DeadSlots THEN Free ELSE slot[i]]
    /\ QueueLogs(logs, Cardinality(DeadSlots))
    /\ UNCHANGED <<clients, backlog, leaves>>

\* BroadcastToClients: a send to a client that has gone may fail; the slot is freed
\* and the failure logged, which queues a line for the next broadcast.
Broadcast(queued) ==
    \E failed \in SUBSET DeadSlots :
        /\ slot' = [i \in SlotNumbers |-> IF i \in failed THEN Free ELSE slot[i]]
        /\ QueueLogs(queued, Cardinality(failed))
        /\ UNCHANGED <<clients, backlog, leaves>>

\* A line is logged by any task.
LogLine ==
    /\ QueueLogs(logs, 1)
    /\ UNCHANGED <<clients, backlog, slot, leaves>>

\* A refused client tries again after its backoff, which is longer than a cycle of
\* the server.
Retry == clients' = [c \in Clients |-> IF clients[c] = "backoff" THEN "away" ELSE clients[c]]

-----------------------------------------------------------------------------
(* Properties *)

\* Slots and clients agree: a client streams exactly when one slot holds its open
\* connection, and never two.
SlotsConsistent ==
    /\ \A c \in Clients :
         clients[c] = "streaming" <=> \E i \in SlotNumbers : slot[i] = [who |-> c, open |-> TRUE]
    /\ \A i, j \in SlotNumbers : slot[i].open /\ slot[i] = slot[j] => i = j
=============================================================================
