---------------------------- MODULE DashboardStore ----------------------------
(***************************************************************************)
(* The state the pages of the dashboard share (State of                      *)
(* web/frontend/src/lib/store.ts), and what onmessage makes of a message.    *)
(***************************************************************************)
EXTENDS Notifications

CONSTANTS
    MAX_HISTORY,
    MAX_RING,  \* MAX_LOGS and MAX_ANOM
    NoFrame    \* frames[c] is undefined

VARIABLES
    connected,
    swarm,      \* the craft the dashboard knows of
    crafts,     \* lastFrameAt of each craft, as the process manager tells it
    frames,
    health,
    history,    \* oldest first
    logs, anomalies,  \* newest first
    relays

board == <<swarm, crafts, frames, health, history, logs, anomalies, relays>>

StoreInit ==
    /\ NotificationsInit
    /\ connected = FALSE
    /\ swarm = {}
    /\ crafts = [c \in Craft |-> 0]
    /\ frames = [c \in Craft |-> NoFrame]
    /\ health = [c \in Craft |-> 0]
    /\ history = [c \in Craft |-> <<>>]
    /\ logs = <<>>
    /\ anomalies = <<>>
    /\ relays = {}

\* [x, ...ring].slice(0, max)
Ring(x, ring) ==
    <<x>> \o SubSeq(ring, 1, IF Len(ring) < MAX_RING THEN Len(ring) ELSE MAX_RING - 1)

\* [...list, x].slice(-max)
Window(list, x) ==
    SubSeq(list, IF Len(list) < MAX_HISTORY THEN 1 ELSE Len(list) - MAX_HISTORY + 2, Len(list))
        \o <<x>>

\* Variant of Merged: { [craft]: f, ...frames }, the old frame wins.
MergedOld(c, f) == IF frames[c] = NoFrame THEN [frames EXCEPT ![c] = f] ELSE frames

\* { ...frames, [craft]: f }
Merged(c, f) == [frames EXCEPT ![c] = f]

OnHello(msg) ==
    /\ msg.type = "hello"
    /\ swarm' = Craft
    /\ crafts' = msg.crafts
    /\ UNCHANGED <<frames, health, history, logs, anomalies, relays, pills>>

OnCraft(msg) ==
    /\ msg.type = "craft"
    /\ crafts' = msg.crafts
    /\ UNCHANGED <<swarm, frames, health, history, logs, anomalies, relays, pills>>

OnFrame(msg) ==
    /\ msg.type = "frame"
    /\ frames' = Merged(msg.craft, msg.frame)
    /\ health' = [health EXCEPT ![msg.craft] = msg.health]
    /\ history' = [history EXCEPT ![msg.craft] = Window(@, msg.frame)]
    /\ DetectNotifications(msg.craft, msg.frame)
    /\ UNCHANGED <<swarm, crafts, logs, anomalies, relays>>

OnLog(msg) ==
    /\ msg.type = "log"
    /\ logs' = Ring(msg.sn, logs)
    /\ UNCHANGED <<swarm, crafts, frames, health, history, anomalies, relays, pills>>

OnAnomaly(msg) ==
    /\ msg.type = "anomaly"
    /\ anomalies' = Ring(msg.sn, anomalies)
    /\ UNCHANGED <<swarm, crafts, frames, health, history, logs, relays, pills>>

OnRelay(msg) ==
    /\ msg.type = "relay"
    /\ relays' = msg.links
    /\ UNCHANGED <<swarm, crafts, frames, health, history, logs, anomalies, pills>>

OnMessage(msg) ==
    OnHello(msg) \/ OnCraft(msg) \/ OnFrame(msg) \/ OnLog(msg) \/ OnAnomaly(msg) \/ OnRelay(msg)
=============================================================================
