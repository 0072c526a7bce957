-------------------------------- MODULE LiveLink --------------------------------
(***************************************************************************)
(* The live link between the orchestrator (the fan-out of                    *)
(* web/backend/src/index.ts) and one dashboard (connectLive of               *)
(* web/frontend/src/lib/store.ts): sockets that carry messages in order, are *)
(* cut with some of them under way, and are opened again by a timer.  A      *)
(* message is a record; sn counts the broadcasts, as receivedAt does.       *)
(***************************************************************************)
EXTENDS DashboardStore, Views

CONSTANTS
    Shapes,     \* mode, faults and strain of the frames craft send
    Links,      \* the lists of relay links
    MaxSends,   \* bound: broadcasts
    MaxOthers,  \* bound: broadcasts other than frames
    MaxCuts,    \* bound: sockets that are cut or refused
    MaxCloses   \* bound: pills closed by hand

\* There are finitely many craft, and so are the faults of a frame; heap, CPU and tokens
\* can only lower a health; a frame is none of the values that stand for its absence.
ASSUME LiveAssumption ==
    /\ IsFiniteSet(Craft)
    /\ {} \in Links
    /\ MaxSends \in Nat
    /\ \A s \in Shapes : IsFiniteSet(s.faults) /\ s.strain \in Nat /\ s.mode # Unseen
    /\ \A s \in Shapes, n \in 1..MaxSends :
           [mode |-> s.mode, faults |-> s.faults, strain |-> s.strain, sn |-> n] # NoFrame
    /\ MAX_TOASTS \in Nat \ {0}
    /\ MAX_HISTORY \in Nat \ {0}
    /\ MAX_RING \in Nat \ {0}

VARIABLES
    latest,   \* the last frame of each craft on the bus
    linked,   \* the relay links as last announced, and when
    framed,   \* frames broadcast so far
    others,   \* other broadcasts so far
    mounted,  \* how often React has run the effect of App
    socks,    \* every WebSocket the dashboard has made
    ws,       \* the index of the last one
    timers,   \* connectLive timers that have not fired
    reconnectDelay,
    cuts,     \* sockets cut or refused so far
    closes,   \* pills closed by hand so far
    alarmed,  \* history: a pill has told of the trouble of a craft, or its first frame was bad
    faulted   \* history: the faults shown since the last "fixed" pill of a craft

server == <<latest, linked, framed, others>>
link == <<mounted, socks, ws, timers, reconnectDelay, cuts>>
told == <<alarmed, faulted>>
vars == <<pills, board, connected, server, link, closes, told>>

Init ==
    /\ StoreInit
    /\ latest = [c \in Craft |-> NoFrame]
    /\ linked = [links |-> {}, sn |-> 0]
    /\ framed = 0
    /\ others = 0
    /\ mounted = 0
    /\ socks = <<>>
    /\ ws = 0
    /\ timers = 0
    /\ reconnectDelay = 1000
    /\ cuts = 0
    /\ closes = 0
    /\ alarmed = [c \in Craft |-> FALSE]
    /\ faulted = [c \in Craft |-> {}]

-----------------------------------------------------------------------------
(* The orchestrator *)

Statuses == [c \in Craft |-> IF latest[c] = NoFrame THEN 0 ELSE latest[c].sn]

\* getHealthScore; the strain is what heap, CPU and power tokens take off.
HealthScore(f) ==
    LET byFaults == IF Cardinality(f.faults) > 4 THEN 40 ELSE 10 * Cardinality(f.faults)
        byMode   == CASE f.mode = "EMERGENCY" -> 20
                      [] f.mode = "SAFE"      -> 35
                      [] f.mode = "RECOVERY"  -> 10
                      [] OTHER                -> 0
        score    == 100 - byFaults - byMode - f.strain
    IN  IF score < 0 THEN 0 ELSE score

\* The clients with readyState 1 get the message.
Sent(msg) ==
    [k \in DOMAIN socks |->
        IF socks[k].served THEN [socks[k] EXCEPT !.queue = Append(@, msg)] ELSE socks[k]]

Broadcast(msg) ==
    /\ socks' = Sent(msg)
    /\ UNCHANGED <<mounted, ws, timers, reconnectDelay, cuts>>

sn == framed + others + 1

BroadcastFrame(c) ==
    /\ sn <= MaxSends
    /\ framed' = framed + 1
    /\ \E s \in Shapes :
          LET f == [mode |-> s.mode, faults |-> s.faults, strain |-> s.strain, sn |-> sn]
          IN  /\ latest' = [latest EXCEPT ![c] = f]
              /\ Broadcast([type |-> "frame", craft |-> c, frame |-> f,
                            health |-> HealthScore(f)])
    /\ UNCHANGED <<pills, board, connected, linked, others, closes, told>>

\* A log line, an anomaly, a change of the relays, the statuses of every second.
BroadcastOther ==
    /\ sn <= MaxSends
    /\ others < MaxOthers
    /\ others' = others + 1
    /\ \/ \E type \in {"log", "anomaly"} :
             Broadcast([type |-> type, sn |-> sn]) /\ UNCHANGED linked
       \/ \E links \in Links \ {linked.links} :
             /\ linked' = [links |-> links, sn |-> sn]
             /\ Broadcast([type |-> "relay", links |-> links])
       \/ Broadcast([type |-> "craft", crafts |-> Statuses]) /\ UNCHANGED linked
    /\ UNCHANGED <<pills, board, connected, latest, framed, closes, told>>

\* A connection reaches the orchestrator: it is one of the clients, and told hello.
Accept(k) ==
    /\ mounted = 2
    /\ socks[k].state = "connecting"
    /\ ~socks[k].served
    /\ socks' = [socks EXCEPT ![k] =
           [state |-> "connecting", served |-> TRUE, from |-> framed + others,
            queue |-> <<[type |-> "hello", crafts |-> Statuses]>>]]
    /\ UNCHANGED <<pills, board, connected, server, mounted, ws, timers, reconnectDelay, cuts,
                   closes, told>>

\* A socket is cut on the way: the first messages under way still arrive.
Cut(k) ==
    /\ socks[k].served
    /\ cuts < MaxCuts
    /\ cuts' = cuts + 1
    /\ \E n \in 0..Len(socks[k].queue) :
          socks' = [socks EXCEPT ![k].served = FALSE, ![k].queue = SubSeq(@, 1, n),
                                 ![k].state = IF @ = "connecting" THEN "failing" ELSE "cut"]
    /\ UNCHANGED <<pills, board, connected, server, mounted, ws, timers, reconnectDelay, closes,
                   told>>

\* A connection that nobody accepts.
Refuse(k) ==
    /\ mounted = 2
    /\ socks[k].state = "connecting"
    /\ ~socks[k].served
    /\ cuts < MaxCuts
    /\ cuts' = cuts + 1
    /\ socks' = [socks EXCEPT ![k].state = "failing"]
    /\ UNCHANGED <<pills, board, connected, server, mounted, ws, timers, reconnectDelay, closes,
                   told>>

-----------------------------------------------------------------------------
(* The dashboard *)

\* ws.readyState <= 1: a socket that was cut looks open until the browser notices.
Lives(k) == socks[k].state \in {"connecting", "failing", "open", "cut"}

NewSocket ==
    /\ socks' = Append(socks, [state |-> "connecting", served |-> FALSE, from |-> 0, queue |-> <<>>])
    /\ ws' = Len(socks) + 1

\* Variants of ConnectLive: without its guard; and with one that any socket passes.
ConnectLiveAlways == NewSocket

ConnectLiveOnce == IF ws # 0 THEN UNCHANGED <<socks, ws>> ELSE NewSocket

\* connectLive does nothing when there is a socket already.
ConnectLive == IF ws # 0 /\ Lives(ws) THEN UNCHANGED <<socks, ws>> ELSE NewSocket

\* The effect of App, which StrictMode runs twice on end: no event of a socket fires in
\* between.
Mount ==
    /\ mounted < 2
    /\ mounted' = mounted + 1
    /\ ConnectLive
    /\ UNCHANGED <<pills, board, connected, server, timers, reconnectDelay, cuts, closes, told>>

\* onopen
Open(k) ==
    /\ socks[k].state = "connecting"
    /\ socks[k].served
    /\ socks' = [socks EXCEPT ![k].state = "open"]
    /\ connected' = TRUE
    /\ reconnectDelay' = 1000
    /\ UNCHANGED <<pills, board, server, mounted, ws, timers, cuts, closes, told>>

NextDelay == IF (reconnectDelay * 8) \div 5 > 6000 THEN 6000 ELSE (reconnectDelay * 8) \div 5

\* onclose, of a socket that was open or, after onerror, of one that never was.
OnClose(k) ==
    /\ socks[k].state \in {"cut", "failing"}
    /\ socks[k].state = "cut" => socks[k].queue = <<>>
    /\ socks' = [socks EXCEPT ![k] =
           [state |-> "closed", served |-> FALSE, from |-> 0, queue |-> <<>>]]
    /\ connected' = FALSE
    /\ timers' = timers + 1
    /\ reconnectDelay' = NextDelay
    /\ UNCHANGED <<pills, board, server, mounted, ws, cuts, closes, told>>

\* The timer that onclose has set.
Reconnect ==
    /\ timers > 0
    /\ timers' = timers - 1
    /\ ConnectLive
    /\ UNCHANGED <<pills, board, connected, server, mounted, reconnectDelay, cuts, closes, told>>

\* What the operator has been told of a craft, once a frame of it is handled.
Told(c, f) ==
    LET new  == toastSeq' > toastSeq
        kind == toasts'[1].kind
    IN  /\ alarmed' = [alarmed EXCEPT ![c] =
               IF lastMode[c] = Unseen THEN IsBad(f)
               ELSE IF new THEN kind # "fixed" ELSE @]
        /\ faulted' = [faulted EXCEPT ![c] =
               IF lastMode[c] = Unseen \/ (new /\ kind = "fixed") THEN {} ELSE @ \cup f.faults]

\* onmessage of the next message of a socket.
Receive(k) ==
    /\ socks[k].state \in {"open", "cut"}
    /\ socks[k].queue # <<>>
    /\ LET msg == Head(socks[k].queue)
       IN  /\ OnMessage(msg)
           /\ IF msg.type = "frame" THEN Told(msg.craft, msg.frame) ELSE UNCHANGED told
    /\ socks' = [socks EXCEPT ![k].queue = Tail(@)]
    /\ UNCHANGED <<connected, server, mounted, ws, timers, reconnectDelay, cuts, closes>>

Gone(id) ==
    /\ Expire(id)
    /\ UNCHANGED <<board, connected, server, link, closes, told>>

ClosePill ==
    /\ closes < MaxCloses
    /\ closes' = closes + 1
    /\ Close
    /\ UNCHANGED <<board, connected, server, link, told>>

Sock == DOMAIN socks

SockStep(k) == Accept(k) \/ Open(k) \/ Receive(k) \/ OnClose(k) \/ Cut(k) \/ Refuse(k)

Next ==
    \/ \E c \in Craft : BroadcastFrame(c)
    \/ BroadcastOther
    \/ \E k \in Sock : SockStep(k)
    \/ Mount
    \/ Reconnect
    \/ \E id \in expiring : Gone(id)
    \/ ClosePill

Spec == Init /\ [][Next]_vars

\* The page is loaded, the orchestrator accepts, the browser fires its events and its
\* timers.  Nothing obliges a socket to be cut, or a craft to send a frame.
Fairness ==
    /\ WF_vars(Mount)
    /\ WF_vars(\E k \in Sock : Accept(k) \/ Open(k) \/ Receive(k) \/ OnClose(k))
    /\ WF_vars(Reconnect)
    /\ WF_vars(\E id \in expiring : Gone(id))

FairSpec == Spec /\ Fairness

-----------------------------------------------------------------------------
(* Properties *)

Types ==
    /\ DOMAIN lastMode = Craft /\ DOMAIN lastFaults = Craft /\ DOMAIN troubleFaults = Craft
    /\ Len(toasts) <= MAX_TOASTS
    /\ toastSeq \in Nat \ {0}
    /\ expiring \subseteq 1..toastSeq - 1
    /\ Len(logs) <= MAX_RING /\ Len(anomalies) <= MAX_RING
    /\ \A c \in Craft : Len(history[c]) <= MAX_HISTORY
    /\ reconnectDelay \in 1000..6000
    /\ alarmed \in [Craft -> BOOLEAN]

\* store.ts:56: there is one socket that lives or one timer that will open it, never
\* both and never two, however often the effect of App runs and sockets are cut; the
\* header says UPLINK exactly while the socket is one that has been opened.
OneConnection ==
    /\ Cardinality({k \in Sock : Lives(k)}) + timers = IF mounted = 0 THEN 0 ELSE 1
    /\ \A k \in Sock : Lives(k) => k = ws
    /\ connected <=> \E k \in Sock : socks[k].state \in {"open", "cut"}

\* Types, the lengths of the rings, and the one connection; every pill that is shown
\* will go, since its timer has not fired.
TypeOK ==
    /\ Types
    /\ OneConnection
    /\ \A i \in DOMAIN toasts : toasts[i].id \in expiring

Synced(k) == socks[k].state = "open" /\ socks[k].served /\ socks[k].queue = <<>>

\* Every place of the pages that tells of a craft in trouble, told by frames f.
AlarmsOf(c) ==
    LET mode == ModeOf(frames[c], NoFrame)
    IN  <<c \in Alerts(swarm, frames, NoFrame),
          Halo(frames[c], NoFrame),
          ModeWords(mode).tone = "crit",
          LedColor(mode) \in {"crit", "orange"},
          MapColor(mode) \in {"crit", "orange"},
          MonitorTab(mode) = "crit",
          RecorderTab(mode) = "crit">>

\* The troubles counted on the fleet page and the ribbon agree with the craft they sum up.
\* The count of craft online is left out: it says how many have ever sent a frame, not
\* how many are sending or alive (see FleetKpis).
Summarized ==
    LET kpis == FleetKpis(swarm, frames, health, NoFrame)
        bad  == Alerts(swarm, frames, NoFrame)
    IN  /\ kpis.inEmergency = Cardinality(bad)
        /\ Ribbon(swarm, frames, NoFrame) = "none" <=> kpis.inEmergency = 0
        /\ kpis.totalFaults = 0 <=> \A c \in Craft : lastFaults[c] = {}
        /\ kpis.avgHealth \in 0..100

\* index.ts:136: once the messages of a socket are handled, the dashboard shows the last
\* frame of every craft that has sent one since the socket was accepted, with its
\* health, and the relay links if they have changed since; and all places that tell of a
\* craft in EMERGENCY or SAFE agree that it is, or that it is not.
ShownIsCurrent ==
    \A k \in Sock : Synced(k) =>
        /\ swarm = Craft
        /\ Summarized
        /\ linked.sn > socks[k].from => relays = linked.links
        /\ \A c \in Craft : latest[c] # NoFrame /\ Statuses[c] > socks[k].from =>
               /\ frames[c] = latest[c]
               /\ health[c] = HealthScore(latest[c])
               /\ history[c][Len(history[c])] = latest[c]
               /\ FaultBadge(frames[c], NoFrame) = Cardinality(latest[c].faults)
               /\ \A i \in DOMAIN AlarmsOf(c) :
                      AlarmsOf(c)[i] <=> latest[c].mode \in {"EMERGENCY", "SAFE"}

\* Nothing is shown twice or out of order: the trend of a craft goes forward in time,
\* the log and the anomalies backward, over any number of connections.
InOrder ==
    /\ \A c \in Craft : \A i, j \in DOMAIN history[c] :
           i < j => history[c][i].sn < history[c][j].sn
    /\ \A i, j \in DOMAIN logs : i < j => logs[i] > logs[j]
    /\ \A i, j \in DOMAIN anomalies : i < j => anomalies[i] > anomalies[j]

\* The screen is neither behind, once all messages are handled, nor out of order, ever.
ScreenIsTrue == ShownIsCurrent /\ InOrder

\* store.ts:163: a "fixed" pill never comes out of the blue: since the last one of its
\* craft a pill has told of the trouble, or the dashboard was opened amid it; and it
\* accounts for every fault the frames have shown in between, whichever were gone
\* before the others came and however often the link was cut.
FixedIsTold ==
    [][\A c \in Craft :
           toastSeq' > toastSeq /\ toasts'[1].craft = c /\ toasts'[1].kind = "fixed" =>
               alarmed[c] /\ faulted[c] \subseteq toasts'[1].about]_vars

\* The dashboard gets its connection back, however often it is cut; and every pill goes,
\* whatever the operator does.
Reconnects == ~connected ~> connected

PillsGo ==
    \A id \in 1..MaxSends - 1 :
        (\E i \in DOMAIN toasts : toasts[i].id = id) ~> (\A i \in DOMAIN toasts : toasts[i].id # id)

LiveAgain == Reconnects /\ PillsGo
=============================================================================
