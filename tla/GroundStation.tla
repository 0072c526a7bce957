---------------------------- MODULE GroundStation ----------------------------
(***************************************************************************)
(* The orchestrator of the constellation: the processes of Swarm, the       *)
(* telemetry feed of each craft (web/backend/src/ingest.ts) and the Relay   *)
(* that listens to the frames.                                             *)
(*                                                                         *)
(* A feed is an EventSource on the port of its craft.  The server socket     *)
(* sets SO_REUSEADDR, which in Winsock lets a process bind the port while    *)
(* its predecessor still listens on it; which of them a connection reaches  *)
(* is then undefined.  A frame shows any condition: what the craft does is  *)
(* the subject of FaultManagement.                                         *)
(***************************************************************************)
EXTENDS Swarm, Relay

CONSTANT NoProc  \* no process

ASSUME GroundAssumption == Craft = Ids /\ NoProc \notin Proc

VARIABLES
    bound,  \* bound[c]: the processes listening on the port of c
    conn    \* conn[c]: the process at the other end of the EventSource

feed == <<bound, conn>>
vars == <<swarm, relay, feed>>

Init ==
    /\ SwarmInit
    /\ RelayInit
    /\ bound = [c \in Craft |-> {}]
    /\ conn = [c \in Craft |-> NoProc]

\* The telemetry server of a craft process binds its port and listens.
Bind(c, p) ==
    /\ Alive(c, p)
    /\ p \notin bound[c]
    /\ bound' = [bound EXCEPT ![c] = @ \cup {p}]
    /\ UNCHANGED <<swarm, relay, conn>>

\* open() connects; without a listener it fails and is tried again after the backoff.
Connect(c) ==
    /\ conn[c] = NoProc
    /\ \E p \in bound[c] : conn' = [conn EXCEPT ![c] = p]
    /\ UNCHANGED <<swarm, relay, bound>>

\* Variant of OnError: nothing opens the feed again.
OnErrorCloses(c) ==
    /\ conn[c] # NoProc
    /\ ~Alive(c, conn[c])
    /\ UNCHANGED vars

\* onerror: the other end is gone; close, and open again later.
OnError(c) ==
    /\ conn[c] # NoProc
    /\ ~Alive(c, conn[c])
    /\ conn' = [conn EXCEPT ![c] = NoProc]
    /\ UNCHANGED <<swarm, relay, bound>>

\* onmessage with a frame: recordFrameAck, which moves "starting" to "online" and
\* no other status, and the listeners of the bus.
OnMessage(c, f) ==
    /\ conn[c] # NoProc
    /\ Alive(c, conn[c])
    /\ OnFrame(c, f)
    /\ UNCHANGED <<swarm, feed>>

\* A process that ended listens no more.
FreePort(c) ==
    /\ bound' = [bound EXCEPT ![c] = {p \in @ : proc'[c][p] \notin {"killed", "exited"}}]
    /\ UNCHANGED <<relay, conn>>

Restart(c) == RequestRestart(c) /\ UNCHANGED <<relay, feed>>

Respawn(c) == SpawnCraft(c) /\ UNCHANGED <<relay, feed>>

Ends(c) == (\E p \in Proc : Exit(c, p)) /\ FreePort(c)

EndsItself(c) == (\E p \in Proc : Die(c, p)) /\ FreePort(c)

FeedStep(c) ==
    \/ \E p \in Proc : Bind(c, p)
    \/ Connect(c)
    \/ OnError(c)
    \/ \E f \in Conditions : OnMessage(c, f)

ProcessStep(c) == Restart(c) \/ Respawn(c) \/ Ends(c) \/ EndsItself(c)

Next == \E c \in Craft : ProcessStep(c) \/ FeedStep(c)

Spec == Init /\ [][Next]_vars

\* Timers fire, a signalled process ends, the server and the feed retry for ever.
\* No process has to end by itself and no frame has to show anything.
Fairness ==
    \A c \in Craft :
        /\ WF_vars(Respawn(c))
        /\ WF_vars(Ends(c))
        /\ WF_vars(\E p \in Proc : Bind(c, p))
        /\ WF_vars(Connect(c))
        /\ WF_vars(OnError(c))

FairSpec == Spec /\ Fairness

-----------------------------------------------------------------------------
(* Properties *)

ProcStates == {"running", "signalled", "killed", "exited"}

SwarmTypeOK ==
    /\ proc \in [Craft -> [Proc -> ProcStates]]
    /\ current \in [Craft -> Proc]
    /\ status \in [Craft -> {"online", "offline", "crashed"}]
    /\ respawns \in [Craft -> 0..MaxRequests]
    /\ requests \in 0..MaxRequests
    /\ deaths \in 0..MaxDeaths

\* Every variable holds a value of its type.
TypeOK ==
    /\ SwarmTypeOK
    /\ lastFrame \in [Ids -> Conditions \cup {NoFrame}]
    /\ DOMAIN links \subseteq Ids
    /\ \A d \in DOMAIN links : links[d] \in Ids
    /\ bound \in [Craft -> SUBSET Proc]
    /\ conn \in [Craft -> Proc \cup {NoProc}]

\* However restart requests overlap, a craft never has two processes that nobody
\* told to end (swarm.ts:38), and the one it has is the one the manager knows.
OneProcess == \A c \in Craft : \A p \in Proc : proc[c][p] = "running" => p = current[c]

\* /api/swarm tells the truth: a craft is shown online exactly while its process
\* runs, also when the exit of its predecessor is reported after the respawn.
StatusTruthful == \A c \in Craft : status[c] = "online" <=> proc[c][current[c]] = "running"

\* A process that was killed has a respawn on its way: no restart request is lost
\* between the kill and the timer.
KillIsFollowed ==
    \A c \in Craft : proc[c][current[c]] \in {"signalled", "killed"} => respawns[c] > 0

\* By the last frames heard, a craft has a relay exactly while its own shows COMM_TIMEOUT
\* and that of another craft does not, and the relay is the healthiest of those by its last
\* frame, although recompute publishes only what it takes for a change.  The last frame is
\* all that relay.ts looks at: it prefers no craft that is online (its line 33), so that a
\* craft whose process has ended may be published as the healthiest relay.
HealthiestRelays ==
    LET fit(d) == {o \in Ids \ {d} : lastFrame[o] \notin {NoFrame, "commDown"}}
    IN  /\ DOMAIN links = {d \in Ids : lastFrame[d] = "commDown" /\ fit(d) # {}}
        /\ \A d \in DOMAIN links :
             /\ links[d] \in fit(d)
             /\ \A o \in fit(d) : HealthOf(lastFrame[o]) <= HealthOf(lastFrame[links[d]])

\* The feed of a craft whose process keeps running gets to that process, past a
\* predecessor that still listens on the port and past connections that broke.
TelemetryReturns ==
    \A c \in Craft : proc[c][current[c]] = "running" ~>
                        (conn[c] = current[c] \/ proc[c][current[c]] # "running")
=============================================================================
