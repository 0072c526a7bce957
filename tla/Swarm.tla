-------------------------------- MODULE Swarm --------------------------------
(***************************************************************************)
(* The process manager of the orchestrator (web/backend/src/swarm.ts) and   *)
(* the restart request of index.ts.                                        *)
(*                                                                         *)
(* A process is "running", "signalled" (SIGTERM sent, still there), "killed" *)
(* (it ended after the signal) or "exited" (it ended by itself).  The flag  *)
(* `killed' of Node's ChildProcess is set by a signal that was delivered,   *)
(* never by an exit, and kill() of a process that has ended does nothing.   *)
(***************************************************************************)
EXTENDS Integers, FiniteSets

CONSTANTS
    Craft,        \* the ids of SWARM
    Proc,         \* names for the processes of one craft that exist together
    Moving,       \* bound: the craft that are restarted or whose processes end
    Boot,         \* the process that startSwarm gives each craft
    MaxRequests,  \* bound: restart requests
    MaxDeaths     \* bound: processes that end by themselves

ASSUME SwarmAssumption ==
    /\ Boot \in Proc
    /\ Moving \subseteq Craft
    /\ MaxRequests \in Nat
    /\ MaxDeaths \in Nat

VARIABLES
    proc,      \* proc[c][p]: the state of a process
    current,   \* runtimes.get(c).proc
    status,    \* runtimes.get(c).status.status
    respawns,  \* respawns[c]: pending 800 ms timers of index.ts
    requests,  \* restart requests so far
    deaths     \* processes that ended by themselves so far

swarm == <<proc, current, status, respawns, requests, deaths>>

Alive(c, p) == proc[c][p] \in {"running", "signalled"}

\* startSwarm: spawnCraft of every craft.
SwarmInit ==
    /\ proc = [c \in Craft |-> [p \in Proc |-> IF p = Boot THEN "running" ELSE "killed"]]
    /\ current = [c \in Craft |-> Boot]
    /\ status = [c \in Craft |-> "online"]
    /\ respawns = [c \in Craft |-> 0]
    /\ requests = 0
    /\ deaths = 0

\* POST /api/swarm/:id/restart: killCraft, and a timer that will spawn.
RequestRestart(c) ==
    /\ c \in Moving
    /\ requests < MaxRequests
    /\ requests' = requests + 1
    /\ proc' = [proc EXCEPT ![c][current[c]] = IF @ = "running" THEN "signalled" ELSE @]
    /\ status' = [status EXCEPT ![c] = "offline"]
    /\ respawns' = [respawns EXCEPT ![c] = @ + 1]
    /\ UNCHANGED <<current, deaths>>

\* Variants of Existing: none is looked for; or it is one that has not ended yet.
ExistingIgnored(c) == FALSE
ExistingAlive(c) == Alive(c, current[c])

\* The runtime that spawnCraft finds: a process that was never killed.
Existing(c) == proc[c][current[c]] \notin {"signalled", "killed"}

Spawn(c) ==
    \E p \in Proc \ {current[c]} :
        /\ ~Alive(c, p)
        /\ proc' = [proc EXCEPT ![c][p] = "running"]
        /\ current' = [current EXCEPT ![c] = p]
        /\ status' = [status EXCEPT ![c] = "online"]

\* Variant of SpawnCraft: an interval instead of a timeout.
SpawnCraftAgain(c) ==
    /\ respawns' = [respawns EXCEPT ![c] = @ - 1]
    /\ IF Existing(c) THEN UNCHANGED <<proc, current, status>> ELSE Spawn(c)
    /\ UNCHANGED <<requests, deaths>>

\* The timer fires: spawnCraft.
SpawnCraft(c) ==
    /\ respawns[c] > 0
    /\ respawns' = [respawns EXCEPT ![c] = @ - 1]
    /\ IF Existing(c) THEN UNCHANGED <<proc, current, status>> ELSE Spawn(c)
    /\ UNCHANGED <<requests, deaths>>

\* Variant of OnExit: the handler looks its runtime up by the id of the craft.
OnExitById(c, p, s) == status' = [status EXCEPT ![c] = s]

\* The exit handler writes to the status object of the runtime it was made for.
OnExit(c, p, s) == status' = IF p = current[c] THEN [status EXCEPT ![c] = s] ELSE status

\* A signalled process ends: its exit code is null.
Exit(c, p) ==
    /\ proc[c][p] = "signalled"
    /\ proc' = [proc EXCEPT ![c][p] = "killed"]
    /\ OnExit(c, p, "crashed")
    /\ UNCHANGED <<current, respawns, requests, deaths>>

\* A process ends by itself, with code 0 or another, or never came up ("error").
Die(c, p) ==
    /\ c \in Moving
    /\ proc[c][p] = "running"
    /\ deaths < MaxDeaths
    /\ deaths' = deaths + 1
    /\ proc' = [proc EXCEPT ![c][p] = "exited"]
    /\ \E s \in {"offline", "crashed"} : OnExit(c, p, s)
    /\ UNCHANGED <<current, respawns, requests>>
=============================================================================
