------------------------------- MODULE RestApi -------------------------------
(***************************************************************************)
(* The way a command takes from the dashboard (web/frontend/src/lib/api.ts) *)
(* through the proxies of the orchestrator (web/backend/src/index.ts) to a   *)
(* craft.  A request in flight is a record; it reaches its craft, or the     *)
(* proxy answers 500 because the craft does not.  What becomes of a request   *)
(* at the craft - executed, still pending or lost when it is answered - is    *)
(* told in MissionLoop; here is what its execution does.                     *)
(***************************************************************************)
EXTENDS Integers, Sequences, FiniteSets

CONSTANTS
    SWARM,    \* the craft, in the order of config.ts
    Watched,  \* the craft whose faults the model follows
    Fault     \* the faults it follows, by the names of the commands

ASSUME RestAssumption ==
    /\ SWARM \in Seq(STRING)
    /\ Watched \subseteq {SWARM[i] : i \in 1..Len(SWARM)}

VARIABLES
    faults,   \* faults[c]: the fault bits of a craft
    requests  \* the requests in flight

rest == <<faults, requests>>

\* A request: who waits for it, and what it asks of which craft.
Request(by, c, name, action) == [by |-> by, craft |-> c, name |-> name, action |-> action]

SetFault(by, c, name) == Request(by, c, name, "set")
ClearFault(by, c, name) == Request(by, c, name, "clear")
ControlTask(by, c, task) == Request(by, c, task, "suspend")
RunBench(by, c) == Request(by, c, "all", "bench")
RestartCraft(by, c) == Request(by, c, "process", "restart")

RestInit ==
    /\ faults = [c \in Watched |-> {}]
    /\ requests = {}

\* Variant of Commanded: a craft takes a fault of any name.
CommandedAnyName(r) ==
    IF r.craft \in Watched /\ r.action = "set"
    THEN [faults EXCEPT ![r.craft] = @ \cup {r.name}] ELSE faults

\* What a command does to the faults of its craft when CmdProc executes it; a new process
\* starts with none.
Commanded(r) ==
    IF r.craft \notin Watched THEN faults
    ELSE CASE r.action = "set" /\ r.name \in Fault -> [faults EXCEPT ![r.craft] = @ \cup {r.name}]
           [] r.action = "clear"   -> [faults EXCEPT ![r.craft] = @ \ {r.name}]
           [] r.action = "restart" -> [faults EXCEPT ![r.craft] = {}]
           [] OTHER                -> faults
=============================================================================
