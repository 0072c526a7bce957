----------------------------- MODULE MissionLoop -----------------------------
(***************************************************************************)
(* The loop that the ground closes around the craft: the console (Simulate)  *)
(* and the craft themselves raise faults, frames show them to the recovery   *)
(* engine (Recovery), and the clears of the engine, of the scenarios and of  *)
(* the operator reach the craft in any order.  An answer does not mean that  *)
(* the craft has done anything: telemetry_server.c answers ok whatever       *)
(* CommandProcessor_Submit did with the command.                            *)
(***************************************************************************)
EXTENDS Recovery, Simulate

CONSTANTS
    OwnFaults,   \* the faults that come and go on the craft by themselves
    Modes,       \* the modes the frames show
    MaxMisses,   \* bound: requests that are not executed before they are answered
    MaxOutages,  \* bound: how often the database fails
    MaxOrders    \* bound: buttons the operator presses, scenarios aside

ASSUME MissionAssumption ==
    /\ OwnFaults \subseteq Fault
    /\ Launchable \subseteq DOMAIN SCENARIOS
    /\ Nothing \notin DOMAIN SCENARIOS
    /\ MaxMounts \in Nat
    /\ Engine \notin Mount \cup {Operator, Adrift}
    /\ {Operator, Adrift} \cap Mount = {}

VARIABLES
    misses,    \* requests that were not executed before they were answered so far
    database,  \* "ok" or "failing"
    outages,   \* failures of the database so far
    orders,    \* single orders of the operator so far
    held       \* history: held[c][f], how long every frame given to the engine has shown f

world == <<misses, database, outages, orders>>
vars == <<rest, memory, console, world, held>>

NotHeld == -1

\* The stale soft faults of recovery.ts:53, as far as the model has them.
Watchable == Fault \cap {"comm", "hang", "queue"}

Init ==
    /\ RestInit
    /\ RecoveryInit
    /\ SimulateInit
    /\ misses = 0
    /\ database = "ok"
    /\ outages = 0
    /\ orders = 0
    /\ held = [c \in Watched |-> [f \in Watchable |-> NotHeld]]

-----------------------------------------------------------------------------
(* The craft, as the ground sees them *)

Busy(m) == loop[m].phase # "idle"

\* A craft gets rid of a fault, or raises one.
Recovers(c) ==
    /\ \E f \in OwnFaults \cap faults[c] : faults' = [faults EXCEPT ![c] = @ \ {f}]
    /\ UNCHANGED <<requests, memory, console, world, held>>

Fails(c) ==
    /\ \E f \in OwnFaults \ faults[c] : faults' = [faults EXCEPT ![c] = @ \cup {f}]
    /\ UNCHANGED <<requests, memory, console, world, held>>

\* The history of each fault.  A frame that the ingest broadcasts and then drops, because
\* one of its rows was refused, is on every screen but not in this history.
Shown(c) ==
    held' = [held EXCEPT ![c] = [f \in Watchable |->
                IF f \in faults[c] THEN (IF @[f] = NotHeld THEN 0 ELSE @[f]) ELSE NotHeld]]

DatabaseFails ==
    /\ outages < MaxOutages
    /\ outages' = outages + 1
    /\ database' = "failing"

\* A frame, of any mode, reaches the engine; the database may fail under its first row.
Frame(c) ==
    /\ database = "ok"
    /\ Shown(c)
    /\ \/ /\ \E mode \in Modes : RecoveryLoop(c, faults[c], mode, FALSE)
          /\ UNCHANGED <<database, outages>>
       \/ /\ DatabaseFails
          /\ \E mode \in Modes : RecoveryLoop(c, faults[c], mode, TRUE)
    /\ UNCHANGED <<faults, console, misses, orders>>

\* The database fails under a row that the ingest writes before it calls the engine: the handler
\* ends there, and so does that of every frame until the database is back.
FrameDropped ==
    /\ database = "ok"
    /\ DatabaseFails
    /\ UNCHANGED <<rest, memory, console, misses, orders, held>>

DatabaseReturns ==
    /\ database = "failing"
    /\ database' = "ok"
    /\ UNCHANGED <<rest, memory, console, misses, outages, orders, held>>

Tick ==
    /\ Age
    /\ held' = [c \in Watched |-> [f \in Watchable |->
           IF held[c][f] = NotHeld THEN NotHeld ELSE Older(held[c][f], StaleAfter)]]
    /\ UNCHANGED <<rest, console, world>>

-----------------------------------------------------------------------------
(* The requests *)

Aside == <<memory, mount, mounts, running, cancelRef, launches, database, outages, orders, held>>

\* Whoever waits for the request gets an answer; left is what is in flight then.
Answered(r, left) ==
    /\ IF r.by \in Mount THEN CallReturns(r.by, left)
       ELSE requests' = left /\ UNCHANGED loop
    /\ UNCHANGED Aside

NotDone ==
    /\ misses < MaxMisses
    /\ misses' = misses + 1
    /\ UNCHANGED faults

\* The craft executes a request, and answers it if that has not been done.
Reach(r) ==
    /\ faults' = Commanded(r)
    /\ Answered(r, requests \ {r})
    /\ UNCHANGED misses

\* An answer without an execution: the craft is not there, so that the proxy answers 500 and hit
\* looks away; or the command buffer is full, or the command gets lost in it, and the craft
\* answers ok all the same.
Miss(r) == NotDone /\ Answered(r, requests \ {r})

\* The answer comes first: CmdProc is suspended, and the command waits in the buffer.
Late(r) ==
    /\ r.by \in Mount
    /\ NotDone
    /\ Answered(r, (requests \ {r}) \cup {[r EXCEPT !.by = Adrift]})

\* The orchestrator is not there: the fetch of the console throws.
Reject(r) ==
    /\ r.by \in Mount
    /\ NotDone
    /\ CallThrows(r.by, requests \ {r})
    /\ UNCHANGED Aside

-----------------------------------------------------------------------------
(* The operator *)

LaunchStep ==
    /\ \E sc \in Launchable : Launch(sc)
    /\ UNCHANGED <<faults, memory, world, held>>

OrderStep ==
    /\ \/ \E c \in Watched, f \in Fault : InjectFault(c, f)
       \/ \E c \in Watched : Restart(c)
       \/ ClearAll
    /\ orders < MaxOrders
    /\ orders' = orders + 1
    /\ UNCHANGED <<faults, memory, misses, database, outages, held>>

WakeStep ==
    /\ \E m \in Mount : Wake(m)
    /\ UNCHANGED <<faults, memory, world, held>>

PageStep ==
    /\ Abort \/ OpenPage \/ LeavePage
    /\ UNCHANGED <<faults, memory, world, held>>

CraftStep(c) == Recovers(c) \/ Fails(c) \/ Frame(c)

\* What may become of a request in flight.
Settle(r) == Reach(r) \/ Miss(r) \/ Late(r) \/ Reject(r)

Next ==
    \/ \E c \in Watched : CraftStep(c)
    \/ FrameDropped
    \/ DatabaseReturns
    \/ Tick
    \/ \E r \in requests : Settle(r)
    \/ LaunchStep
    \/ OrderStep
    \/ WakeStep
    \/ PageStep

Spec == Init /\ [][Next]_vars

\* Every request is answered or fails, frames keep coming, the timers of the console
\* fire.  Nothing obliges the operator or the faults of the craft.
EngineSettles(c, f) == \E r \in requests : r = ClearFault(Engine, c, f) /\ Settle(r)
ScenarioSettles == \E r \in requests : r.by \in Mount /\ Settle(r)

Fairness ==
    /\ \A c \in Watched : WF_vars(Frame(c))
    /\ \A c \in Watched, f \in Watchable : WF_vars(EngineSettles(c, f))
    /\ WF_vars(ScenarioSettles)
    /\ WF_vars(WakeStep)
    /\ WF_vars(DatabaseReturns)
    /\ WF_vars(Tick)

FairSpec == Spec /\ Fairness

-----------------------------------------------------------------------------
(* Properties *)

Requests ==
    [by : Mount \cup {Engine, Operator, Adrift}, craft : {SWARM[i] : i \in 1..Len(SWARM)},
     name : Fault \cup DOMAIN FAULT_NAMES \cup {"CpuMon", "all", "process"},
     action : {"set", "clear", "suspend", "bench", "restart"}]

\* The types of the variables; ages stop counting behind their limits, and the bounds
\* of the model are kept.
TypeOK ==
    /\ faults \in [Watched -> SUBSET Fault]
    /\ requests \subseteq Requests
    /\ lastFaultMask \in [Watched -> SUBSET Fault]
    /\ sinceChange \in [Watched -> 0..StaleAfter + 1]
    /\ sinceSafe \in [Watched -> 0..SafeAfter + 1 \cup {NotSafe}]
    /\ mount \in 0..mounts
    /\ mounts \in 0..MaxMounts
    /\ cancelRef \in [Mount -> BOOLEAN]
    /\ held \in [Watched -> [Watchable -> 0..StaleAfter + 1 \cup {NotHeld}]]

\* recovery.ts:53: only a soft fault that every frame given to the engine has shown for longer
\* than the limit is cleared, also when clears are lost or late, or the database fails under a
\* row of the engine.  Frames that were dropped during an outage do not count: a fault that went
\* and came back in them is still taken for a stale one.
OnlyStaleCleared ==
    [][\A r \in requests' \ requests :
           r.by = Engine /\ r.action = "clear" =>
               r.name \in Watchable /\ held[r.craft][r.name] > StaleAfter]_vars

\* A soft fault that stays on a craft is cleared in the end, again and again when it
\* comes back, unless the other faults of the craft keep changing.
StaleIsCleared ==
    \A c \in Watched, f \in Watchable :
        \/ []<>(f \notin faults[c])
        \/ []<><<faults'[c] \ {f} # faults[c] \ {f}>>_vars

\* Every scenario ends, whichever of its calls fail: the console is never left with a
\* scenario that runs for ever and cannot be launched again.
ScenarioEnds == \A m \in Mount : Busy(m) ~> ~Busy(m)
=============================================================================
