------------------------------- MODULE Simulate -------------------------------
(***************************************************************************)
(* The scenario console (web/frontend/src/pages/Simulate.tsx).  Every time   *)
(* the page is opened it is mounted anew, with no scenario on show and a     *)
(* cancelRef of its own; a scenario that was running goes on without it.     *)
(***************************************************************************)
EXTENDS RestApi

CONSTANTS
    Launchable,   \* the scenarios the operator launches
    MaxMounts,    \* bound: how often the page is opened
    MaxLaunches,  \* bound: scenarios launched
    Nothing,      \* no scenario, running = null
    Operator,     \* nobody waits for the single injections and for clearAll
    Adrift        \* nobody waits any more: Promise.all was rejected

Mount == 1..MaxMounts

VARIABLES
    mount,      \* the mount on show; 0 when another page is
    mounts,     \* mounts so far
    running,    \* running[m]: the scenario the page shows as running
    cancelRef,  \* of each mount
    loop,       \* loop[m]: where the loop of runScenario stands
    launches    \* scenarios launched so far

console == <<mount, mounts, running, cancelRef, loop, launches>>

-----------------------------------------------------------------------------
(* SCENARIOS *)

Do(c, name, action) == [craft |-> SWARM[c], name |-> name, action |-> action]

\* A step awaits its calls one by one, or all of them at once with Promise.all.
InTurn(calls) == [calls |-> calls, together |-> FALSE]
Together(calls) == [calls |-> calls, together |-> TRUE]
Observe == InTurn(<<>>)

Script(sc) ==
    CASE sc = "thermal-cascade" ->
            [c \in 1..4 |-> InTurn(<<Do(c, "temp", "set")>>)] \o <<Observe>>
      [] sc = "comms-blackout" ->
            <<Together([c \in 1..Len(SWARM) |-> Do(c, "comm", "set")]), Observe, Observe>>
      [] sc = "watchdog-drill" ->
            <<InTurn(<<Do(1, "CpuMon", "suspend")>>), Observe, Observe>>
      [] sc = "stress-test" ->
            <<InTurn(<<Do(2, "temp", "set")>>),
              InTurn(<<Do(2, "battery", "set")>>),
              InTurn(<<Do(2, "radiation", "set")>>),
              Observe,
              InTurn(<<Do(2, "temp", "clear"), Do(2, "battery", "clear"),
                       Do(2, "radiation", "clear")>>)>>

SCENARIOS ==
    [sc \in {"thermal-cascade", "comms-blackout", "watchdog-drill", "stress-test"} |-> Script(sc)]

Idle == [scenario |-> Nothing, step |-> 0, queue |-> <<>>, phase |-> "idle"]

SimulateInit ==
    /\ mount = 0
    /\ mounts = 0
    /\ running = [m \in Mount |-> Nothing]
    /\ cancelRef = [m \in Mount |-> FALSE]
    /\ loop = [m \in Mount |-> Idle]
    /\ launches = 0

-----------------------------------------------------------------------------
(* runScenario *)

Sent(m, call) == Request(m, call.craft, call.name, call.action)

Outstanding(m, pending) == {r \in pending : r.by = m}

\* The step becomes active and its first call, or all of them, are sent.
BeginStep(m, sc, i) ==
    LET step == SCENARIOS[sc][i]
        now  == IF step.together \/ Len(step.calls) <= 1 THEN step.calls ELSE <<Head(step.calls)>>
    IN  /\ requests' = requests \cup {Sent(m, now[k]) : k \in DOMAIN now}
        /\ loop' = [loop EXCEPT ![m] =
               [scenario |-> sc,
                step     |-> i,
                queue    |-> SubSeq(step.calls, Len(now) + 1, Len(step.calls)),
                phase    |-> IF now = <<>> THEN "sleep" ELSE "calls"]]

\* The Launch button: disabled while a scenario is on show.
Launch(sc) ==
    /\ mount # 0
    /\ launches < MaxLaunches
    /\ running[mount] = Nothing
    /\ Len(SWARM) >= 4
    /\ launches' = launches + 1
    /\ cancelRef' = [cancelRef EXCEPT ![mount] = FALSE]
    /\ running' = [running EXCEPT ![mount] = sc]
    /\ BeginStep(mount, sc, 1)
    /\ UNCHANGED <<mount, mounts>>

\* The await of a call returns; the next one is sent, or the step sleeps.
CallReturns(m, left) ==
    LET l == loop[m]
    IN  IF l.queue # <<>>
        THEN /\ requests' = left \cup {Sent(m, Head(l.queue))}
             /\ loop' = [loop EXCEPT ![m].queue = Tail(@)]
        ELSE /\ requests' = left
             /\ loop' = IF Outstanding(m, left) = {} /\ l.phase = "calls"
                        THEN [loop EXCEPT ![m].phase = "sleep"] ELSE loop

\* Variant of CallThrows: nobody catches.
CallThrowsUncaught(m, left) ==
    /\ requests' = {IF r.by = m THEN [r EXCEPT !.by = Adrift] ELSE r : r \in left}
    /\ loop' = [loop EXCEPT ![m].queue = <<>>, ![m].phase = "thrown"]

\* The await throws: the catch ends the step, whatever other calls are on their way.
CallThrows(m, left) ==
    /\ requests' = {IF r.by = m THEN [r EXCEPT !.by = Adrift] ELSE r : r \in left}
    /\ loop' = [loop EXCEPT ![m].queue = <<>>, ![m].phase = "sleep"]

LastStep(m) == loop[m].step = Len(SCENARIOS[loop[m].scenario])

Stops(m) == cancelRef[m] \/ LastStep(m)

\* The sleep of a step is over: it is done; go on, or end.
Wake(m) ==
    /\ loop[m].phase = "sleep"
    /\ IF Stops(m)
       THEN /\ loop' = [loop EXCEPT ![m] = Idle]
            /\ running' = [running EXCEPT ![m] = Nothing]
            /\ UNCHANGED requests
       ELSE /\ BeginStep(m, loop[m].scenario, loop[m].step + 1)
            /\ UNCHANGED running
    /\ UNCHANGED <<mount, mounts, cancelRef, launches>>

\* The Abort button, which takes the place of Launch on the running scenario.
Abort ==
    /\ mount # 0
    /\ running[mount] # Nothing
    /\ cancelRef' = [cancelRef EXCEPT ![mount] = TRUE]
    /\ UNCHANGED <<mount, mounts, running, loop, launches, requests>>

-----------------------------------------------------------------------------
(* The page and its other buttons *)

OpenPage ==
    /\ mount = 0
    /\ mounts < MaxMounts
    /\ mounts' = mounts + 1
    /\ mount' = mounts + 1
    /\ UNCHANGED <<running, cancelRef, loop, launches, requests>>

LeavePage ==
    /\ mount # 0
    /\ mount' = 0
    /\ UNCHANGED <<mounts, running, cancelRef, loop, launches, requests>>

\* Manual injection of one fault into the target.
InjectFault(c, f) ==
    /\ mount # 0
    /\ requests' = requests \cup {SetFault(Operator, c, f)}
    /\ UNCHANGED console

Restart(c) ==
    /\ mount # 0
    /\ requests' = requests \cup {RestartCraft(Operator, c)}
    /\ UNCHANGED console

\* Clear all faults, fleet-wide.
ClearAll ==
    /\ mount # 0
    /\ requests' = requests \cup {ClearFault(Operator, c, f) : c \in Watched, f \in Fault}
    /\ UNCHANGED console
=============================================================================
