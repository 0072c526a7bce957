--------------------------- MODULE EmergencyTasks ---------------------------
(***************************************************************************)
(* The dynamic recovery tasks (src/emergency/emergency_tasks.c) and the     *)
(* power tokens they share (src/power_manager/power_manager.c).             *)
(*                                                                         *)
(* pc of a recovery: "go" (priority 5, notified), "acquire" (6, wants a     *)
(* token), "work" (in vTaskDelay), "tail" (1, logs and snapshot), "clear"   *)
(* (1, its handle is NULL again, its fault still set), "none".              *)
(***************************************************************************)
EXTENDS CraftState

\* Variant of SpawnOne: the handle is not looked at.
SpawnAlways(f) ==
    /\ \E k \in Instances :
         /\ rec[<<f, k>>] = "none"
         /\ rec' = [rec EXCEPT ![<<f, k>>] = "go"]
    /\ handle' = [handle EXCEPT ![f] = TRUE]
    /\ UNCHANGED <<holders, tokens>>

\* EmergencyTasks_Create, one row: spawn and notify the task if none is in flight.
SpawnOne(f) ==
    IF handle[f]
    THEN UNCHANGED recovery
    ELSE /\ \E k \in Instances :
              /\ rec[<<f, k>>] = "none"
              /\ rec' = [rec EXCEPT ![<<f, k>>] = "go"]
         /\ handle' = [handle EXCEPT ![f] = TRUE]
         /\ UNCHANGED <<holders, tokens>>

\* Start log done; vTaskPrioritySet(NULL, PRIO_HIGHEST).
RecStart(i) ==
    /\ rec[i] = "go"
    /\ CanRun(5)
    /\ rec' = [rec EXCEPT ![i] = "acquire"]
    /\ UNCHANGED <<bits, mode, powerSaving, handle, holders, tokens, ev, sm, power, wdPc>>

\* PowerManager_Acquire succeeds.
RecAcquire(i) ==
    /\ rec[i] = "acquire"
    /\ tokens > 0
    /\ tokens' = tokens - 1
    /\ holders' = holders \cup {i}
    /\ rec' = [rec EXCEPT ![i] = "work"]
    /\ UNCHANGED <<bits, mode, powerSaving, handle, ev, sm, power, wdPc>>

\* Variant of RecAcquireTimeout: gotPower is set although the take failed.
RecAcquireNothing(i) ==
    /\ rec[i] = "acquire"
    /\ tokens = 0
    /\ holders' = holders \cup {i}
    /\ rec' = [rec EXCEPT ![i] = "work"]
    /\ UNCHANGED <<bits, mode, powerSaving, handle, tokens, ev, sm, power, wdPc>>

\* PowerManager_Acquire times out: the recovery goes on without a token.
RecAcquireTimeout(i) ==
    /\ rec[i] = "acquire"
    /\ tokens = 0
    /\ rec' = [rec EXCEPT ![i] = "work"]
    /\ UNCHANGED <<bits, mode, powerSaving, handle, holders, tokens, ev, sm, power, wdPc>>

\* Variant of RecDone: gives a token back whether or not one was taken.
RecDoneGives(i) ==
    /\ rec[i] = "work"
    /\ IF tokens < TokenCount THEN tokens' = tokens + 1 ELSE UNCHANGED tokens
    /\ holders' = holders \ {i}
    /\ rec' = [rec EXCEPT ![i] = "tail"]
    /\ UNCHANGED <<bits, mode, powerSaving, handle, ev, sm, power, wdPc>>

\* Variant of RecDone: a semaphore without a maximum.
RecDoneUncapped(i) ==
    /\ rec[i] = "work"
    /\ tokens' = tokens + 1
    /\ holders' = holders \ {i}
    /\ rec' = [rec EXCEPT ![i] = "tail"]
    /\ UNCHANGED <<bits, mode, powerSaving, handle, ev, sm, power, wdPc>>

\* The mitigation delay is over: give the token back if there is one (a counting
\* semaphore at its maximum stays there), then priority PRIO_MONITOR.
RecDone(i) ==
    /\ rec[i] = "work"
    /\ IF i \in holders /\ tokens < TokenCount THEN tokens' = tokens + 1 ELSE UNCHANGED tokens
    /\ holders' = holders \ {i}
    /\ rec' = [rec EXCEPT ![i] = "tail"]
    /\ UNCHANGED <<bits, mode, powerSaving, handle, ev, sm, power, wdPc>>

\* Completion logs, the retained snapshot, then r->handle = NULL.
\* Bound: a recovery does not overtake an earlier one of its fault that stands one
\* step before its end at the same priority.
RecForget(i) ==
    /\ rec[i] = "tail"
    /\ CanRun(1)
    /\ \A k \in Instances : rec[<<i[1], k>>] # "clear"
    /\ handle' = [handle EXCEPT ![i[1]] = FALSE]
    /\ rec' = [rec EXCEPT ![i] = "clear"]
    /\ UNCHANGED <<bits, mode, powerSaving, holders, tokens, ev, sm, power, wdPc>>

\* Variant of RecClear: the fault is left set.
RecClearNothing(i) ==
    /\ rec[i] = "clear"
    /\ CanRun(1)
    /\ rec' = [rec EXCEPT ![i] = "none"]
    /\ UNCHANGED <<bits, mode, powerSaving, handle, holders, tokens, ev, sm, power, wdPc>>

\* EventManager_ClearFault(r->faultBit) and vTaskDelete(NULL).
RecClear(i) ==
    /\ rec[i] = "clear"
    /\ CanRun(1)
    /\ bits' = bits \ {i[1]}
    /\ rec' = [rec EXCEPT ![i] = "none"]
    /\ UNCHANGED <<mode, powerSaving, handle, holders, tokens, ev, sm, power, wdPc>>

Recover(i) ==
    \/ RecStart(i) \/ RecAcquire(i) \/ RecAcquireTimeout(i) \/ RecDone(i)
    \/ RecForget(i) \/ RecClear(i)
=============================================================================
