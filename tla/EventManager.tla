---------------------------- MODULE EventManager ----------------------------
(***************************************************************************)
(* EventMgr (src/event_manager/event_manager.c): turns telemetry samples    *)
(* into faults, and reacts when the event group differs from what it saw in *)
(* its previous iteration.                                                  *)
(*                                                                         *)
(* ev.pc: "wait" (in xQueueSelectFromSet), "eval" (about to read the event  *)
(* group), "decide" (in StateMachine_ProcessEvent, about to look at         *)
(* s_powerSaving), "setmode" (has chosen ev.target), "log" (in Log_Event of *)
(* SetMode), "spawn" (walking over s_recoveries; ev.todo is what is left).  *)
(***************************************************************************)
EXTENDS EmergencyTasks

CONSTANT Sensed  \* faults that a telemetry sample may show

\* xQueueSelectFromSet times out or a sample is there; HandleTelemetrySample
\* raises the faults that the drained samples show.  A battery sample shows
\* FAULT_LOW_BATTERY exactly when the battery is critical.
EvWake ==
    /\ ev.pc = "wait"
    /\ CanRun(3)
    /\ \E shown \in SUBSET {f \in Sensed : MayRaise(f)} :
         /\ "LOW_BATTERY" \in shown => battery = "critical"
         /\ bits' = bits \cup shown
    /\ ev' = [ev EXCEPT !.pc = "eval"]
    /\ UNCHANGED <<mode, powerSaving, recovery, sm, power, wdPc>>

\* Re-read the event group; nothing to do unless it changed.
EvRead ==
    /\ ev.pc = "eval"
    /\ CanRun(3)
    /\ ev' = IF bits = ev.last THEN [ev EXCEPT !.pc = "wait"]
                               ELSE [ev EXCEPT !.pc = "decide", !.last = bits]
    /\ UNCHANGED <<bits, mode, powerSaving, recovery, sm, power, wdPc>>

EvDecide ==
    /\ ev.pc = "decide"
    /\ CanRun(3)
    /\ ev' = [ev EXCEPT !.pc = "setmode", !.target = TargetMode(ev.last, powerSaving)]
    /\ UNCHANGED <<bits, mode, powerSaving, recovery, sm, power, wdPc>>

\* StateMachine_SetMode: only a real change is logged.
EvSetMode ==
    /\ ev.pc = "setmode"
    /\ CanRun(3)
    /\ mode' = ev.target
    /\ ev' = [ev EXCEPT !.pc = IF mode = ev.target THEN "spawn" ELSE "log",
                       !.target = "NORMAL",
                       !.todo = ev.last \cap Recoverable]
    /\ UNCHANGED <<bits, powerSaving, recovery, sm, power, wdPc>>

\* EmergencyTasks_Create.  A recovery that is created preempts EventMgr and runs
\* until it blocks, before the next row is looked at.
EvSpawn ==
    /\ ev.pc \in {"log", "spawn"}
    /\ CanRun(3)
    /\ \E f \in ev.todo :
         /\ SpawnOne(f)
         /\ ev' = [ev EXCEPT !.pc = "spawn", !.todo = @ \ {f}]
    /\ UNCHANGED <<bits, mode, powerSaving, sm, power, wdPc>>

EvSleep ==
    /\ ev.pc \in {"log", "spawn"}
    /\ CanRun(3)
    /\ ev.todo = {}
    /\ ev' = [ev EXCEPT !.pc = "wait"]
    /\ UNCHANGED <<bits, mode, powerSaving, recovery, sm, power, wdPc>>

EventMgr == EvWake \/ EvRead \/ EvDecide \/ EvSetMode \/ EvSpawn \/ EvSleep
=============================================================================
