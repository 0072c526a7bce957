---------------------------- MODULE SafetyManager ----------------------------
(***************************************************************************)
(* SafetyMgr (src/safety_manager/safety_manager.c): every 2 s it reads the  *)
(* active faults and the mode once, then escalates and sheds load on what   *)
(* it read.  The score it publishes feeds nothing back and is left out.     *)
(*                                                                         *)
(* sm.pc: "wait", "escalate" (in the log before SetMode(SAFE)), "escalated" *)
(* (in the log of SetMode), "shed" (about to look at the battery),          *)
(* "shedding" (in the log of SetLoadShed), "process" (about to re-evaluate  *)
(* the mode).                                                               *)
(***************************************************************************)
EXTENDS CraftState

\* Faults that keep SafetyMgr from shedding or restoring load.
SeriousFaults == {"HIGH_TEMP", "RADIATION", "LOW_BATTERY", "MEMORY_EXHAUSTION", "TASK_HANG"}

Overloaded(fs, m) == Cardinality(fs) >= EscalateAt /\ m # "SAFE"

SmRead ==
    /\ sm.pc = "wait"
    /\ CanRun(4)
    /\ sm' = [pc |-> IF Overloaded(bits, mode) THEN "escalate" ELSE "shed",
              faults |-> bits, mode |-> mode]
    /\ UNCHANGED <<bits, mode, powerSaving, recovery, ev, power, wdPc>>

\* StateMachine_SetMode(SYS_MODE_SAFE_MODE).
SmEscalate ==
    /\ sm.pc = "escalate"
    /\ CanRun(4)
    /\ mode' = "SAFE"
    /\ sm' = [sm EXCEPT !.pc = IF mode = "SAFE" THEN "shed" ELSE "escalated"]
    /\ UNCHANGED <<bits, powerSaving, recovery, ev, power, wdPc>>

Sleeping == [pc |-> "wait", faults |-> {}, mode |-> "NORMAL"]

\* SetLoadShed: Diag and Bench, which it suspends or resumes, take no part here.
SetLoadShed(shed) == loadShed' = shed

\* The battery against the two thresholds, unless the faults and the mode read at
\* the start of the cycle are serious.
SmShed ==
    /\ sm.pc \in {"escalated", "shed"}
    /\ CanRun(4)
    /\ LET serious == sm.mode = "SAFE" \/ sm.faults \cap SeriousFaults # {}
           change  == IF loadShed THEN battery = "high" ELSE battery \in {"critical", "low"}
       IN  IF ~serious /\ change
           THEN /\ SetLoadShed(~loadShed)
                /\ sm' = [sm EXCEPT !.pc = "shedding"]
           ELSE /\ sm' = Sleeping
                /\ UNCHANGED loadShed
    /\ UNCHANGED <<bits, mode, powerSaving, recovery, ev, battery, wdPc>>

\* StateMachine_SetPowerSaving(loadShed).
SmSetPowerSaving ==
    /\ sm.pc = "shedding"
    /\ CanRun(4)
    /\ powerSaving' = loadShed
    /\ sm' = [sm EXCEPT !.pc = "process"]
    /\ UNCHANGED <<bits, mode, recovery, ev, power, wdPc>>

\* StateMachine_ProcessEvent(faults), on the faults read at the start of the cycle.
SmProcess ==
    /\ sm.pc = "process"
    /\ CanRun(4)
    /\ mode' = TargetMode(sm.faults, powerSaving)
    /\ sm' = Sleeping
    /\ UNCHANGED <<bits, powerSaving, recovery, ev, power, wdPc>>

SafetyMgr == SmRead \/ SmEscalate \/ SmShed \/ SmSetPowerSaving \/ SmProcess
=============================================================================
