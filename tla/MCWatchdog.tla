----------------------------- MODULE MCWatchdog -----------------------------
(***************************************************************************)
(* Instances of Watchdog for TLC.  One time unit is one second; the periods *)
(* are those of the monitor loops (CpuMon 1 s, HeapMon 5 s)                *)
(* and of PwrMgr, which beats without being registered.                    *)
(***************************************************************************)
EXTENDS Watchdog

CONSTANTS CpuMon, HeapMon, PwrMgr

LoopPeriods ==
    [t \in {CpuMon, HeapMon, PwrMgr} |->
        IF t = CpuMon THEN 1 ELSE IF t = HeapMon THEN 5 ELSE 2]

PeriodsOfTasks == [t \in Tasks |-> LoopPeriods[t]]
=============================================================================
