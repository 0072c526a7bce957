--------------------------- MODULE FaultManagement ---------------------------
(***************************************************************************)
(* The fault handling of one craft as a whole: EventMgr, the recovery       *)
(* tasks, SafetyMgr, the watchdog callback and whoever raises or clears     *)
(* faults (the operator through CmdProc, the demo injector, CommWatch).     *)
(***************************************************************************)
EXTENDS EventManager, SafetyManager

CONSTANTS
    Injected,      \* faults that the operator or the injector raises
    Cleared,       \* faults that the operator or the ground clears
    WatchdogActs,  \* whether the watchdog restarts a task
    BatteryMoves   \* levels the battery takes

ASSUME EnvironmentAssumption ==
    /\ Sensed \subseteq Faults
    /\ Injected \subseteq Faults
    /\ Cleared \subseteq Faults
    /\ WatchdogActs \in BOOLEAN
    /\ WatchdogActs => "TASK_HANG" \in Faults
    /\ BatteryMoves \subseteq BatteryLevels
    /\ "high" \in BatteryMoves

Init ==
    /\ bits = {}
    /\ mode = "NORMAL"
    /\ powerSaving = FALSE
    /\ handle = [f \in Recoverable |-> FALSE]
    /\ rec = [i \in Recoveries |-> "none"]
    /\ holders = {}
    /\ tokens = TokenCount
    /\ ev = [pc |-> "wait", last |-> {}, target |-> "NORMAL", todo |-> {}]
    /\ sm = Sleeping
    /\ loadShed = FALSE
    /\ battery = "high"
    /\ wdPc = "idle"

\* CMD_SET_FAULT in CmdProc, at EventMgr's own priority.
Inject(f) ==
    /\ f \notin bits
    /\ CanRun(3)
    /\ MayRaise(f)
    /\ bits' = bits \cup {f}
    /\ UNCHANGED <<mode, powerSaving, recovery, ev, sm, power, wdPc>>

\* CMD_CLEAR_FAULT in CmdProc.
ClearByCommand(f) ==
    /\ f \in bits
    /\ CanRun(3)
    /\ bits' = bits \ {f}
    /\ UNCHANGED <<mode, powerSaving, recovery, ev, sm, power, wdPc>>

\* SensMon, at the lowest priority, steps the power model; SafetyMgr looks at the
\* battery every 2 s only.
BatteryChange ==
    /\ CanRun(1)
    /\ battery' \in BatteryMoves \ {battery}
    /\ UNCHANGED <<bits, mode, powerSaving, recovery, ev, sm, loadShed, wdPc>>

\* WatchdogTimerCallback finds a silent task with a restart left: it raises
\* TASK_HANG, logs, restarts the task, sets RECOVERY mode and clears TASK_HANG.
WdHang ==
    /\ WatchdogActs
    /\ wdPc = "idle"
    /\ bits' = bits \cup {"TASK_HANG"}
    /\ wdPc' = "restart"
    /\ UNCHANGED <<mode, powerSaving, recovery, ev, sm, power>>

WdRestart ==
    /\ wdPc = "restart"
    /\ mode' = "RECOVERY"
    /\ bits' = bits \ {"TASK_HANG"}
    /\ wdPc' = "idle"
    /\ UNCHANGED <<powerSaving, recovery, ev, sm, power>>

Environment ==
    \/ \E f \in Injected : Inject(f)
    \/ \E f \in Cleared : ClearByCommand(f)
    \/ BatteryChange

Next ==
    \/ EventMgr
    \/ SafetyMgr
    \/ \E i \in Recoveries : Recover(i)
    \/ WdHang
    \/ WdRestart
    \/ Environment

Spec == Init /\ [][Next]_vars

\* Every task gets the processor whenever nothing above it is ready, and that is
\* again and again, because every task above it sleeps after each iteration: hence
\* strong fairness.  Nothing obliges the operator, the sensors or the battery.
Fairness ==
    /\ SF_vars(EventMgr)
    /\ SF_vars(SafetyMgr)
    /\ \A i \in Recoveries : SF_vars(Recover(i))
    /\ WF_vars(WdRestart)

FairSpec == Spec /\ Fairness

-----------------------------------------------------------------------------
(* Properties *)

TypeOK ==
    /\ bits \subseteq Faults
    /\ mode \in Modes
    /\ powerSaving \in BOOLEAN
    /\ handle \in [Recoverable -> BOOLEAN]
    /\ rec \in [Recoveries -> {"none", "go", "acquire", "work", "tail", "clear"}]
    /\ holders \subseteq Recoveries
    /\ tokens \in 0..TokenCount
    /\ ev \in [pc : {"wait", "eval", "decide", "setmode", "log", "spawn"},
               last : SUBSET Faults, target : Modes, todo : SUBSET Recoverable]
    /\ sm \in [pc : {"wait", "escalate", "escalated", "shed", "shedding", "process"},
               faults : SUBSET Faults, mode : Modes]
    /\ loadShed \in BOOLEAN
    /\ battery \in BatteryLevels
    /\ wdPc \in {"idle", "restart"}

Finishing == {"none", "clear"}

\* One mitigation for each fault at a time: the handle of a row is non-NULL exactly
\* while a recovery of that fault is still at work, and never two of them are.
SingleMitigation ==
    \A f \in Recoverable :
        /\ handle[f] <=> \E k \in Instances : rec[<<f, k>>] \notin Finishing
        /\ \A k, l \in Instances :
             rec[<<f, k>>] \notin Finishing /\ rec[<<f, l>>] \notin Finishing => k = l

\* No power token is lost or made: those not in the semaphore are with recoveries
\* that are mitigating, also when some recoveries gave up waiting.
TokensConserved ==
    /\ tokens + Cardinality(holders) = TokenCount
    /\ \A i \in holders : rec[i] = "work"

\* The recoveries that hold a token are the users of a budget of TokenCount.
Budget == INSTANCE PowerBudget WITH Clients <- Recoveries, Budget <- TokenCount, using <- holders

\* The semaphore of power_manager.c keeps what the power budget promises.
PowerBudgetKept == Budget!Spec

\* Nobody is in the middle of changing the mode, and EventMgr has reacted to the
\* faults that are active.
Settled == ev.pc = "wait" /\ sm.pc = "wait" /\ wdPc = "idle" /\ ev.last = bits

\* TECHNICAL_REPORT 7, "The system always picks the most serious mode first", and
\* event_manager.c:74, "Re-read the event group every loop and react to changes":
\* once everybody has reacted, the mode is never less serious than the active faults
\* call for.  The code does not keep this.
NeverUnderstated ==
    Settled =>
        /\ bits \cap CriticalFaults # {} => mode = "SAFE"
        /\ bits \cap EmergencyFaults # {} => mode \in {"EMERGENCY", "SAFE"}
        /\ bits # {} => mode \in {"WARNING", "EMERGENCY", "SAFE"}

\* A recoverable fault that is new to EventMgr is cleared in the end, whatever the
\* operator, the battery, the watchdog and the log do meanwhile.
FaultsRecover == \A f \in Recoverable : (f \in bits /\ f \notin ev.last) ~> f \notin bits
=============================================================================
