----------------------------- MODULE CraftState -----------------------------
(***************************************************************************)
(* What the fault-handling tasks of one craft share: the fault event group, *)
(* the operating mode (src/state_machine/system_state.c), the recovery      *)
(* handles, the power tokens, and the fixed-priority scheduler they run on. *)
(*                                                                         *)
(* A task takes a step only when no task of a higher priority is ready.     *)
(* Tasks of equal priority interleave (time slicing).  Log_Event takes      *)
(* xLogMutex for up to 100 ms: with LogContended, a task inside Log_Event   *)
(* is blocked and lower priorities run (load shedding may suspend Diag in   *)
(* the middle of a line, holding the mutex).                                *)
(***************************************************************************)
EXTENDS Integers, FiniteSets

CONSTANTS
    Faults,         \* the faults that may occur in the instance
    Instances,      \* names for the recovery tasks of one fault that exist together
    TokenCount,     \* POWER_TOKEN_COUNT
    EscalateAt,     \* number of simultaneous faults that makes SafetyMgr escalate
    LogContended,   \* whether Log_Event can block
    ReRaise         \* whether a fault may come back before EventMgr saw it gone

\* FAULT_* of config.h, by the mode they call for.
CriticalFaults  == {"DEADLOCK", "TASK_HANG"}
EmergencyFaults == {"HIGH_TEMP", "RADIATION", "LOW_BATTERY", "COMM_TIMEOUT", "SOLAR_LOW",
                    "ATTITUDE", "PRESSURE", "MEMORY_EXHAUSTION"}
AllFaults       == CriticalFaults \cup EmergencyFaults \cup {"QUEUE_OVERFLOW"}

\* SystemMode_t
Modes == {"NORMAL", "WARNING", "DEGRADED", "EMERGENCY", "SAFE", "RECOVERY"}

\* s_recoveries: one row for each emergency fault.
Recoverable == Faults \cap EmergencyFaults
Recoveries  == Recoverable \X Instances

BatteryLevels == {"critical", "low", "mid", "high"}

ASSUME CraftAssumption ==
    /\ Faults \subseteq AllFaults
    /\ IsFiniteSet(Instances)
    /\ TokenCount \in Nat \ {0}
    /\ EscalateAt \in Nat
    /\ LogContended \in BOOLEAN
    /\ ReRaise \in BOOLEAN

VARIABLES
    bits,         \* xSystemEvents
    mode,         \* currentMode
    powerSaving,  \* s_powerSaving
    handle,       \* whether s_recoveries[f].handle is non-NULL
    rec,          \* where each recovery task stands; "none" when it does not exist
    holders,      \* the recovery tasks with gotPower
    tokens,       \* count of xPowerTokens
    ev,           \* EventMgr: [pc, last, target, todo]
    sm,           \* SafetyMgr: [pc, faults, mode]
    loadShed,     \* s_loadShed
    battery,      \* level of the battery against the thresholds
    wdPc          \* the watchdog callback: "idle" or "restart"

recovery == <<handle, rec, holders, tokens>>
power    == <<loadShed, battery>>
vars     == <<bits, mode, powerSaving, recovery, ev, sm, power, wdPc>>

-----------------------------------------------------------------------------
(* The scheduler *)

\* Tasks that are ready to run, by priority.  A task inside Log_Event counts only
\* when the log mutex is free; a task in vTaskDelay or waiting for a token does not.
RecoveryReady(p) ==
    \E i \in Recoveries :
        \/ p = 6 /\ rec[i] = "acquire" /\ tokens > 0
        \/ p = 5 /\ rec[i] = "go" /\ ~LogContended
        \/ p = 1 /\ rec[i] = "tail" /\ ~LogContended
        \/ p = 1 /\ rec[i] = "clear"

EventMgrReady ==
    \/ ev.pc \in {"eval", "decide", "setmode", "spawn"}
    \/ ev.pc = "log" /\ ~LogContended
SafetyMgrReady ==
    \/ sm.pc \in {"shed", "process"}
    \/ sm.pc \in {"escalate", "escalated", "shedding"} /\ ~LogContended
WatchdogReady  == wdPc = "restart" /\ ~LogContended

Ready(p) ==
    \/ RecoveryReady(p)
    \/ p = 3 /\ EventMgrReady
    \/ p = 4 /\ SafetyMgrReady
    \/ p = 6 /\ WatchdogReady

CanRun(p) == \A q \in 1..6 : q > p => ~Ready(q)

-----------------------------------------------------------------------------
(* The state machine *)

\* StateMachine_ProcessEvent: the most serious mode that applies.
TargetMode(fs, saving) ==
    CASE fs \cap CriticalFaults # {}  -> "SAFE"
      [] fs \cap CriticalFaults = {} /\ fs \cap EmergencyFaults # {} -> "EMERGENCY"
      [] fs \cap (CriticalFaults \cup EmergencyFaults) = {} /\ fs # {} -> "WARNING"
      [] fs = {} /\ saving  -> "DEGRADED"
      [] fs = {} /\ ~saving -> "NORMAL"

-----------------------------------------------------------------------------
(* Faults *)

\* A fault may come back at any time, or only once EventMgr has seen it gone.
MayRaise(f) == ReRaise \/ f \notin ev.last
=============================================================================
