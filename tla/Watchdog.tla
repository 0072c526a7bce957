------------------------------ MODULE Watchdog ------------------------------
(***************************************************************************)
(* The software watchdog of one craft (src/watchdog/watchdog.c), together  *)
(* with the monitor loops that feed it and the operator's freeze / unfreeze *)
(* commands that silence them.                                             *)
(*                                                                         *)
(* Time is discrete.  Every task that is due at an instant runs before the *)
(* clock moves; within an instant the scheduler may interleave the tasks   *)
(* in any order, because a heartbeat that started just before a kernel     *)
(* tick is preempted by it half way.  The two critical points of a         *)
(* heartbeat - taking xWatchdogMutex and giving it back - are separate     *)
(* steps, and so are the slots the timer callback walks over: Log_Event    *)
(* may block it between two of them.                                       *)
(*                                                                         *)
(* xTaskCreate failing in the callback is not modelled: the malloc-failed  *)
(* hook of main.c never returns, so that branch is never reached.          *)
(***************************************************************************)
EXTENDS Integers, FiniteSets

CONSTANTS
    Watched,       \* tasks in the table watchedTasks
    Others,        \* tasks that call Watchdog_Heartbeat without being registered
    HasSpec,       \* watched tasks registered with a restart spec
    Period,        \* Period[t]: time units between two iterations of t's loop
    WdTimeout,     \* WD_TIMEOUT_MS
    WdTickPeriod,  \* WD_TICK_PERIOD_MS
    MaxRestarts,   \* MAX_RESTART_ATTEMPTS
    SkipBound,     \* bound: consecutive beats one task loses to a busy mutex
    Freezable,     \* bound: watched tasks that the operator freezes
    FreezeBound,   \* bound: freezes of one incarnation of a task
    Callback,      \* the timer callback, as an owner of the mutex
    Nobody         \* owner of a free mutex

Tasks == Watched \cup Others

Points == {"delayed", "ready", "locked"}

ASSUME WatchdogAssumption ==
    /\ Watched \cap Others = {}
    /\ Callback \notin Tasks
    /\ Nobody \notin Tasks
    /\ Callback # Nobody
    /\ HasSpec \subseteq Watched
    /\ Freezable \subseteq Watched
    /\ Period \in [Tasks -> Nat \ {0}]
    /\ WdTimeout \in Nat
    /\ WdTickPeriod \in Nat \ {0}
    /\ MaxRestarts \in Nat
    /\ SkipBound \in Nat
    /\ FreezeBound \in Nat

\* Something unregistered beats at start-up: SafetyMgr (priority 4) runs before
\* any monitor, and nobody freezes it.
ASSUME SomebodyBeats == Others # {}

VARIABLES
    elapsed,       \* now - lastHeartbeat of each slot
    attempts,      \* restartAttempts of each slot
    isActive,      \* isActive of each slot
    owner,         \* who holds xWatchdogMutex
    timerStarted,  \* bWatchdogTimerStarted
    toTick,        \* time until the timer expires next
    cb,            \* the timer callback: "idle", "due" (expired), "wait" (has read the
                   \* clock and wants the mutex) or "scan"
    hung,          \* slots found silent by the scan in progress, still to be handled
    ahead,         \* slots with a lastHeartbeat later than the clock the callback has read
    taskHang,      \* FAULT_TASK_HANG in the event group
    wdMode,        \* the mode the watchdog wrote last, "none" before the first write
    point,         \* where each task stands in its loop
    due,           \* time until vTaskDelayUntil wakes the task, from its last wake time
    suspended,     \* the task is suspended (/api/suspend)
    skips,         \* consecutive beats the task has skipped
    freezes,       \* freezes of this incarnation of the task
    frozen,        \* history: frozen and no beat recorded since
    lockFrozen     \* history: a task has been frozen inside its heartbeat

table    == <<elapsed, attempts, isActive>>
timer    == <<timerStarted, toTick, cb, hung, ahead>>
outputs  == <<taskHang, wdMode>>
loops    == <<point, due, suspended>>
history  == <<skips, freezes, frozen, lockFrozen>>
vars     == <<table, owner, timer, outputs, loops, history>>

-----------------------------------------------------------------------------
(* Start-up *)

\* Watchdog_Init, then Watchdog_RegisterTask of every monitor before the
\* scheduler starts: each task is about to run its first heartbeat at tick 0.
Init ==
    /\ elapsed = [t \in Watched |-> 0]
    /\ attempts = [t \in Watched |-> 0]
    /\ isActive = [t \in Watched |-> TRUE]
    /\ owner = Nobody
    /\ timerStarted = FALSE
    /\ toTick = WdTickPeriod
    /\ cb = "idle"
    /\ hung = {}
    /\ ahead = {}
    /\ taskHang = FALSE
    /\ wdMode = "none"
    /\ point = [t \in Tasks |-> "ready"]
    /\ due = [t \in Tasks |-> 0]
    /\ suspended = [t \in Tasks |-> FALSE]
    /\ skips = [t \in Tasks |-> 0]
    /\ freezes = [t \in Watched |-> 0]
    /\ frozen = [t \in Watched |-> FALSE]
    /\ lockFrozen = FALSE

-----------------------------------------------------------------------------
(* The monitor loops *)

\* vTaskDelayUntil(&xLastWakeTime, period): the next wake time is one period
\* after the previous one, whenever the task really ran; when that is already
\* past, the call does not block.
Sleep(t) ==
    /\ due' = [due EXCEPT ![t] = @ + Period[t]]
    /\ point' = [point EXCEPT ![t] = IF due[t] + Period[t] > 0 THEN "delayed" ELSE "ready"]

\* The lazy xTimerStart of the first heartbeat.
StartTimer ==
    /\ timerStarted' = TRUE
    /\ toTick' = IF timerStarted THEN toTick ELSE WdTickPeriod

\* Variant of BeatLock: the heartbeat does not look whether the mutex is free.
BeatLockAnyway(t) ==
    /\ ~suspended[t]
    /\ point[t] = "ready"
    /\ owner' = t
    /\ point' = [point EXCEPT ![t] = "locked"]
    /\ StartTimer
    /\ UNCHANGED <<table, cb, hung, ahead, outputs, due, suspended, history>>

\* Watchdog_Heartbeat finds the mutex free: it starts the timer if need be and
\* enters the loop over the slots.  A callback that waits for the mutex is the first
\* to get it: the timer task has the highest priority.
BeatLock(t) ==
    /\ ~suspended[t]
    /\ point[t] = "ready"
    /\ owner = Nobody
    /\ cb # "wait"
    /\ owner' = t
    /\ point' = [point EXCEPT ![t] = "locked"]
    /\ StartTimer
    /\ UNCHANGED <<table, cb, hung, ahead, outputs, due, suspended, history>>

\* Watchdog_Heartbeat finds the mutex taken and skips this beat.  Only a skip
\* against an owner that is making progress counts towards SkipBound.
BeatSkip(t) ==
    /\ ~suspended[t]
    /\ point[t] = "ready"
    /\ owner # Nobody
    /\ \/ skips[t] < SkipBound /\ skips' = [skips EXCEPT ![t] = @ + 1]
       \/ owner \in Tasks /\ suspended[owner] /\ UNCHANGED skips
    /\ StartTimer
    /\ Sleep(t)
    /\ UNCHANGED <<table, owner, cb, hung, ahead, outputs, suspended, freezes, frozen, lockFrozen>>

\* Variant of BeatRecord: the slot still has the handle of the task it was registered with.
BeatRecordOldHandle(t) ==
    /\ ~suspended[t]
    /\ point[t] = "locked"
    /\ owner' = Nobody
    /\ IF t \in Watched /\ isActive[t] /\ attempts[t] = 0
       THEN /\ elapsed' = [elapsed EXCEPT ![t] = 0]
            /\ frozen' = [frozen EXCEPT ![t] = FALSE]
       ELSE UNCHANGED <<elapsed, frozen>>
    /\ skips' = [skips EXCEPT ![t] = 0]
    /\ Sleep(t)
    /\ UNCHANGED <<attempts, isActive, timer, outputs, suspended, freezes, lockFrozen>>

\* The slot of the caller, if it is an active one, gets a new lastHeartbeat;
\* the mutex is given back and the task sleeps until its next iteration.  Kernel
\* ticks may pass while the callback waits for the mutex, and then the new
\* lastHeartbeat is later than the clock the callback has read.
BeatRecord(t) ==
    /\ ~suspended[t]
    /\ point[t] = "locked"
    /\ owner' = Nobody
    /\ IF t \in Watched /\ isActive[t]
       THEN /\ elapsed' = [elapsed EXCEPT ![t] = 0]
            /\ frozen' = [frozen EXCEPT ![t] = FALSE]
            /\ \/ UNCHANGED ahead
               \/ cb = "wait" /\ ahead' = ahead \cup {t}
       ELSE UNCHANGED <<elapsed, frozen, ahead>>
    /\ skips' = [skips EXCEPT ![t] = 0]
    /\ Sleep(t)
    /\ UNCHANGED <<attempts, isActive, timerStarted, toTick, cb, hung, outputs, suspended, freezes,
                   lockFrozen>>

-----------------------------------------------------------------------------
(* The operator *)

\* /api/suspend: vTaskSuspend from the server task, which preempts the
\* monitors at any point of their loops.
Freeze(t) ==
    /\ ~suspended[t]
    /\ freezes[t] < FreezeBound
    /\ suspended' = [suspended EXCEPT ![t] = TRUE]
    /\ freezes' = [freezes EXCEPT ![t] = @ + 1]
    /\ frozen' = [frozen EXCEPT ![t] = TRUE]
    /\ lockFrozen' = (lockFrozen \/ point[t] = "locked")
    /\ UNCHANGED <<table, owner, timer, outputs, point, due, skips>>

\* /api/resume: vTaskResume makes the task ready at once, in the middle of the
\* delay it was in; its next wake time is not moved back.
Unfreeze(t) ==
    /\ suspended[t]
    /\ suspended' = [suspended EXCEPT ![t] = FALSE]
    /\ point' = [point EXCEPT ![t] = IF @ = "delayed" THEN "ready" ELSE @]
    /\ UNCHANGED <<table, owner, timer, outputs, due, history>>

-----------------------------------------------------------------------------
(* WatchdogTimerCallback *)

\* The callback runs and reads the clock, before it asks for the mutex.
ScanRead ==
    /\ cb = "due"
    /\ cb' = "wait"
    /\ UNCHANGED <<table, owner, timerStarted, toTick, hung, ahead, outputs, loops, history>>

\* Variant of Silent: the silence it looks for is one timer period too long.
SilentLate(t) == elapsed[t] > WdTimeout + WdTickPeriod

\* now - lastHeartbeat > WD_TIMEOUT_MS.  The difference is unsigned: a beat later than
\* now makes it wrap around to the longest silence there is.
Silent(t) == elapsed[t] > WdTimeout \/ t \in ahead

\* The mutex is free: the callback takes it and compares the table with the clock it
\* has read.
ScanStart ==
    /\ cb = "wait"
    /\ owner = Nobody
    /\ owner' = Callback
    /\ cb' = "scan"
    /\ hung' = {t \in Watched : isActive[t] /\ Silent(t)}
    /\ UNCHANGED <<table, timerStarted, toTick, ahead, outputs, loops, history>>

\* The 50 ms take fails and the callback returns.  A running owner finishes its
\* loop well before that, at the callback's own priority (the mutex inherits
\* it), so only a suspended owner makes the take fail.
ScanGiveUp ==
    /\ cb = "wait"
    /\ owner \in Tasks
    /\ suspended[owner]
    /\ cb' = "idle"
    /\ ahead' = {}
    /\ UNCHANGED <<table, owner, timerStarted, toTick, hung, outputs, loops, history>>

\* A silent task with restarts left: it is deleted wherever it stands and a new
\* one is created that starts its loop from the top.
Restart(t) ==
    /\ attempts[t] < MaxRestarts
    /\ t \in HasSpec
    /\ elapsed' = [elapsed EXCEPT ![t] = 0]
    /\ attempts' = [attempts EXCEPT ![t] = @ + 1]
    /\ wdMode' = "RECOVERY"
    /\ taskHang' = FALSE
    /\ point' = [point EXCEPT ![t] = "ready"]
    /\ due' = [due EXCEPT ![t] = 0]
    /\ suspended' = [suspended EXCEPT ![t] = FALSE]
    /\ skips' = [skips EXCEPT ![t] = 0]
    /\ freezes' = [freezes EXCEPT ![t] = 0]
    /\ frozen' = [frozen EXCEPT ![t] = FALSE]
    /\ UNCHANGED <<isActive, lockFrozen>>

\* Variant of LogOnly: the budget is not looked at.
LogOnlyAlways(t) ==
    /\ t \notin HasSpec
    /\ attempts' = [attempts EXCEPT ![t] = @ + 1]
    /\ elapsed' = [elapsed EXCEPT ![t] = 0]
    /\ taskHang' = TRUE
    /\ UNCHANGED <<isActive, wdMode, loops, history>>

\* A silent task registered without a restart spec: log only.  TASK_HANG stays.
LogOnly(t) ==
    /\ attempts[t] < MaxRestarts
    /\ t \notin HasSpec
    /\ attempts' = [attempts EXCEPT ![t] = @ + 1]
    /\ elapsed' = [elapsed EXCEPT ![t] = 0]
    /\ taskHang' = TRUE
    /\ UNCHANGED <<isActive, wdMode, loops, history>>

\* Variant of Abandon: off by one, with one restart left.
AbandonEarly(t) ==
    /\ attempts[t] + 1 >= MaxRestarts
    /\ isActive' = [isActive EXCEPT ![t] = FALSE]
    /\ wdMode' = "SAFE"
    /\ taskHang' = TRUE
    /\ UNCHANGED <<elapsed, attempts, loops, history>>

\* No restart left: SAFE mode, and the slot is no longer watched.
Abandon(t) ==
    /\ attempts[t] >= MaxRestarts
    /\ isActive' = [isActive EXCEPT ![t] = FALSE]
    /\ wdMode' = "SAFE"
    /\ taskHang' = TRUE
    /\ UNCHANGED <<elapsed, attempts, loops, history>>

ScanSlot(t) ==
    /\ cb = "scan"
    /\ t \in hung
    /\ hung' = hung \ {t}
    /\ Restart(t) \/ LogOnly(t) \/ Abandon(t)
    /\ UNCHANGED <<owner, timerStarted, toTick, cb, ahead>>

\* Variant of ScanEnd: the callback returns without giving the mutex back.
ScanEndKeeps ==
    /\ cb = "scan"
    /\ hung = {}
    /\ cb' = "idle"
    /\ ahead' = {}
    /\ UNCHANGED <<table, owner, timerStarted, toTick, hung, outputs, loops, history>>

ScanEnd ==
    /\ cb = "scan"
    /\ hung = {}
    /\ cb' = "idle"
    /\ ahead' = {}
    /\ owner' = Nobody
    /\ UNCHANGED <<table, timerStarted, toTick, hung, outputs, loops, history>>

-----------------------------------------------------------------------------
(* Time *)

\* Bound: an elapsed time beyond every deadline is not told apart from a later one.
ElapsedBound == WdTimeout + WdTickPeriod + 1

\* A task that misses whole periods catches up with back-to-back iterations at
\* one instant; they count as one, so only the phase of a late wake is kept.
Sooner(t) == IF due[t] - 1 = -Period[t] THEN 0 ELSE due[t] - 1

\* The clock moves by one unit once every task that can run has gone to sleep
\* and the callback is done.
Advance ==
    /\ cb = "idle"
    /\ \A t \in Tasks : suspended[t] \/ point[t] = "delayed"
    /\ elapsed' = [t \in Watched |->
                     IF isActive[t] /\ elapsed[t] < ElapsedBound THEN elapsed[t] + 1
                                                                 ELSE elapsed[t]]
    /\ due' = [t \in Tasks |-> Sooner(t)]
    /\ point' = [t \in Tasks |-> IF ~suspended[t] /\ due[t] = 1 THEN "ready" ELSE point[t]]
    /\ IF timerStarted
       THEN IF toTick = 1 THEN toTick' = WdTickPeriod /\ cb' = "due"
                          ELSE toTick' = toTick - 1 /\ UNCHANGED cb
       ELSE UNCHANGED <<toTick, cb>>
    /\ UNCHANGED <<attempts, isActive, owner, timerStarted, hung, ahead, outputs, suspended, history>>

-----------------------------------------------------------------------------

Beat(t) == BeatLock(t) \/ BeatSkip(t) \/ BeatRecord(t)

Scan == ScanRead \/ ScanStart \/ ScanGiveUp \/ ScanEnd \/ \E t \in Watched : ScanSlot(t)

Next ==
    \/ \E t \in Tasks : Beat(t)
    \/ \E t \in Freezable : Freeze(t) \/ Unfreeze(t)
    \/ Scan
    \/ Advance

Spec == Init /\ [][Next]_vars

\* The kernel runs every ready task and the timer task, and the clock ticks.
\* Nothing obliges the operator to act.
Fairness ==
    /\ \A t \in Tasks : WF_vars(Beat(t))
    /\ WF_vars(Scan)
    /\ WF_vars(Advance)

FairSpec == Spec /\ Fairness

-----------------------------------------------------------------------------
(* Properties *)

\* The table, the timer, the mutex and the loops hold values of their types.
TypeOK ==
    /\ elapsed \in [Watched -> 0..ElapsedBound]
    /\ attempts \in [Watched -> 0..MaxRestarts]
    /\ isActive \in [Watched -> BOOLEAN]
    /\ owner \in Tasks \cup {Callback, Nobody}
    /\ timerStarted \in BOOLEAN
    /\ toTick \in 1..WdTickPeriod
    /\ cb \in {"idle", "due", "wait", "scan"}
    /\ hung \subseteq Watched
    /\ ahead \subseteq Watched
    /\ taskHang \in BOOLEAN
    /\ wdMode \in {"none", "RECOVERY", "SAFE"}
    /\ point \in [Tasks -> Points]
    /\ due \in [Tasks -> Int]
    /\ suspended \in [Tasks -> BOOLEAN]
    /\ skips \in [Tasks -> 0..SkipBound]
    /\ freezes \in [Watched -> 0..FreezeBound]
    /\ frozen \in [Watched -> BOOLEAN]
    /\ lockFrozen \in BOOLEAN

\* The lock protocol of heartbeat and callback: the owner of the mutex is the one
\* party inside its critical section, so no two update the table together.
MutexConsistent ==
    /\ \A t \in Tasks : point[t] = "locked" <=> owner = t
    /\ cb = "scan" <=> owner = Callback

\* Whatever the watchdog judges hung, it has a cause.  The task was frozen and has not
\* beaten since; or its latest beat came while the callback waited for the mutex (the
\* wrap-around of watchdog.c:41); or the beats it lost to the busy mutex and the wake-ups
\* an unfreeze shifted make up a silence beyond the timeout.  For the monitors of 1 s and
\* 2 s no single loss does; HeapMon beats every 5 s, so that one lost beat does, although
\* config.h:89 calls 7 s a safe margin for it.  A task frozen with the mutex makes every
\* other one lose its beats, so that the promise ends there.
JudgedForCause ==
    ~lockFrozen =>
        \A t \in hung :
            \/ frozen[t]
            \/ t \in ahead
            \/ (skips[t] + freezes[t] + 1) * Period[t] > WdTimeout

\* No active slot has been silent for longer than a scan allows.
Prompt == \A t \in Watched : isActive[t] => elapsed[t] <= WdTimeout + WdTickPeriod
\* Detection is prompt as long as nobody is frozen with the mutex.
DetectionBound == ~lockFrozen => Prompt

\* A slot leaves the table only after it used up every restart, and the restart
\* count of a slot never goes back.
RestartBudget ==
    [][\A t \in Watched :
         /\ attempts'[t] \in {attempts[t], attempts[t] + 1}
         /\ attempts'[t] > attempts[t] => Silent(t)
         /\ isActive[t] /\ ~isActive'[t] => attempts[t] = MaxRestarts
         /\ ~isActive[t] => ~isActive'[t]]_vars

\* A frozen task does not stay unnoticed: it is restarted, unfrozen by the
\* operator, or given up on, unless the mutex was frozen too.
FrozenIsHandled ==
    \A t \in HasSpec : suspended[t] ~> (~suspended[t] \/ ~isActive[t] \/ lockFrozen)

\* A task frozen with the mutex disables the watchdog for everybody (watchdog.c:33), but
\* for no longer than it is frozen: the scans go on unless it stays so for ever.
WatchGoesOn == []<>(cb = "scan") \/ <>[](owner \in Tasks /\ suspended[owner])
=============================================================================
