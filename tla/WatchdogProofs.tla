--------------------------- MODULE WatchdogProofs ---------------------------
(***************************************************************************)
(* What the watchdog guarantees for any set of watched tasks, any loop     *)
(* periods and any timeout.  The model checker looks at two monitors; here *)
(* the same invariants hold for every value of the constants.              *)
(***************************************************************************)
EXTENDS Watchdog, TLAPS

-----------------------------------------------------------------------------
(* Types *)

\* Start-up gives every variable a value of its type.
LEMMA InitType == Init => TypeOK
  <1> SUFFICES ASSUME Init PROVE TypeOK
    OBVIOUS
  <1> USE WatchdogAssumption DEF WatchdogAssumption, Init
  <1>1. /\ elapsed \in [Watched -> 0..ElapsedBound]
        /\ attempts \in [Watched -> 0..MaxRestarts]
        /\ isActive \in [Watched -> BOOLEAN]
    BY DEF ElapsedBound
  <1>2. /\ point \in [Tasks -> Points]
        /\ due \in [Tasks -> Int]
        /\ suspended \in [Tasks -> BOOLEAN]
    BY DEF Points
  <1>3. /\ skips \in [Tasks -> 0..SkipBound]
        /\ freezes \in [Watched -> 0..FreezeBound]
        /\ frozen \in [Watched -> BOOLEAN]
    OBVIOUS
  <1>4. toTick \in 1..WdTickPeriod
    OBVIOUS
  <1>5. timerStarted \in BOOLEAN /\ taskHang \in BOOLEAN /\ lockFrozen \in BOOLEAN
    OBVIOUS
  <1>6. /\ owner \in Tasks \cup {Callback, Nobody}
        /\ cb \in {"idle", "due", "wait", "scan"}
        /\ hung \subseteq Watched /\ ahead \subseteq Watched
        /\ wdMode \in {"none", "RECOVERY", "SAFE"}
    OBVIOUS
  <1> QED BY <1>1, <1>2, <1>3, <1>4, <1>5, <1>6 DEF TypeOK

\* vTaskDelayUntil keeps the wake time and the place in the loop well typed.
LEMMA SleepType ==
  ASSUME TypeOK, NEW t \in Tasks, Sleep(t)
  PROVE  due' \in [Tasks -> Int] /\ point' \in [Tasks -> Points]
  <1>1. Period[t] \in Int /\ due[t] \in Int
    BY WatchdogAssumption DEF WatchdogAssumption, TypeOK
  <1> QED BY <1>1 DEF Sleep, TypeOK, Points

\* No step of the watchdog, of a monitor, of the operator or of the clock leaves the types.
LEMMA NextType == TypeOK /\ [Next]_vars => TypeOK'
  <1> SUFFICES ASSUME TypeOK, [Next]_vars PROVE TypeOK'
    OBVIOUS
  <1> USE WatchdogAssumption DEF WatchdogAssumption
  <1>1. ASSUME NEW t \in Tasks, BeatLock(t) PROVE TypeOK'
    BY <1>1 DEF BeatLock, StartTimer, TypeOK, Points, table, outputs, history
  <1>2. ASSUME NEW t \in Tasks, BeatSkip(t) PROVE TypeOK'
    <2>1. due' \in [Tasks -> Int] /\ point' \in [Tasks -> Points]
      BY <1>2, SleepType DEF BeatSkip
    <2>2. skips' \in [Tasks -> 0..SkipBound]
      BY <1>2 DEF BeatSkip, TypeOK
    <2> QED BY <1>2, <2>1, <2>2 DEF BeatSkip, StartTimer, TypeOK, table, outputs
  <1>3. ASSUME NEW t \in Tasks, BeatRecord(t) PROVE TypeOK'
    <2>1. due' \in [Tasks -> Int] /\ point' \in [Tasks -> Points]
      BY <1>3, SleepType DEF BeatRecord
    <2>2. elapsed' \in [Watched -> 0..ElapsedBound]
      BY <1>3 DEF BeatRecord, TypeOK, ElapsedBound
    <2>3. frozen' \in [Watched -> BOOLEAN]
      BY <1>3 DEF BeatRecord, TypeOK
    <2>4. skips' \in [Tasks -> 0..SkipBound]
      BY <1>3 DEF BeatRecord, TypeOK
    <2>5. /\ owner' = Nobody
          /\ UNCHANGED <<attempts, isActive, timerStarted, toTick, cb, hung, outputs, suspended,
                         freezes, lockFrozen>>
      BY <1>3 DEF BeatRecord
    <2>6. ahead' \subseteq Watched
      BY <1>3 DEF BeatRecord, TypeOK
    <2> QED BY <2>1, <2>2, <2>3, <2>4, <2>5, <2>6 DEF TypeOK, outputs
  <1>4. ASSUME NEW t \in Watched, Freeze(t) PROVE TypeOK'
    BY <1>4 DEF Freeze, TypeOK, table, timer, outputs, Tasks
  <1>5. ASSUME NEW t \in Watched, Unfreeze(t) PROVE TypeOK'
    BY <1>5 DEF Unfreeze, TypeOK, Points, table, timer, outputs, history, Tasks
  <1>6. CASE ScanRead \/ ScanStart
    BY <1>6 DEF ScanRead, ScanStart, TypeOK, table, outputs, loops, history
  <1>7. CASE ScanGiveUp
    BY <1>7 DEF ScanGiveUp, TypeOK, table, outputs, loops, history
  <1>8. CASE ScanEnd
    BY <1>8 DEF ScanEnd, TypeOK, table, outputs, loops, history
  <1>9. ASSUME NEW t \in Watched, ScanSlot(t) PROVE TypeOK'
    <2> USE <1>9 DEF ScanSlot
    <2>1. CASE Restart(t)
      <3>0. t \in Tasks
        BY DEF Tasks
      <3>1. /\ elapsed' \in [Watched -> 0..ElapsedBound]
            /\ attempts' \in [Watched -> 0..MaxRestarts]
        BY <2>1 DEF Restart, TypeOK, ElapsedBound
      <3>2. /\ point' \in [Tasks -> Points]
            /\ due' \in [Tasks -> Int]
            /\ suspended' \in [Tasks -> BOOLEAN]
        BY <2>1, <3>0 DEF Restart, TypeOK, Points
      <3>3. /\ skips' \in [Tasks -> 0..SkipBound]
            /\ freezes' \in [Watched -> 0..FreezeBound]
            /\ frozen' \in [Watched -> BOOLEAN]
        BY <2>1, <3>0 DEF Restart, TypeOK
      <3>4. /\ UNCHANGED <<isActive, owner, timerStarted, toTick, cb, ahead, lockFrozen>>
            /\ hung' \subseteq Watched
            /\ taskHang' = FALSE
            /\ wdMode' = "RECOVERY"
        BY <2>1 DEF Restart, TypeOK
      <3> QED BY <3>1, <3>2, <3>3, <3>4 DEF TypeOK
    <2>2. CASE LogOnly(t)
      BY <2>2 DEF LogOnly, TypeOK, loops, history, ElapsedBound
    <2>3. CASE Abandon(t)
      BY <2>3 DEF Abandon, TypeOK, loops, history
    <2> QED BY <2>1, <2>2, <2>3
  <1>10. CASE Advance
    <2>1. elapsed' \in [Watched -> 0..ElapsedBound]
      BY <1>10 DEF Advance, TypeOK, ElapsedBound
    <2>2. due' \in [Tasks -> Int]
      BY <1>10 DEF Advance, TypeOK, Sooner
    <2>3. point' \in [Tasks -> Points]
      BY <1>10 DEF Advance, TypeOK, Points
    <2>4. toTick' \in 1..WdTickPeriod /\ cb' \in {"idle", "due", "wait", "scan"}
      BY <1>10 DEF Advance, TypeOK
    <2> QED BY <1>10, <2>1, <2>2, <2>3, <2>4 DEF Advance, TypeOK, outputs, history
  <1>11. CASE UNCHANGED vars
    BY <1>11 DEF TypeOK, vars, table, timer, outputs, loops, history
  <1> QED
    BY <1>1, <1>2, <1>3, <1>4, <1>5, <1>6, <1>7, <1>8, <1>9, <1>10, <1>11
    DEF Next, Beat, Scan

\* Every reachable state of the watchdog and of the monitor loops is well typed.
THEOREM TypeCorrect == Spec => []TypeOK
  <1> QED BY InitType, NextType, PTL DEF Spec

-----------------------------------------------------------------------------
(* The lock protocol *)

\* Heartbeats and the timer callback exclude one another from the table: the
\* owner of xWatchdogMutex is the one party inside its critical section, even
\* when the operator freezes a task that holds the mutex.
THEOREM MutexSafe == Spec => []MutexConsistent
  <1> USE WatchdogAssumption DEF WatchdogAssumption
  <1>1. Init => MutexConsistent
    BY DEF Init, MutexConsistent
  <1>2. TypeOK /\ MutexConsistent /\ [Next]_vars => MutexConsistent'
    <2> SUFFICES ASSUME TypeOK, MutexConsistent, [Next]_vars PROVE MutexConsistent'
      OBVIOUS
    <2> USE DEF TypeOK, MutexConsistent
    <2>1. ASSUME NEW t \in Tasks, BeatLock(t) PROVE MutexConsistent'
      BY <2>1 DEF BeatLock
    <2>2. ASSUME NEW t \in Tasks, BeatSkip(t) PROVE MutexConsistent'
      BY <2>2 DEF BeatSkip, Sleep
    <2>3. ASSUME NEW t \in Tasks, BeatRecord(t) PROVE MutexConsistent'
      BY <2>3 DEF BeatRecord, Sleep, timer
    <2>4. ASSUME NEW t \in Watched, Freeze(t) PROVE MutexConsistent'
      BY <2>4 DEF Freeze, timer
    <2>5. ASSUME NEW t \in Watched, Unfreeze(t) PROVE MutexConsistent'
      BY <2>5 DEF Unfreeze, timer, Tasks
    <2>6. CASE ScanRead \/ ScanStart
      BY <2>6 DEF ScanRead, ScanStart, loops
    <2>7. CASE ScanGiveUp
      BY <2>7 DEF ScanGiveUp, loops
    <2>8. CASE ScanEnd
      BY <2>8 DEF ScanEnd, loops
    <2>9. ASSUME NEW t \in Watched, ScanSlot(t) PROVE MutexConsistent'
      BY <2>9 DEF ScanSlot, Restart, LogOnly, Abandon, loops, Tasks
    <2>10. CASE Advance
      BY <2>10 DEF Advance
    <2>11. CASE UNCHANGED vars
      BY <2>11 DEF vars, timer, loops
    <2> QED
      BY <2>1, <2>2, <2>3, <2>4, <2>5, <2>6, <2>7, <2>8, <2>9, <2>10, <2>11
      DEF Next, Beat, Scan
  <1> QED BY TypeCorrect, <1>1, <1>2, PTL DEF Spec

-----------------------------------------------------------------------------
(* Detection *)

\* A suspended task is a watched one, and it was not suspended inside its heartbeat.
LockRuns == \A t \in Tasks : suspended[t] => t \in Watched /\ point[t] # "locked"

\* Before the first heartbeat nothing has moved: the timer is not running, and
\* the clock stands because every task still has to run.
BeforeTimer ==
    ~timerStarted =>
        /\ owner = Nobody
        /\ cb = "idle"
        /\ \A t \in Watched : elapsed[t] = 0
        /\ \A t \in Tasks : point[t] = "ready"

\* How silent an active slot may be, depending on how far off the next scan is.
SilenceBounded ==
    \A t \in Watched : isActive[t] =>
        /\ elapsed[t] <= WdTimeout + WdTickPeriod
        /\ cb = "idle" => elapsed[t] + toTick <= WdTimeout + WdTickPeriod
        /\ cb = "scan" => elapsed[t] <= WdTimeout \/ t \in hung

ScanPending == cb # "idle" => toTick = WdTickPeriod

Detection == LockRuns /\ BeforeTimer /\ SilenceBounded /\ ScanPending

\* No slot is silent at start-up.
LEMMA DetectionInit == Init => Detection
  BY WatchdogAssumption
  DEF WatchdogAssumption, Init, Detection, LockRuns, BeforeTimer, SilenceBounded, ScanPending

\* Before a step no task had been frozen with the mutex if none has after it.
LEMMA LockFrozenStays ==
  ASSUME TypeOK, [Next]_vars, ~lockFrozen'
  PROVE  ~lockFrozen
  BY DEF TypeOK, Next, Beat, BeatLock, BeatSkip, BeatRecord, Freeze, Unfreeze, Scan, ScanRead, ScanStart,
         ScanGiveUp, ScanEnd, ScanSlot, Restart, LogOnly, Abandon, Advance, vars, history

\* While tasks freeze outside the mutex only, its owner is never suspended.
LEMMA LockRunsStep ==
  ASSUME ~lockFrozen', TypeOK, LockRuns, [Next]_vars
  PROVE  LockRuns'
  <1> USE DEF LockRuns, TypeOK
  <1>1. ASSUME NEW t \in Tasks, Beat(t) PROVE LockRuns'
    BY <1>1 DEF Beat, BeatLock, BeatSkip, BeatRecord, Sleep
  <1>2. ASSUME NEW t \in Watched, Freeze(t) \/ Unfreeze(t) PROVE LockRuns'
    BY <1>2 DEF Freeze, Unfreeze, Tasks
  <1>3. CASE Scan
    <2>1. ASSUME NEW t \in Watched, Restart(t) PROVE LockRuns'
      BY <2>1 DEF Restart, Tasks
    <2> QED
      BY <1>3, <2>1
      DEF Scan, ScanRead, ScanStart, ScanGiveUp, ScanEnd, ScanSlot, LogOnly, Abandon, loops
  <1>4. CASE Advance
    BY <1>4 DEF Advance
  <1>5. CASE UNCHANGED vars
    BY <1>5 DEF vars, loops
  <1>6. Freezable \subseteq Watched
    BY WatchdogAssumption DEF WatchdogAssumption
  <1> QED BY <1>1, <1>2, <1>3, <1>4, <1>5, <1>6 DEF Next

\* The callback never gives up: whoever holds the mutex is running.
LEMMA NoGiveUp ==
  ASSUME TypeOK, MutexConsistent, LockRuns
  PROVE  ~ScanGiveUp
  BY DEF ScanGiveUp, MutexConsistent, LockRuns

\* The clock moves only once the timer has been started.
LEMMA AdvanceNeedsTimer ==
  ASSUME TypeOK, LockRuns, BeforeTimer, Advance
  PROVE  timerStarted
  <1>1. PICK o \in Others : TRUE
    BY SomebodyBeats
  <1>2. o \in Tasks /\ o \notin Watched
    BY WatchdogAssumption DEF WatchdogAssumption, Tasks
  <1> QED BY <1>1, <1>2 DEF Advance, LockRuns, BeforeTimer, TypeOK

\* No step lets a silence outgrow its bound.
LEMMA DetectionStep ==
  ASSUME ~lockFrozen', TypeOK, MutexConsistent, Detection, [Next]_vars
  PROVE  Detection'
  <1> USE WatchdogAssumption DEF WatchdogAssumption, Detection, TypeOK
  <1>0. LockRuns'
    BY LockRunsStep
  <1> DEFINE Rest == BeforeTimer /\ SilenceBounded /\ ScanPending
  <1> SUFFICES Rest'
    BY <1>0
  <1> USE DEF BeforeTimer, SilenceBounded, ScanPending
  <1>1. ASSUME NEW t \in Tasks, BeatLock(t) PROVE Rest'
    BY <1>1 DEF BeatLock, StartTimer, table
  <1>2. ASSUME NEW t \in Tasks, BeatSkip(t) PROVE Rest'
    BY <1>2 DEF BeatSkip, StartTimer, table
  <1>3. ASSUME NEW t \in Tasks, BeatRecord(t) PROVE Rest'
    <2>1. timerStarted
      BY <1>3 DEF BeatRecord
    <2> QED BY <1>3, <2>1 DEF BeatRecord
  <1>4. ASSUME NEW t \in Watched, Freeze(t) PROVE Rest'
    BY <1>4 DEF Freeze, table, timer
  <1>5. ASSUME NEW t \in Watched, Unfreeze(t) PROVE Rest'
    BY <1>5 DEF Unfreeze, table, timer, Tasks
  <1>6. CASE ScanRead \/ ScanStart
    BY <1>6 DEF ScanRead, ScanStart, Silent, table, loops
  <1>7. CASE ScanGiveUp
    BY <1>7, NoGiveUp
  <1>8. CASE ScanEnd
    BY <1>8 DEF ScanEnd, table, loops
  <1>9. ASSUME NEW t \in Watched, ScanSlot(t) PROVE Rest'
    <2>1. timerStarted
      BY <1>9 DEF ScanSlot
    <2>2. CASE Restart(t)
      BY <1>9, <2>1, <2>2 DEF ScanSlot, Restart
    <2>3. CASE LogOnly(t)
      BY <1>9, <2>1, <2>3 DEF ScanSlot, LogOnly
    <2>4. CASE Abandon(t)
      BY <1>9, <2>1, <2>4 DEF ScanSlot, Abandon
    <2> QED BY <1>9, <2>2, <2>3, <2>4 DEF ScanSlot
  <1>10. CASE Advance
    <2>1. timerStarted
      BY <1>10, AdvanceNeedsTimer
    <2> QED BY <1>10, <2>1 DEF Advance
  <1>11. CASE UNCHANGED vars
    BY <1>11 DEF vars, table, timer, loops
  <1> QED
    BY <1>1, <1>2, <1>3, <1>4, <1>5, <1>6, <1>7, <1>8, <1>9, <1>10, <1>11
    DEF Next, Beat, Scan

\* As long as nobody has been frozen inside a heartbeat, every silent slot is
\* found within the timeout plus one timer period, for any number of tasks.
THEOREM DetectionPrompt == Spec => []DetectionBound
  <1> DEFINE IInv == ~lockFrozen => Detection
  <1>1. Init => IInv
    BY DetectionInit
  <1>2. TypeOK /\ MutexConsistent /\ IInv /\ [Next]_vars => IInv'
    BY LockFrozenStays, DetectionStep
  <1>3. IInv => DetectionBound
    BY DEF Detection, SilenceBounded, DetectionBound, Prompt
  <1> QED BY TypeCorrect, MutexSafe, <1>1, <1>2, <1>3, PTL DEF Spec

-----------------------------------------------------------------------------
(* Accuracy *)

\* Where a task is in its period.  Only a frozen one can be late for its own
\* wake-up; one that is not suspended and asleep still has a unit to go.
Phase ==
    \A t \in Watched :
        /\ due[t] > -Period[t]
        /\ suspended[t] => frozen[t]
        /\ point[t] = "delayed" /\ ~suspended[t] => due[t] >= 1
        /\ ~frozen[t] => due[t] >= 0

\* Every unfreeze brings at most one iteration forward, and so pushes the next
\* wake-up at most one period further away.
PhaseShift ==
    \A t \in Watched :
        /\ due[t] <= (freezes[t] + 1) * Period[t]
        /\ point[t] # "delayed" \/ suspended[t] => due[t] <= freezes[t] * Period[t]

\* The silence of a slot is paid for by skipped beats and shifted wake-ups.
SilencePaid ==
    \A t \in Watched : isActive[t] /\ ~frozen[t] =>
        elapsed[t] + due[t] <= (skips[t] + freezes[t] + 1) * Period[t]

Accuracy == Phase /\ PhaseShift /\ SilencePaid

\* Arithmetic: one more skipped beat is one more period.
LEMMA MulStep ==
  ASSUME NEW n \in Nat, NEW p \in Nat
  PROVE  /\ (n + 1) * p = n * p + p
         /\ n * p >= 0
  <1>1. (n + 1) * p = n * p + p
    OBVIOUS
  <1>2. n * p >= 0
    OBVIOUS
  <1> QED BY <1>1, <1>2

\* At start-up every task is about to beat for the first time.
LEMMA AccuracyInit == Init => Accuracy
  <1> SUFFICES ASSUME Init PROVE Accuracy
    OBVIOUS
  <1>1. \A t \in Watched : t \in Tasks /\ Period[t] \in Nat /\ Period[t] > 0
    BY WatchdogAssumption DEF WatchdogAssumption, Tasks
  <1>2. Phase
    BY <1>1 DEF Init, Phase
  <1>3. PhaseShift /\ SilencePaid
    BY <1>1 DEF Init, PhaseShift, SilencePaid
  <1> QED BY <1>2, <1>3 DEF Accuracy

\* One iteration more: the task sleeps until the wake-up after the one it was at.
LEMMA SleepPhase ==
  ASSUME TypeOK, Phase, PhaseShift, NEW t \in Watched, Sleep(t),
         ~suspended[t], point[t] # "delayed"
  PROVE  /\ due'[t] = due[t] + Period[t]
         /\ due'[t] >= 1
         /\ due'[t] <= (freezes[t] + 1) * Period[t]
         /\ point'[t] = "delayed"
         /\ \A u \in Watched \ {t} : due'[u] = due[u] /\ point'[u] = point[u]
  <1>1. t \in Tasks /\ Period[t] \in Nat /\ due[t] \in Int /\ freezes[t] \in Nat
    BY WatchdogAssumption DEF WatchdogAssumption, TypeOK, Tasks
  <1>2. /\ due'[t] = due[t] + Period[t]
        /\ point'[t] = IF due[t] + Period[t] > 0 THEN "delayed" ELSE "ready"
        /\ \A u \in Watched \ {t} : due'[u] = due[u] /\ point'[u] = point[u]
    BY <1>1 DEF Sleep, TypeOK, Tasks
  <1>3. due[t] > -Period[t] /\ due[t] <= freezes[t] * Period[t]
    BY DEF Phase, PhaseShift
  <1>4. (freezes[t] + 1) * Period[t] = freezes[t] * Period[t] + Period[t]
    BY <1>1, MulStep
  <1>5. freezes[t] * Period[t] \in Int
    BY <1>1
  <1> QED BY <1>1, <1>2, <1>3, <1>4, <1>5

\* A skipped beat keeps the account of silence.
LEMMA SkipAccuracy ==
  ASSUME TypeOK, LockRuns, MutexConsistent, Accuracy, NEW t \in Tasks, BeatSkip(t)
  PROVE  Accuracy'
  <1> USE DEF BeatSkip
  <1>1. /\ UNCHANGED <<elapsed, isActive, cb, hung, suspended, freezes, frozen>>
        /\ ~suspended[t] /\ point[t] = "ready" /\ Sleep(t)
    BY DEF table
  <1>2. skips[t] < SkipBound /\ skips' = [skips EXCEPT ![t] = @ + 1]
    BY DEF LockRuns, MutexConsistent
  <1>3. CASE t \notin Watched
    <2>1. \A u \in Watched : due'[u] = due[u] /\ point'[u] = point[u] /\ skips'[u] = skips[u]
      BY <1>1, <1>2, <1>3 DEF Sleep, TypeOK, Tasks
    <2> QED
      BY <1>1, <2>1
      DEF Accuracy, Phase, PhaseShift, SilencePaid
  <1>4. CASE t \in Watched
    <2>1. /\ due'[t] = due[t] + Period[t]
          /\ due'[t] >= 1
          /\ due'[t] <= (freezes[t] + 1) * Period[t]
          /\ point'[t] = "delayed"
          /\ \A u \in Watched \ {t} : due'[u] = due[u] /\ point'[u] = point[u]
      BY <1>1, <1>4, SleepPhase DEF Accuracy
    <2>2. /\ skips'[t] = skips[t] + 1
          /\ \A u \in Watched \ {t} : skips'[u] = skips[u]
      BY <1>2, <1>4 DEF TypeOK, Tasks
    <2>3. /\ Period[t] \in Nat \ {0} /\ skips[t] \in Nat /\ freezes[t] \in Nat
          /\ elapsed[t] \in Int /\ due[t] \in Int
      BY <1>4, WatchdogAssumption DEF WatchdogAssumption, TypeOK, Tasks, ElapsedBound
    <2>4. Phase'
      BY <1>1, <2>1, <2>3 DEF Accuracy, Phase
    <2>5. PhaseShift'
      BY <1>1, <2>1 DEF Accuracy, PhaseShift
    <2>6. SilencePaid'
      <3> DEFINE n == skips[t] + freezes[t] + 1
      <3>1. skips'[t] + freezes'[t] + 1 = n + 1 /\ n \in Nat
        BY <1>1, <2>2, <2>3
      <3>2. (n + 1) * Period[t] = n * Period[t] + Period[t] /\ n * Period[t] \in Int
        <4>1. n \in Nat /\ Period[t] \in Nat
          BY <2>3, <3>1
        <4> HIDE DEF n
        <4>2. (n + 1) * Period[t] = n * Period[t] + Period[t]
          BY <4>1, MulStep
        <4>3. n * Period[t] \in Int
          BY <4>1
        <4> QED BY <4>2, <4>3
      <3>3. isActive[t] /\ ~frozen[t] => elapsed[t] + due[t] <= n * Period[t]
        BY <1>4 DEF Accuracy, SilencePaid
      <3>4. isActive'[t] /\ ~frozen'[t] => elapsed'[t] + due'[t] <= (n + 1) * Period[t]
        <4> HIDE DEF n
        <4> QED BY <1>1, <2>1, <2>3, <3>2, <3>3
      <3>5. \A u \in Watched \ {t} : isActive'[u] /\ ~frozen'[u] =>
              elapsed'[u] + due'[u] <= (skips'[u] + freezes'[u] + 1) * Period[u]
        BY <1>1, <2>1, <2>2 DEF Accuracy, SilencePaid
      <3> HIDE DEF n
      <3> QED BY <3>1, <3>4, <3>5 DEF SilencePaid
    <2> QED BY <1>1, <2>4, <2>5, <2>6 DEF Accuracy
  <1> QED BY <1>3, <1>4

\* A recorded beat settles the account of silence.
LEMMA RecordAccuracy ==
  ASSUME TypeOK, LockRuns, MutexConsistent, Accuracy, NEW t \in Tasks, BeatRecord(t)
  PROVE  Accuracy'
  <1>1. /\ UNCHANGED <<isActive, suspended, freezes>>
        /\ ~suspended[t] /\ point[t] = "locked" /\ Sleep(t)
    BY DEF BeatRecord
  <1>4. \A u \in Watched \ {t} :
          /\ due'[u] = due[u] /\ point'[u] = point[u] /\ skips'[u] = skips[u]
          /\ elapsed'[u] = elapsed[u] /\ frozen'[u] = frozen[u]
    BY DEF BeatRecord, Sleep, TypeOK, Tasks
  <1>5. CASE t \notin Watched
    BY <1>1, <1>4, <1>5 DEF Accuracy, Phase, PhaseShift, SilencePaid
  <1>6. CASE t \in Watched
    <2>1. /\ due'[t] = due[t] + Period[t]
          /\ due'[t] >= 1
          /\ due'[t] <= (freezes[t] + 1) * Period[t]
          /\ point'[t] = "delayed"
      BY <1>1, <1>6, SleepPhase DEF Accuracy
    <2>2. /\ skips'[t] = 0
          /\ isActive[t] => elapsed'[t] = 0 /\ frozen'[t] = FALSE
          /\ ~isActive[t] => elapsed'[t] = elapsed[t] /\ frozen'[t] = frozen[t]
      BY <1>6 DEF BeatRecord, TypeOK
    <2>3. /\ Period[t] \in Nat \ {0} /\ freezes[t] \in Nat /\ due[t] \in Int
      BY <1>6, WatchdogAssumption DEF WatchdogAssumption, TypeOK, Tasks
    <2>4. Phase'
      BY <1>1, <1>4, <2>1, <2>3 DEF Accuracy, Phase
    <2>5. PhaseShift'
      BY <1>1, <1>4, <2>1 DEF Accuracy, PhaseShift
    <2>6. SilencePaid'
      <3>1. isActive[t] => elapsed'[t] + due'[t] <= (skips'[t] + freezes'[t] + 1) * Period[t]
        <4>1. skips'[t] + freezes'[t] + 1 = freezes[t] + 1
          BY <1>1, <2>2, <2>3
        <4>2. due'[t] \in Int
          BY <2>1, <2>3
        <4> QED BY <2>1, <2>2, <4>1, <4>2
      <3>2. \A u \in Watched \ {t} : isActive'[u] /\ ~frozen'[u] =>
              elapsed'[u] + due'[u] <= (skips'[u] + freezes'[u] + 1) * Period[u]
        BY <1>1, <1>4 DEF Accuracy, SilencePaid
      <3> QED BY <1>1, <3>1, <3>2 DEF SilencePaid
    <2> QED BY <2>4, <2>5, <2>6 DEF Accuracy
  <1> QED BY <1>5, <1>6

\* A freeze exempts its task from the account.
LEMMA FreezeAccuracy ==
  ASSUME TypeOK, Accuracy, NEW t \in Watched, Freeze(t)
  PROVE  Accuracy'
  <1>0. /\ Period[t] \in Nat /\ freezes[t] \in Nat /\ due[t] \in Int
    BY WatchdogAssumption DEF WatchdogAssumption, TypeOK, Tasks
  <1> USE DEF Freeze, Accuracy, TypeOK
  <1>1. t \in Tasks
    BY DEF Tasks
  <1>2. Phase'
    BY <1>1 DEF Phase
  <1>3. PhaseShift'
    <2>2. /\ ((freezes[t] + 1) + 1) * Period[t] = (freezes[t] + 1) * Period[t] + Period[t]
          /\ (freezes[t] + 1) * Period[t] \in Int
      BY <1>0, MulStep
    <2>3. due[t] <= (freezes[t] + 1) * Period[t]
      BY DEF PhaseShift
    <2>4. /\ freezes'[t] = freezes[t] + 1
          /\ \A u \in Watched \ {t} : freezes'[u] = freezes[u] /\ suspended'[u] = suspended[u]
          /\ UNCHANGED <<due, point>>
      BY DEF Tasks
    <2>5. due'[t] <= (freezes'[t] + 1) * Period[t] /\ due'[t] <= freezes'[t] * Period[t]
      BY <1>0, <2>2, <2>3, <2>4
    <2> QED BY <2>4, <2>5 DEF PhaseShift
  <1>4. SilencePaid'
    BY DEF SilencePaid, table, timer
  <1> QED BY <1>2, <1>3, <1>4

\* An unfreeze, which shifts the phase of the loop, keeps the account.
LEMMA UnfreezeAccuracy ==
  ASSUME TypeOK, Accuracy, NEW t \in Watched, Unfreeze(t)
  PROVE  Accuracy'
  <1> USE DEF Unfreeze, Accuracy, TypeOK
  <1>1. t \in Tasks
    BY DEF Tasks
  <1>2. Phase'
    BY <1>1 DEF Phase, history
  <1>3. PhaseShift'
    BY <1>1 DEF PhaseShift, history
  <1>4. SilencePaid'
    BY DEF SilencePaid, table, timer, history
  <1> QED BY <1>2, <1>3, <1>4

\* Handling a silent slot keeps the account of the other ones.
LEMMA SlotAccuracy ==
  ASSUME TypeOK, Accuracy, NEW t \in Watched, ScanSlot(t)
  PROVE  Accuracy'
  <1> USE DEF ScanSlot, Accuracy, TypeOK
  <1>1. /\ t \in Tasks
        /\ \A u \in Watched : u \in Tasks /\ Period[u] \in Nat \ {0}
    BY WatchdogAssumption DEF WatchdogAssumption, Tasks
  <1>2. CASE Restart(t)
    <2>1. /\ UNCHANGED <<isActive, cb>> /\ hung' = hung \ {t}
          /\ elapsed'[t] = 0 /\ due'[t] = 0 /\ point'[t] = "ready" /\ ~suspended'[t]
          /\ skips'[t] = 0 /\ freezes'[t] = 0
      BY <1>1, <1>2 DEF Restart
    <2>2. \A u \in Watched \ {t} :
            /\ elapsed'[u] = elapsed[u] /\ due'[u] = due[u] /\ point'[u] = point[u]
            /\ suspended'[u] = suspended[u] /\ skips'[u] = skips[u]
            /\ freezes'[u] = freezes[u] /\ frozen'[u] = frozen[u]
      BY <1>1, <1>2 DEF Restart
    <2>3. Phase'
      BY <1>1, <2>1, <2>2 DEF Phase
    <2>4. PhaseShift' /\ SilencePaid'
      <3>1. /\ (0 + 1) * Period[t] = Period[t] /\ 0 * Period[t] = 0
            /\ (0 + 0 + 1) * Period[t] = Period[t]
        BY <1>1
      <3>2. Period[t] >= 0
        BY <1>1
      <3> QED BY <2>1, <2>2, <3>1, <3>2 DEF PhaseShift, SilencePaid
    <2> QED BY <2>3, <2>4
  <1>3. CASE LogOnly(t)
    <2>1. Phase' /\ PhaseShift'
      BY <1>3 DEF LogOnly, Phase, PhaseShift, loops, history
    <2>2. SilencePaid'
      <3>1. elapsed'[t] = 0 /\ elapsed[t] >= 0 /\ elapsed[t] \in Int /\ due[t] \in Int
        BY <1>1, <1>3 DEF LogOnly, ElapsedBound
      <3>2. (skips[t] + freezes[t] + 1) * Period[t] \in Int
        BY <1>1
      <3>3. \A u \in Watched \ {t} : elapsed'[u] = elapsed[u]
        BY <1>3 DEF LogOnly
      <3>4. UNCHANGED <<isActive, due, skips, freezes, frozen>>
        BY <1>3 DEF LogOnly, loops, history
      <3> QED BY <3>1, <3>2, <3>3, <3>4 DEF SilencePaid
    <2> QED BY <2>1, <2>2
  <1>4. CASE Abandon(t)
    BY <1>4
    DEF Abandon, Phase, PhaseShift, SilencePaid, loops, history
  <1> QED BY <1>2, <1>3, <1>4

\* The clock adds to a silence only what the account allows for.
LEMMA AdvanceAccuracy ==
  ASSUME TypeOK, Accuracy, Advance
  PROVE  Accuracy'
  <1>0. UNCHANGED <<isActive, suspended, skips, freezes, frozen>>
    BY DEF Advance, history
  <1>1. ASSUME NEW t \in Watched
        PROVE  /\ t \in Tasks /\ Period[t] \in Nat \ {0} /\ due[t] \in Int
               /\ freezes[t] \in Nat /\ skips[t] \in Nat /\ elapsed[t] \in Int
               /\ elapsed'[t] = elapsed[t] \/ elapsed'[t] = elapsed[t] + 1
               /\ due'[t] = Sooner(t)
               /\ point'[t] = IF ~suspended[t] /\ due[t] = 1 THEN "ready" ELSE point[t]
    BY <1>1, WatchdogAssumption DEF WatchdogAssumption, Advance, TypeOK, Tasks, ElapsedBound
  <1>2. ASSUME NEW t \in Watched, ~suspended[t]
        PROVE  point[t] = "delayed" /\ due[t] >= 1 /\ due'[t] = due[t] - 1
    <2>1. point[t] = "delayed"
      BY <1>1, <1>2 DEF Advance
    <2> QED BY <1>1, <1>2, <2>1 DEF Accuracy, Phase, Sooner
  <1>3. ASSUME NEW t \in Watched
        PROVE  0 <= freezes[t] * Period[t] /\ freezes[t] * Period[t] \in Int
    BY <1>1, <1>3, MulStep
  <1>4. Phase'
    BY <1>0, <1>1, <1>2 DEF Accuracy, Phase, Sooner
  <1>5. PhaseShift'
    <2> SUFFICES ASSUME NEW t \in Watched
                 PROVE  /\ due'[t] <= (freezes[t] + 1) * Period[t]
                        /\ point'[t] # "delayed" \/ suspended[t] =>
                             due'[t] <= freezes[t] * Period[t]
      BY <1>0 DEF PhaseShift
    <2>1. (freezes[t] + 1) * Period[t] = freezes[t] * Period[t] + Period[t]
      BY <1>1, MulStep
    <2>2. /\ due[t] <= (freezes[t] + 1) * Period[t]
          /\ point[t] # "delayed" \/ suspended[t] => due[t] <= freezes[t] * Period[t]
      BY DEF Accuracy, PhaseShift
    <2>3. CASE suspended[t]
      BY <1>1, <1>3, <2>1, <2>2, <2>3 DEF Sooner
    <2>4. CASE ~suspended[t]
      BY <1>1, <1>2, <1>3, <2>1, <2>2, <2>4
    <2> QED BY <2>3, <2>4
  <1>6. SilencePaid'
    <2> SUFFICES ASSUME NEW t \in Watched, isActive[t], ~frozen[t]
                 PROVE  elapsed'[t] + due'[t] <= (skips[t] + freezes[t] + 1) * Period[t]
      BY <1>0 DEF SilencePaid
    <2>1. due'[t] = due[t] - 1
      BY <1>2 DEF Accuracy, Phase
    <2>2. elapsed[t] + due[t] <= (skips[t] + freezes[t] + 1) * Period[t]
      BY DEF Accuracy, SilencePaid
    <2>3. (skips[t] + freezes[t] + 1) * Period[t] \in Int
      BY <1>1
    <2> QED BY <1>1, <2>1, <2>2, <2>3
  <1> QED BY <1>4, <1>5, <1>6 DEF Accuracy

\* No step breaks the account of silence.
LEMMA AccuracyStep ==
  ASSUME TypeOK, LockRuns, MutexConsistent, Accuracy, [Next]_vars
  PROVE  Accuracy'
  <1>1. ASSUME NEW t \in Tasks, BeatLock(t) PROVE Accuracy'
    <2>1. UNCHANGED <<elapsed, isActive, due, suspended, skips, freezes, frozen>>
      BY <1>1 DEF BeatLock, table, history
    <2>2. \A u \in Watched : point'[u] = point[u] \/ (point[u] = "ready" /\ point'[u] = "locked")
      BY <1>1 DEF BeatLock, TypeOK, Tasks
    <2> QED
      BY <2>1, <2>2
      DEF Accuracy, Phase, PhaseShift, SilencePaid
  <1>2. CASE ScanRead \/ ScanStart \/ ScanEnd
    BY <1>2
    DEF ScanRead, ScanStart, ScanEnd, table, loops, history,
        Accuracy, Phase, PhaseShift, SilencePaid
  <1>4. CASE UNCHANGED vars
    BY <1>4
    DEF vars, table, timer, loops, history,
        Accuracy, Phase, PhaseShift, SilencePaid
  <1>5. Freezable \subseteq Watched
    BY WatchdogAssumption DEF WatchdogAssumption
  <1> QED
    BY <1>1, <1>2, <1>4, <1>5, NoGiveUp, SkipAccuracy, RecordAccuracy, FreezeAccuracy,
       UnfreezeAccuracy, SlotAccuracy, AdvanceAccuracy
    DEF Next, Beat, Scan

-----------------------------------------------------------------------------
(* The restart budget *)

\* What the scan has judged stays so until its turn comes: the mutex keeps the beats out
\* and the clock stands still.
Judged ==
    /\ cb # "scan" => hung = {}
    /\ \A t \in hung : isActive[t] /\ Silent(t)

Budgeted(t) ==
    /\ attempts'[t] \in {attempts[t], attempts[t] + 1}
    /\ attempts'[t] > attempts[t] => Silent(t)
    /\ isActive[t] /\ ~isActive'[t] => attempts[t] = MaxRestarts
    /\ ~isActive[t] => ~isActive'[t]

\* The callback spends a restart only on a slot it has judged, and drops only a slot
\* without one.
LEMMA SlotBudget ==
  ASSUME TypeOK, Judged, NEW t \in Watched, ScanSlot(t)
  PROVE  Judged' /\ \A u \in Watched : Budgeted(u)
  <1> USE WatchdogAssumption DEF ScanSlot
  <1>1. /\ cb' = "scan" /\ hung' = hung \ {t}
        /\ Silent(t) /\ isActive[t] /\ ahead' = ahead
        /\ attempts[t] \in 0..MaxRestarts
    BY DEF Judged, TypeOK
  <1>2. /\ \A u \in Watched \ {t} :
             elapsed'[u] = elapsed[u] /\ attempts'[u] = attempts[u] /\ isActive'[u] = isActive[u]
        /\ isActive'[t] \in BOOLEAN
        /\ \/ attempts'[t] = attempts[t] + 1 /\ isActive'[t] = isActive[t]
           \/ attempts'[t] = attempts[t] /\ attempts[t] >= MaxRestarts
    BY DEF Restart, LogOnly, Abandon, TypeOK
  <1>3. Judged'
    BY <1>1, <1>2 DEF Judged, Silent, TypeOK
  <1>4. ASSUME NEW u \in Watched
        PROVE  Budgeted(u)
    <2>1. CASE u = t
      <3>1. CASE attempts'[t] = attempts[t] + 1 /\ isActive'[t] = isActive[t]
        BY <1>1, <2>1, <3>1 DEF Budgeted
      <3>2. CASE attempts'[t] = attempts[t] /\ attempts[t] >= MaxRestarts
        <4>1. attempts[t] = MaxRestarts /\ ~(attempts[t] > attempts[t])
          BY <1>1, <3>2
        <4> QED BY <1>1, <2>1, <3>2, <4>1, Zenon DEF Budgeted
      <3> QED BY <1>2, <3>1, <3>2
    <2>2. CASE u # t
      <3>1. attempts[u] \in Int
        BY DEF TypeOK
      <3> QED BY <1>2, <2>2, <3>1 DEF Budgeted
    <2> QED BY <2>1, <2>2
  <1> QED BY <1>3, <1>4

\* Nobody else touches the restart counts or the watched slots, or a silence that the
\* scan has judged.
LEMMA OthersBudget ==
  ASSUME TypeOK, MutexConsistent, Judged, [Next]_vars, \A t \in Watched : ~ScanSlot(t)
  PROVE  Judged' /\ UNCHANGED <<attempts, isActive>>
  <1> USE WatchdogAssumption DEF TypeOK, Judged
  <1>1. ASSUME NEW t \in Tasks, BeatLock(t) \/ BeatSkip(t)
        PROVE  Judged' /\ UNCHANGED <<attempts, isActive>>
    BY <1>1 DEF BeatLock, BeatSkip, Silent, table
  <1>2. ASSUME NEW t \in Tasks, BeatRecord(t)
        PROVE  Judged' /\ UNCHANGED <<attempts, isActive>>
    <2>1. cb # "scan"
      BY <1>2 DEF BeatRecord, MutexConsistent
    <2> QED BY <1>2, <2>1 DEF BeatRecord
  <1>3. ASSUME NEW t \in Watched, Freeze(t) \/ Unfreeze(t)
        PROVE  Judged' /\ UNCHANGED <<attempts, isActive>>
    BY <1>3 DEF Freeze, Unfreeze, Silent, table, timer
  <1>4. CASE ScanRead \/ ScanStart \/ ScanGiveUp \/ ScanEnd
    BY <1>4 DEF ScanRead, ScanStart, ScanGiveUp, ScanEnd, Silent, table
  <1>5. CASE Advance
    <2>1. hung = {} /\ cb' # "scan" /\ hung' = hung /\ UNCHANGED <<attempts, isActive>>
      BY <1>5 DEF Advance
    <2> QED BY <2>1
  <1>6. CASE UNCHANGED vars
    BY <1>6 DEF vars, table, timer, Silent
  <1> QED BY <1>1, <1>2, <1>3, <1>4, <1>5, <1>6, WatchdogAssumption
          DEF WatchdogAssumption, Next, Beat, Scan

\* A restart is spent only on a task that the unsigned difference shows silent for longer
\* than the timeout, counts
\* never go back, and a slot is given up only when its restarts are used up, for good.
THEOREM BudgetKept == Spec => RestartBudget
  <1>1. Init => Judged
    BY DEF Init, Judged
  <1>2. TypeOK /\ MutexConsistent /\ Judged /\ [Next]_vars
            => Judged' /\ \A t \in Watched : Budgeted(t)
    <2> SUFFICES ASSUME TypeOK, MutexConsistent, Judged, [Next]_vars
                 PROVE  Judged' /\ \A t \in Watched : Budgeted(t)
      OBVIOUS
    <2>1. CASE \E t \in Watched : ScanSlot(t)
      BY <2>1, SlotBudget
    <2>2. CASE \A t \in Watched : ~ScanSlot(t)
      <3>1. Judged' /\ UNCHANGED <<attempts, isActive>>
        BY <2>2, OthersBudget
      <3>2. \A t \in Watched : attempts[t] \in Int
        BY DEF TypeOK
      <3> QED BY <3>1, <3>2 DEF Budgeted
    <2> QED BY <2>1, <2>2
  <1>3. (\A t \in Watched : Budgeted(t)) =>
          [\A t \in Watched :
             /\ attempts'[t] \in {attempts[t], attempts[t] + 1}
             /\ attempts'[t] > attempts[t] => Silent(t)
             /\ isActive[t] /\ ~isActive'[t] => attempts[t] = MaxRestarts
             /\ ~isActive[t] => ~isActive'[t]]_vars
    BY DEF Budgeted
  <1> QED BY TypeCorrect, MutexSafe, <1>1, <1>2, <1>3, PTL DEF Spec, RestartBudget

-----------------------------------------------------------------------------
(* Why a task is judged hung *)

\* A silence beyond the timeout, of a task that beats, is made of lost beats and shifted
\* wake-ups.
LEMMA SilenceHasCause ==
  ASSUME TypeOK, Accuracy, NEW t \in Watched, isActive[t], ~frozen[t], elapsed[t] > WdTimeout
  PROVE  (skips[t] + freezes[t] + 1) * Period[t] > WdTimeout
  <1> DEFINE lost == (skips[t] + freezes[t] + 1) * Period[t]
  <1>1. /\ t \in Tasks
        /\ Period[t] \in Nat
        /\ WdTimeout \in Nat
    BY WatchdogAssumption DEF WatchdogAssumption, Tasks
  <1>2. skips[t] \in Nat /\ freezes[t] \in Nat /\ elapsed[t] \in Int /\ due[t] \in Int
    BY <1>1, WatchdogAssumption DEF WatchdogAssumption, TypeOK, ElapsedBound
  <1>3. lost \in Int
    BY <1>1, <1>2
  <1>4. elapsed[t] + due[t] <= lost /\ due[t] >= 0
    BY DEF Accuracy, SilencePaid, Phase
  <1> HIDE DEF lost
  <1>5. lost > WdTimeout
    BY <1>1, <1>2, <1>3, <1>4
  <1> QED BY <1>5 DEF lost

\* For any tasks, periods, timeout and bounds: until a task is frozen with the mutex, a
\* task is judged hung only if it was frozen, if it beat while the callback waited for the
\* mutex, or if the beats it lost are worth more than the timeout.
THEOREM JudgedWithCause == Spec => []JudgedForCause
  <1> DEFINE IInv == ~lockFrozen => LockRuns /\ Accuracy
  <1>1. Init => Judged /\ IInv
    BY DetectionInit, AccuracyInit DEF Detection, Init, Judged
  <1>2. TypeOK /\ MutexConsistent /\ Judged /\ [Next]_vars => Judged'
    BY SlotBudget, OthersBudget
  <1>3. TypeOK /\ MutexConsistent /\ IInv /\ [Next]_vars => IInv'
    BY LockFrozenStays, LockRunsStep, AccuracyStep
  <1>4. TypeOK /\ Judged /\ IInv => JudgedForCause
    BY SilenceHasCause DEF Judged, Silent, JudgedForCause, TypeOK
  <1> QED BY TypeCorrect, MutexSafe, <1>1, <1>2, <1>3, <1>4, PTL DEF Spec
=============================================================================
