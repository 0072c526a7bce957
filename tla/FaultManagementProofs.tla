------------------------ MODULE FaultManagementProofs ------------------------
(***************************************************************************)
(* What the fault handling of a craft guarantees for any set of faults, any *)
(* number of recovery tasks and any number of power tokens.                 *)
(***************************************************************************)
EXTENDS FaultManagement, FiniteSetTheorems, TLAPS

-----------------------------------------------------------------------------
(* Types *)

\* Whatever the faults, ProcessEvent chooses one of the six modes.
LEMMA TargetModeType ==
  ASSUME NEW fs, NEW saving \in BOOLEAN
  PROVE  TargetMode(fs, saving) \in Modes
  <1>1. CASE fs \cap CriticalFaults # {}
    BY <1>1 DEF TargetMode, Modes
  <1>2. CASE fs \cap CriticalFaults = {} /\ fs \cap EmergencyFaults # {}
    BY <1>2 DEF TargetMode, Modes
  <1>3. CASE fs \cap (CriticalFaults \cup EmergencyFaults) = {} /\ fs # {}
    <2>1. fs \cap CriticalFaults = {} /\ fs \cap EmergencyFaults = {}
      BY <1>3
    <2> HIDE DEF CriticalFaults, EmergencyFaults
    <2> QED BY <1>3, <2>1 DEF TargetMode, Modes
  <1>4. CASE fs = {}
    BY <1>4 DEF TargetMode, Modes
  <1> QED BY <1>1, <1>2, <1>3, <1>4

\* The craft starts with every variable in its type.
LEMMA InitType == Init => TypeOK
  <1> SUFFICES ASSUME Init PROVE TypeOK
    OBVIOUS
  <1>1. handle \in [Recoverable -> BOOLEAN]
    BY DEF Init
  <1>2. tokens \in 0..TokenCount
    BY CraftAssumption DEF CraftAssumption, Init
  <1>3. battery \in BatteryLevels
    BY EnvironmentAssumption DEF EnvironmentAssumption, Init
  <1>4. ev \in [pc : {"wait", "eval", "decide", "setmode", "log", "spawn"},
                last : SUBSET Faults, target : Modes, todo : SUBSET Recoverable]
    BY DEF Init, Modes
  <1>5. sm \in [pc : {"wait", "escalate", "escalated", "shed", "shedding", "process"},
                faults : SUBSET Faults, mode : Modes]
    BY DEF Init, Sleeping, Modes
  <1>6. rec \in [Recoveries -> {"none", "go", "acquire", "work", "tail", "clear"}]
    BY DEF Init
  <1>7. bits \subseteq Faults /\ holders \subseteq Recoveries
    BY DEF Init
  <1>8. mode \in Modes /\ wdPc \in {"idle", "restart"}
    BY DEF Init, Modes
  <1>9. powerSaving \in BOOLEAN /\ loadShed \in BOOLEAN
    BY DEF Init
  <1> QED BY <1>1, <1>2, <1>3, <1>4, <1>5, <1>6, <1>7, <1>8, <1>9 DEF TypeOK

\* Creating a recovery keeps handle and rec well typed.
LEMMA SpawnType ==
  ASSUME TypeOK, NEW f \in Recoverable, SpawnOne(f)
  PROVE  /\ handle' \in [Recoverable -> BOOLEAN]
         /\ rec' \in [Recoveries -> {"none", "go", "acquire", "work", "tail", "clear"}]
         /\ UNCHANGED <<holders, tokens>>
  <1>1. CASE handle[f]
    BY <1>1 DEF SpawnOne, TypeOK, recovery
  <1>2. CASE ~handle[f]
    <2>1. handle' = [handle EXCEPT ![f] = TRUE] /\ UNCHANGED <<holders, tokens>>
      BY <1>2 DEF SpawnOne
    <2>2. PICK k \in Instances : rec' = [rec EXCEPT ![<<f, k>>] = "go"]
      BY <1>2 DEF SpawnOne
    <2>3. handle' \in [Recoverable -> BOOLEAN]
      BY <2>1 DEF TypeOK
    <2>4. rec' \in [Recoveries -> {"none", "go", "acquire", "work", "tail", "clear"}]
      BY <2>2 DEF TypeOK
    <2> QED BY <2>1, <2>3, <2>4
  <1> QED BY <1>1, <1>2

\* No step of a recovery task leaves the types.
LEMMA RecoverType ==
  ASSUME TypeOK, NEW i \in Recoveries, Recover(i)
  PROVE  TypeOK'
  <1>0. i[1] \in Recoverable
    BY DEF Recoveries
  <1>1. CASE RecStart(i)
    BY <1>1 DEF RecStart, TypeOK, power
  <1>2. CASE RecAcquire(i)
    BY <1>2, CraftAssumption DEF CraftAssumption, RecAcquire, TypeOK, power
  <1>3. CASE RecAcquireTimeout(i)
    BY <1>3 DEF RecAcquireTimeout, TypeOK, power
  <1>4. CASE RecDone(i)
    BY <1>4, CraftAssumption DEF CraftAssumption, RecDone, TypeOK, power
  <1>5. CASE RecForget(i)
    BY <1>0, <1>5 DEF RecForget, TypeOK, power
  <1>6. CASE RecClear(i)
    BY <1>6 DEF RecClear, TypeOK, power
  <1> QED BY <1>1, <1>2, <1>3, <1>4, <1>5, <1>6 DEF Recover

\* No step of EventMgr leaves the types.
LEMMA EventMgrType ==
  ASSUME TypeOK, EventMgr
  PROVE  TypeOK'
  <1>1. CASE EvWake
    <2>1. bits' \subseteq Faults
      BY <1>1, EnvironmentAssumption DEF EnvironmentAssumption, EvWake, TypeOK
    <2> QED BY <1>1, <2>1 DEF EvWake, TypeOK, recovery, power
  <1>2. CASE EvRead
    BY <1>2 DEF EvRead, TypeOK, recovery, power
  <1>3. CASE EvDecide
    <2>1. TargetMode(ev.last, powerSaving) \in Modes
      BY TargetModeType DEF TypeOK
    <2> QED BY <1>3, <2>1 DEF EvDecide, TypeOK, recovery, power
  <1>4. CASE EvSetMode
    <2>1. "NORMAL" \in Modes
      BY DEF Modes
    <2>2. ev.last \cap Recoverable \in SUBSET Recoverable
      OBVIOUS
    <2> QED BY <1>4, <2>1, <2>2 DEF EvSetMode, TypeOK, recovery, power
  <1>5. CASE EvSpawn
    <2>1. PICK f \in ev.todo : SpawnOne(f) /\ ev' = [ev EXCEPT !.pc = "spawn", !.todo = @ \ {f}]
      BY <1>5 DEF EvSpawn
    <2>2. f \in Recoverable
      BY DEF TypeOK
    <2>3. /\ handle' \in [Recoverable -> BOOLEAN]
          /\ rec' \in [Recoveries -> {"none", "go", "acquire", "work", "tail", "clear"}]
          /\ UNCHANGED <<holders, tokens>>
      BY <2>1, <2>2, SpawnType
    <2> QED BY <1>5, <2>1, <2>3 DEF EvSpawn, TypeOK, power
  <1>6. CASE EvSleep
    BY <1>6 DEF EvSleep, TypeOK, recovery, power
  <1> QED BY <1>1, <1>2, <1>3, <1>4, <1>5, <1>6 DEF EventMgr

\* No step of SafetyMgr leaves the types.
LEMMA SafetyMgrType ==
  ASSUME TypeOK, SafetyMgr
  PROVE  TypeOK'
  <1>0. Sleeping \in [pc : {"wait", "escalate", "escalated", "shed", "shedding", "process"},
                      faults : SUBSET Faults, mode : Modes]
    BY DEF Sleeping, Modes
  <1>1. CASE SmRead
    BY <1>1 DEF SmRead, TypeOK, recovery, power
  <1>2. CASE SmEscalate
    BY <1>2 DEF SmEscalate, TypeOK, Modes, recovery, power
  <1>3. CASE SmShed
    BY <1>0, <1>3 DEF SmShed, SetLoadShed, TypeOK, recovery
  <1>4. CASE SmSetPowerSaving
    BY <1>4 DEF SmSetPowerSaving, TypeOK, recovery, power
  <1>5. CASE SmProcess
    <2>1. TargetMode(sm.faults, powerSaving) \in Modes
      BY TargetModeType DEF TypeOK
    <2> QED BY <1>0, <1>5, <2>1 DEF SmProcess, TypeOK, recovery, power
  <1> QED BY <1>1, <1>2, <1>3, <1>4, <1>5 DEF SafetyMgr

\* No step of the craft leaves the types.
LEMMA NextType == TypeOK /\ [Next]_vars => TypeOK'
  <1> SUFFICES ASSUME TypeOK, [Next]_vars PROVE TypeOK'
    OBVIOUS
  <1>1. CASE WdHang
    BY <1>1, EnvironmentAssumption DEF EnvironmentAssumption, WdHang, TypeOK, recovery, power
  <1>2. CASE WdRestart
    BY <1>2 DEF WdRestart, TypeOK, Modes, recovery, power
  <1>3. ASSUME NEW f \in Injected, Inject(f) PROVE TypeOK'
    BY <1>3, EnvironmentAssumption DEF EnvironmentAssumption, Inject, TypeOK, recovery, power
  <1>4. ASSUME NEW f \in Cleared, ClearByCommand(f) PROVE TypeOK'
    BY <1>4 DEF ClearByCommand, TypeOK, recovery, power
  <1>5. CASE BatteryChange
    BY <1>5, EnvironmentAssumption
    DEF EnvironmentAssumption, BatteryChange, TypeOK, recovery
  <1>6. CASE UNCHANGED vars
    BY <1>6 DEF TypeOK, vars, recovery, power
  <1> QED
    BY <1>1, <1>2, <1>3, <1>4, <1>5, <1>6, EventMgrType, SafetyMgrType, RecoverType
    DEF Next, Environment

\* Every reachable state of the fault handling is well typed.
THEOREM TypeCorrect == Spec => []TypeOK
  <1> QED BY InitType, NextType, PTL DEF Spec

-----------------------------------------------------------------------------
(* One mitigation at a time *)

\* Only the recovery tasks themselves and EmergencyTasks_Create touch the handles
\* and the recoveries.
LEMMA OthersKeepRecoveries ==
  ASSUME [Next]_vars, ~EvSpawn, \A i \in Recoveries : ~Recover(i)
  PROVE  UNCHANGED recovery
  BY DEF Next, EventMgr, EvWake, EvRead, EvDecide, EvSetMode, EvSleep, SafetyMgr, SmRead,
         SmEscalate, SmShed, SetLoadShed, SmSetPowerSaving, SmProcess, WdHang, WdRestart, Environment,
         Inject, ClearByCommand, BatteryChange, vars

\* EmergencyTasks_Create looks at the handle, so it adds no second recovery.
LEMMA SpawnSingle ==
  ASSUME TypeOK, SingleMitigation, NEW f \in Recoverable, SpawnOne(f)
  PROVE  SingleMitigation'
  <1>1. CASE handle[f]
    BY <1>1 DEF SpawnOne, SingleMitigation, recovery
  <1>2. CASE ~handle[f]
    <2>1. PICK k \in Instances : rec[<<f, k>>] = "none" /\ rec' = [rec EXCEPT ![<<f, k>>] = "go"]
      BY <1>2 DEF SpawnOne
    <2>2. handle' = [handle EXCEPT ![f] = TRUE]
      BY <1>2 DEF SpawnOne
    <2>3. \A l \in Instances : rec[<<f, l>>] \in Finishing
      BY <1>2 DEF SingleMitigation
    <2>4. \A g \in Recoverable, l \in Instances :
            rec'[<<g, l>>] = IF g = f /\ l = k THEN "go" ELSE rec[<<g, l>>]
      BY <2>1 DEF TypeOK, Recoveries
    <2>5. handle'[f] /\ \A g \in Recoverable \ {f} : handle'[g] = handle[g]
      BY <2>2 DEF TypeOK
    <2> QED BY <2>3, <2>4, <2>5 DEF SingleMitigation, Finishing
  <1> QED BY <1>1, <1>2

\* A step of a recovery that leaves the handles alone moves it within its mitigation,
\* or ends it after its handle was cleared.
LEMMA StepSingle ==
  ASSUME TypeOK, SingleMitigation, NEW i \in Recoveries, UNCHANGED handle,
         NEW pc, rec' = [rec EXCEPT ![i] = pc], rec[i] \in Finishing <=> pc \in Finishing
  PROVE  SingleMitigation'
  <1>1. \A j \in Recoveries : rec'[j] \in Finishing <=> rec[j] \in Finishing
    BY DEF TypeOK
  <1>2. \A f \in Recoverable, k \in Instances : <<f, k>> \in Recoveries
    BY DEF Recoveries
  <1> QED BY <1>1, <1>2 DEF SingleMitigation

\* A recovery that sets its handle to NULL is the only one at work, and leaves none.
LEMMA ForgetSingle ==
  ASSUME TypeOK, SingleMitigation, NEW i \in Recoveries, RecForget(i)
  PROVE  SingleMitigation'
  <1>1. PICK f \in Recoverable, k \in Instances : i = <<f, k>>
    BY DEF Recoveries
  <1>2. /\ rec[<<f, k>>] = "tail"
        /\ rec' = [rec EXCEPT ![<<f, k>>] = "clear"]
        /\ handle' = [handle EXCEPT ![f] = FALSE]
    BY <1>1 DEF RecForget
  <1>3. \A l \in Instances : rec'[<<f, l>>] \in Finishing
    <2>1. \A l \in Instances \ {k} : rec[<<f, l>>] \in Finishing
      BY <1>2 DEF SingleMitigation, Finishing
    <2> QED BY <1>2, <2>1 DEF TypeOK, Recoveries, Finishing
  <1>4. \A g \in Recoverable \ {f}, l \in Instances : rec'[<<g, l>>] = rec[<<g, l>>]
    BY <1>2 DEF TypeOK, Recoveries
  <1>5. ~handle'[f] /\ \A g \in Recoverable \ {f} : handle'[g] = handle[g]
    BY <1>2 DEF TypeOK
  <1>6. ASSUME NEW g \in Recoverable
        PROVE  /\ handle'[g] <=> \E l \in Instances : rec'[<<g, l>>] \notin Finishing
               /\ \A l, n \in Instances :
                    rec'[<<g, l>>] \notin Finishing /\ rec'[<<g, n>>] \notin Finishing => l = n
    <2>1. CASE g = f
      BY <1>3, <1>5, <2>1
    <2>2. CASE g # f
      BY <1>4, <1>5, <2>2 DEF SingleMitigation
    <2> QED BY <2>1, <2>2
  <1> QED BY <1>6 DEF SingleMitigation, Finishing

\* However faults are raised, cleared and raised again, and whoever preempts whom, no
\* two recoveries of one fault mitigate it at the same time.
THEOREM OneMitigationAtATime == Spec => []SingleMitigation
  <1>1. Init => SingleMitigation
    BY DEF Init, SingleMitigation, Finishing, Recoveries
  <1>2. TypeOK /\ SingleMitigation /\ [Next]_vars => SingleMitigation'
    <2> SUFFICES ASSUME TypeOK, SingleMitigation, [Next]_vars PROVE SingleMitigation'
      OBVIOUS
    <2>1. CASE EvSpawn
      <3>1. PICK f \in ev.todo : SpawnOne(f)
        BY <2>1 DEF EvSpawn
      <3> QED BY <3>1, SpawnSingle DEF TypeOK
    <2>2. ASSUME NEW i \in Recoveries, Recover(i) PROVE SingleMitigation'
      <3>1. CASE RecStart(i)
        BY <3>1, StepSingle DEF RecStart, Finishing
      <3>2. CASE RecAcquire(i)
        BY <3>2, StepSingle DEF RecAcquire, Finishing
      <3>3. CASE RecAcquireTimeout(i)
        BY <3>3, StepSingle DEF RecAcquireTimeout, Finishing
      <3>4. CASE RecDone(i)
        BY <3>4, StepSingle DEF RecDone, Finishing
      <3>5. CASE RecForget(i)
        BY <3>5, ForgetSingle
      <3>6. CASE RecClear(i)
        BY <3>6, StepSingle DEF RecClear, Finishing
      <3> QED BY <2>2, <3>1, <3>2, <3>3, <3>4, <3>5, <3>6 DEF Recover
    <2>3. CASE UNCHANGED recovery
      BY <2>3 DEF SingleMitigation, recovery
    <2> QED BY <2>1, <2>2, <2>3, OthersKeepRecoveries
  <1> QED BY TypeCorrect, <1>1, <1>2, PTL DEF Spec

-----------------------------------------------------------------------------
(* The power tokens *)

TokensInv == IsFiniteSet(holders) /\ TokensConserved

\* At start every token is in the semaphore.
LEMMA TokensInit == Init => TokensInv
  <1> SUFFICES ASSUME Init PROVE TokensInv
    OBVIOUS
  <1>1. IsFiniteSet(holders) /\ Cardinality(holders) = 0
    BY FS_EmptySet DEF Init
  <1>2. tokens = TokenCount /\ holders = {}
    BY DEF Init
  <1> QED BY <1>1, <1>2, CraftAssumption DEF CraftAssumption, TokensInv, TokensConserved

\* A successful take moves one token from the semaphore to a recovery.
LEMMA AcquireTokens ==
  ASSUME TypeOK, TokensInv, NEW i \in Recoveries, RecAcquire(i)
  PROVE  TokensInv' /\ i \notin holders /\ Cardinality(holders) < TokenCount
  <1>1. i \notin holders
    BY DEF TokensInv, TokensConserved, RecAcquire
  <1>2. holders' = holders \cup {i} /\ tokens' = tokens - 1 /\ tokens > 0
    BY DEF RecAcquire
  <1>3. IsFiniteSet(holders) /\ Cardinality(holders) \in Nat
    BY FS_CardinalityType DEF TokensInv
  <1>4. IsFiniteSet(holders') /\ Cardinality(holders') = Cardinality(holders) + 1
    BY <1>1, <1>2, <1>3, FS_AddElement
  <1>5. tokens' + Cardinality(holders') = TokenCount /\ Cardinality(holders) < TokenCount
    BY <1>2, <1>3, <1>4 DEF TypeOK, TokensInv, TokensConserved
  <1>6. \A j \in holders' : rec'[j] = "work"
    BY <1>2 DEF RecAcquire, TypeOK, TokensInv, TokensConserved
  <1> QED BY <1>1, <1>4, <1>5, <1>6 DEF TokensInv, TokensConserved

\* The end of a mitigation moves the token back, if there is one.
LEMMA DoneTokens ==
  ASSUME TypeOK, TokensInv, NEW i \in Recoveries, RecDone(i)
  PROVE  TokensInv'
  <1>1. IsFiniteSet(holders) /\ Cardinality(holders) \in Nat
    BY FS_CardinalityType DEF TokensInv
  <1>2. holders' = holders \ {i}
    BY DEF RecDone
  <1>3. \A j \in holders' : rec'[j] = "work"
    BY <1>2 DEF RecDone, TypeOK, TokensInv, TokensConserved
  <1>4. CASE i \in holders
    <2>1. IsFiniteSet(holders') /\ Cardinality(holders') = Cardinality(holders) - 1
      BY <1>1, <1>2, <1>4, FS_RemoveElement
    <2>2. Cardinality(holders) # 0
      BY <1>1, <1>4, FS_EmptySet
    <2>3. tokens < TokenCount
      BY <1>1, <2>2 DEF TypeOK, TokensInv, TokensConserved
    <2>4. tokens' = tokens + 1
      BY <1>4, <2>3 DEF RecDone
    <2>5. tokens' + Cardinality(holders') = TokenCount
      BY <1>1, <2>1, <2>4 DEF TypeOK, TokensInv, TokensConserved
    <2> QED BY <1>3, <2>1, <2>5 DEF TokensInv, TokensConserved
  <1>5. CASE i \notin holders
    <2>1. holders' = holders /\ tokens' = tokens
      BY <1>2, <1>5 DEF RecDone
    <2> QED BY <1>3, <2>1 DEF TokensInv, TokensConserved
  <1> QED BY <1>4, <1>5

\* A step that keeps holders, tokens and the working recoveries as they are.
LEMMA KeepTokens ==
  ASSUME TokensInv, UNCHANGED <<holders, tokens>>,
         \A j \in holders : rec[j] = "work" => rec'[j] = "work"
  PROVE  TokensInv'
  BY DEF TokensInv, TokensConserved

\* Creating a recovery moves no token.
LEMMA SpawnTokens ==
  ASSUME TypeOK, TokensInv, NEW f \in Recoverable, SpawnOne(f)
  PROVE  UNCHANGED holders /\ TokensInv'
  <1>1. CASE handle[f]
    BY <1>1 DEF SpawnOne, recovery, TokensInv, TokensConserved
  <1>2. CASE ~handle[f]
    <2>1. PICK k \in Instances : rec[<<f, k>>] = "none" /\ rec' = [rec EXCEPT ![<<f, k>>] = "go"]
      BY <1>2 DEF SpawnOne
    <2>2. UNCHANGED <<holders, tokens>>
      BY <1>2 DEF SpawnOne
    <2>3. \A j \in holders : rec[j] = "work" => rec'[j] = "work"
      BY <2>1 DEF TypeOK
    <2> QED BY <2>2, <2>3, KeepTokens
  <1> QED BY <1>1, <1>2

\* The two modules speak of the same cardinality.
LEMMA SameCardinality == \A S : Budget!Cardinality(S) = Cardinality(S)
  BY Zenon DEF Budget!Cardinality, Cardinality

\* No step loses or makes a token.
LEMMA TokensStep ==
  ASSUME TypeOK, TokensInv, [Next]_vars
  PROVE  TokensInv' /\ [Budget!Next]_holders
  <1>1. CASE EvSpawn
    <2>1. PICK f \in ev.todo : SpawnOne(f)
      BY <1>1 DEF EvSpawn
    <2> QED BY <2>1, SpawnTokens DEF TypeOK
  <1>2. ASSUME NEW i \in Recoveries, Recover(i) PROVE TokensInv' /\ [Budget!Next]_holders
    <2>1. CASE RecStart(i)
      BY <2>1, KeepTokens DEF RecStart, TypeOK
    <2>2. CASE RecAcquire(i)
      <3>1. i \notin holders /\ Cardinality(holders) < TokenCount
        BY <2>2, AcquireTokens
      <3>2. holders' = holders \cup {i}
        BY <2>2 DEF RecAcquire
      <3>3. Budget!Start(i)
        BY <3>1, <3>2, SameCardinality DEF Budget!Start
      <3> QED BY <2>2, <3>3, AcquireTokens DEF Budget!Next
    <2>3. CASE RecAcquireTimeout(i)
      BY <2>3, KeepTokens DEF RecAcquireTimeout, TypeOK
    <2>4. CASE RecDone(i)
      <3>1. Budget!Stop(i) \/ UNCHANGED holders
        BY <2>4 DEF RecDone, Budget!Stop
      <3> QED BY <2>4, <3>1, DoneTokens DEF Budget!Next
    <2>5. CASE RecForget(i)
      BY <2>5, KeepTokens DEF RecForget, TypeOK
    <2>6. CASE RecClear(i)
      BY <2>6, KeepTokens DEF RecClear, TypeOK
    <2> QED BY <1>2, <2>1, <2>2, <2>3, <2>4, <2>5, <2>6 DEF Recover
  <1>3. CASE UNCHANGED recovery
    BY <1>3 DEF recovery, TokensInv, TokensConserved
  <1> QED BY <1>1, <1>2, <1>3, OthersKeepRecoveries

\* No power token is ever lost or made, whoever times out waiting for one.
THEOREM TokensSafe == Spec => []TokensConserved
  <1>1. TypeOK /\ TokensInv /\ [Next]_vars => TokensInv'
    BY TokensStep
  <1>2. TokensInv => TokensConserved
    BY DEF TokensInv
  <1> QED BY TypeCorrect, TokensInit, <1>1, <1>2, PTL DEF Spec

\* The semaphore implements the power budget: at most TokenCount recoveries hold a
\* token at the same time.
THEOREM BudgetRefined == Spec => PowerBudgetKept
  <1>1. Init => Budget!Init
    BY DEF Init, Budget!Init
  <1>2. TypeOK /\ TokensInv /\ [Next]_vars => TokensInv' /\ [Budget!Next]_holders
    BY TokensStep
  <1>3. Spec => Budget!Spec
    BY TypeCorrect, TokensInit, <1>1, <1>2, PTL DEF Spec, Budget!Spec
  <1> QED BY <1>3 DEF PowerBudgetKept
=============================================================================
