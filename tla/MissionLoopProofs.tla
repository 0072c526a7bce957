--------------------------- MODULE MissionLoopProofs ---------------------------
(***************************************************************************)
(* The recovery engine for any craft, faults and limits: what it clears has  *)
(* been on show in every frame given to it for longer than the limit,        *)
(* although requests are lost or late, the database fails and the operator   *)
(* works beside it.  And the console for any scenarios and any number of     *)
(* mounts: its state is what the code takes it for.                          *)
(***************************************************************************)
EXTENDS MissionLoop, SequenceTheorems, TLAPS

\* The part of the types that the argument needs.
Ages ==
    /\ faults \in [Watched -> SUBSET Fault]
    /\ lastFaultMask \in [Watched -> SUBSET Fault]
    /\ sinceChange \in [Watched -> 0..StaleAfter + 1]
    /\ held \in [Watched -> [Watchable -> 0..StaleAfter + 1 \cup {NotHeld}]]

\* The mount on show is one of those there have been.
Pages == mounts \in 0..MaxMounts /\ mount \in 0..mounts

\* A fault of the last mask has been on show for at least as long as the mask is unchanged.
HeldAsLong ==
    \A c \in Watched : \A f \in Watchable \cap lastFaultMask[c] :
        held[c][f] # NotHeld /\ held[c][f] >= sinceChange[c]

IInv == Ages /\ Pages /\ HeldAsLong

\* Nothing has been on show when no frame has come yet.
LEMMA InitInv == Init => IInv
<1> SUFFICES ASSUME Init PROVE IInv
  OBVIOUS
<1>1. Ages
  BY RecoveryAssumption DEF Init, RestInit, RecoveryInit, Ages, NotHeld
<1>2. HeldAsLong
  BY DEF Init, RecoveryInit, HeldAsLong
<1>3. Pages
  BY MissionAssumption DEF Init, SimulateInit, Pages
<1>4. QED
  BY <1>1, <1>2, <1>3 DEF IInv

\* A clock stops one behind its limit, and two clocks keep their order.
LEMMA OlderFacts ==
    ASSUME NEW limit \in Nat, NEW a \in 0..limit + 1, NEW b \in 0..limit + 1, a >= b
    PROVE  /\ Older(a, limit) \in 0..limit + 1
           /\ Older(a, limit) >= Older(b, limit)
  BY DEF Older

\* What a request does to the faults leaves sets of faults.
LEMMA CommandedType ==
    ASSUME faults \in [Watched -> SUBSET Fault], NEW r
    PROVE  Commanded(r) \in [Watched -> SUBSET Fault]
  BY DEF Commanded

\* A fault that is stale is a soft one of the mask, and the mask is the one of the last frame.
LEMMA StaleIsHeld ==
    ASSUME IInv, NEW c \in Watched, NEW f \in StaleFaults(c, faults[c])
    PROVE  f \in Watchable /\ held[c][f] > StaleAfter
<1>1. f \in faults[c] \cap Soft /\ MaskAge(c, faults[c]) > StaleAfter
  BY DEF StaleFaults
<1>2. faults[c] = lastFaultMask[c] /\ sinceChange[c] > StaleAfter
  BY <1>1, RecoveryAssumption DEF MaskAge
<1>3. f \in Watchable
  BY <1>1 DEF IInv, Ages, Soft, Watchable
<1>4. held[c][f] # NotHeld /\ held[c][f] >= sinceChange[c]
  BY <1>1, <1>2, <1>3 DEF IInv, HeldAsLong
<1>5. held[c][f] \in Int /\ sinceChange[c] \in Int
  BY <1>3, RecoveryAssumption DEF IInv, Ages, NotHeld
<1>6. QED
  BY <1>2, <1>3, <1>4, <1>5, RecoveryAssumption

\* The fault that is cleared first is one of them.
LEMMA FirstIsOne ==
    ASSUME NEW fs \in SUBSET Soft, fs # {}
    PROVE  First(fs) \in fs
<1> DEFINE Rank(f) == FAULT_NAMES[f]
<1>1. Rank("comm") = 16 /\ Rank("hang") = 32 /\ Rank("queue") = 64
  BY DEF FAULT_NAMES
<1>2. \E f \in fs : \A g \in fs : Rank(f) <= Rank(g)
  <2> HIDE DEF Rank
  <2>1. CASE "comm" \in fs
    BY <2>1, <1>1 DEF Soft
  <2>2. CASE "comm" \notin fs /\ "hang" \in fs
    BY <2>2, <1>1 DEF Soft
  <2>3. CASE "comm" \notin fs /\ "hang" \notin fs
    <3>1. fs = {"queue"}
      BY <2>3 DEF Soft
    <3>2. QED
      BY <3>1, <1>1
  <2>4. QED
    BY <2>1, <2>2, <2>3
<1>3. QED
  BY <1>2 DEF First

-----------------------------------------------------------------------------
(* The invariant *)

\* A step that is neither a frame nor a tick leaves the memory of the engine alone.
LEMMA AsideInv ==
    ASSUME IInv, faults' \in [Watched -> SUBSET Fault], Pages', UNCHANGED <<memory, held>>
    PROVE  IInv'
  BY DEF IInv, Ages, HeldAsLong, memory

\* A frame takes the mask over, and restarts the clock of a mask that is another.
LEMMA FrameInv ==
    ASSUME IInv, NEW c \in Watched, Frame(c)
    PROVE  IInv'
<1> DEFINE mask == faults[c]
<1>1. PICK mode, refused : RecoveryLoop(c, mask, mode, refused)
  BY DEF Frame
<1>2. /\ lastFaultMask' = [lastFaultMask EXCEPT ![c] = mask]
      /\ \E t \in {0, MaskAge(c, mask)} : sinceChange' = [sinceChange EXCEPT ![c] = t]
  BY <1>1 DEF RecoveryLoop
<1>3. PICK t \in {0, MaskAge(c, mask)} : sinceChange' = [sinceChange EXCEPT ![c] = t]
  BY <1>2
<1>4. UNCHANGED faults /\ Shown(c)
  BY DEF Frame
<1>5. t \in 0..StaleAfter + 1 /\ (mask # lastFaultMask[c] => t = 0) /\ t <= sinceChange[c]
  BY <1>3, RecoveryAssumption DEF IInv, Ages, MaskAge
<1>6. Ages'
  <2>1. held' \in [Watched -> [Watchable -> 0..StaleAfter + 1 \cup {NotHeld}]]
    BY <1>4, RecoveryAssumption DEF IInv, Ages, Shown
  <2>2. lastFaultMask' \in [Watched -> SUBSET Fault] /\ sinceChange' \in [Watched -> 0..StaleAfter + 1]
    BY <1>2, <1>3, <1>5 DEF IInv, Ages
  <2>3. QED
    BY <1>4, <2>1, <2>2 DEF IInv, Ages
<1>7. HeldAsLong'
  <2> SUFFICES ASSUME NEW d \in Watched, NEW f \in Watchable, f \in lastFaultMask'[d]
               PROVE  held'[d][f] # NotHeld /\ held'[d][f] >= sinceChange'[d]
    BY DEF HeldAsLong
  <2>1. CASE d # c
    <3>1. /\ lastFaultMask'[d] = lastFaultMask[d]
          /\ sinceChange'[d] = sinceChange[d]
          /\ held'[d] = held[d]
      BY <2>1, <1>2, <1>3, <1>4 DEF IInv, Ages, Shown
    <3>2. QED
      BY <3>1 DEF IInv, HeldAsLong
  <2>2. CASE d = c
    <3>1. f \in mask /\ sinceChange'[d] = t
      BY <2>2, <1>2, <1>3 DEF IInv, Ages
    <3>2. held'[d][f] = IF held[c][f] = NotHeld THEN 0 ELSE held[c][f]
      BY <2>2, <3>1, <1>4 DEF IInv, Ages, Shown
    <3>3. held[c][f] \in 0..StaleAfter + 1 \cup {NotHeld}
      BY DEF IInv, Ages
    <3>4. CASE t = 0
      BY <3>1, <3>2, <3>3, <3>4, RecoveryAssumption DEF NotHeld
    <3>5. CASE t # 0
      <4>1. f \in lastFaultMask[c]
        BY <3>1, <3>5, <1>5
      <4>2. held[c][f] # NotHeld /\ held[c][f] >= sinceChange[c]
        BY <4>1 DEF IInv, HeldAsLong
      <4>3. sinceChange[c] \in 0..StaleAfter + 1
        BY DEF IInv, Ages
      <4>4. QED
        BY <3>1, <3>2, <3>3, <4>2, <4>3, <1>5, RecoveryAssumption DEF NotHeld
    <3>6. QED
      BY <3>4, <3>5
  <2>3. QED
    BY <2>1, <2>2
<1>8. Pages'
  BY DEF Frame, console, IInv, Pages
<1>9. QED
  BY <1>6, <1>7, <1>8 DEF IInv

\* A tick lets all clocks go on, and keeps their order.
LEMMA TickInv == IInv /\ Tick => IInv'
<1> SUFFICES ASSUME IInv, Tick PROVE IInv'
  OBVIOUS
<1>1. /\ UNCHANGED <<faults, lastFaultMask>>
      /\ sinceChange' = [c \in Watched |-> Older(sinceChange[c], StaleAfter)]
      /\ held' = [c \in Watched |-> [f \in Watchable |->
             IF held[c][f] = NotHeld THEN NotHeld ELSE Older(held[c][f], StaleAfter)]]
  BY DEF Tick, Age, rest
<1>2. \A a \in 0..StaleAfter + 1 : Older(a, StaleAfter) \in 0..StaleAfter + 1
  BY RecoveryAssumption DEF Older
<1>3. Ages'
  <2>1. held' \in [Watched -> [Watchable -> 0..StaleAfter + 1 \cup {NotHeld}]]
    BY <1>1, <1>2 DEF IInv, Ages
  <2>2. QED
    BY <1>1, <1>2, <2>1 DEF IInv, Ages
<1>4. HeldAsLong'
  <2> SUFFICES ASSUME NEW c \in Watched, NEW f \in Watchable, f \in lastFaultMask[c]
               PROVE  held'[c][f] # NotHeld /\ held'[c][f] >= sinceChange'[c]
    BY <1>1 DEF HeldAsLong
  <2>1. held[c][f] # NotHeld /\ held[c][f] >= sinceChange[c]
    BY DEF IInv, HeldAsLong
  <2>2. held[c][f] \in 0..StaleAfter + 1 /\ sinceChange[c] \in 0..StaleAfter + 1
    BY <2>1 DEF IInv, Ages
  <2>3. /\ Older(held[c][f], StaleAfter) \in 0..StaleAfter + 1
        /\ Older(held[c][f], StaleAfter) >= Older(sinceChange[c], StaleAfter)
    BY <2>1, <2>2, OlderFacts, RecoveryAssumption
  <2>4. QED
    BY <1>1, <2>1, <2>3, RecoveryAssumption DEF NotHeld
<1>5. Pages'
  BY DEF Tick, console, IInv, Pages
<1>6. QED
  BY <1>3, <1>4, <1>5 DEF IInv

\* The answer or the loss of a request leaves the page and the engine alone.
LEMMA SettleInv ==
    ASSUME IInv, NEW r \in requests, Settle(r)
    PROVE  IInv'
<1>1. faults' \in [Watched -> SUBSET Fault]
  <2>1. faults' = Commanded(r) \/ faults' = faults
    BY DEF Settle, Reach, Miss, Late, Reject, NotDone
  <2>2. QED
    BY <2>1, CommandedType DEF IInv, Ages
<1>2. UNCHANGED <<memory, held, mount, mounts>>
  BY DEF Settle, Reach, Miss, Late, Reject, Answered, Aside
<1>3. QED
  BY <1>1, <1>2, AsideInv DEF IInv, Pages

\* Every step keeps the invariant.
LEMMA StepInv == IInv /\ [Next]_vars => IInv'
<1> SUFFICES ASSUME IInv, [Next]_vars PROVE IInv'
  OBVIOUS
<1> USE DEF IInv
<1>1. ASSUME NEW c \in Watched, Recovers(c) PROVE IInv'
  <2>1. faults' \in [Watched -> SUBSET Fault]
    BY <1>1 DEF Recovers, Ages
  <2>2. QED
    BY <1>1, <2>1, AsideInv DEF Recovers, Pages, console
<1>2. ASSUME NEW c \in Watched, Fails(c) PROVE IInv'
  <2>1. faults' \in [Watched -> SUBSET Fault]
    BY <1>2, MissionAssumption DEF Fails, Ages
  <2>2. QED
    BY <1>2, <2>1, AsideInv DEF Fails, Pages, console
<1>3. ASSUME NEW c \in Watched, Frame(c) PROVE IInv'
  BY <1>3, FrameInv
<1>4. CASE DatabaseReturns \/ FrameDropped
  BY <1>4, AsideInv DEF DatabaseReturns, FrameDropped, Ages, Pages, rest, console
<1>5. CASE Tick
  BY <1>5, TickInv
<1>6. ASSUME NEW r \in requests, Settle(r) PROVE IInv'
  BY <1>6, SettleInv
<1>7. CASE LaunchStep
  <2>1. UNCHANGED <<mount, mounts>>
    BY <1>7 DEF LaunchStep, Launch
  <2>2. QED
    BY <1>7, <2>1, AsideInv DEF LaunchStep, Ages, Pages
<1>8. CASE OrderStep
  <2>1. UNCHANGED console
    BY <1>8 DEF OrderStep, InjectFault, Restart, ClearAll
  <2>2. QED
    BY <1>8, <2>1, AsideInv DEF OrderStep, Ages, Pages, console
<1>9. CASE WakeStep
  <2>1. UNCHANGED <<mount, mounts>>
    BY <1>9 DEF WakeStep, Wake
  <2>2. QED
    BY <1>9, <2>1, AsideInv DEF WakeStep, Ages, Pages
<1>10. CASE PageStep
  <2>1. Pages'
    BY <1>10, MissionAssumption DEF PageStep, Abort, OpenPage, LeavePage, Pages
  <2>2. QED
    BY <1>10, <2>1, AsideInv DEF PageStep, Ages
<1>11. CASE UNCHANGED vars
  BY <1>11, AsideInv DEF vars, rest, console, Ages, Pages
<1>12. QED
  BY <1>1, <1>2, <1>3, <1>4, <1>5, <1>6, <1>7, <1>8, <1>9, <1>10, <1>11 DEF Next, CraftStep

-----------------------------------------------------------------------------
(* The requests of the engine *)

\* A clear the engine has just sent is one of a stale fault.
Rightly ==
    \A r \in requests' \ requests :
        r.by = Engine /\ r.action = "clear" =>
            r.name \in Watchable /\ held[r.craft][r.name] > StaleAfter

\* The calls of a step belong to the mount whose scenario it is.
LEMMA StepIsOfMount ==
    ASSUME NEW m \in Mount, NEW sc, NEW i, BeginStep(m, sc, i), NEW r \in requests' \ requests
    PROVE  r.by # Engine
<1>1. PICK calls : requests' = requests \cup {Sent(m, calls[k]) : k \in DOMAIN calls}
  BY DEF BeginStep
<1>2. r.by = m
  BY <1>1 DEF Sent, Request
<1>3. QED
  BY <1>2, MissionAssumption

\* What is in flight behind an answer: the request is gone, or nobody waits for it.
Left(r, left) ==
    /\ requests \ {r} \subseteq left
    /\ left \subseteq (requests \ {r}) \cup {[r EXCEPT !.by = Adrift]}

\* A request is answered, whether it has been executed or not, or its call throws.
LEMMA SettleCases ==
    ASSUME NEW r \in requests, Settle(r)
    PROVE  Reject(r) \/ \E left : Left(r, left) /\ Answered(r, left)
<1>1. CASE Reach(r) \/ Miss(r)
  <2>1. Left(r, requests \ {r})
    BY DEF Left
  <2>2. QED
    BY <1>1, <2>1 DEF Reach, Miss
<1>2. CASE Late(r)
  <2>1. Left(r, (requests \ {r}) \cup {[r EXCEPT !.by = Adrift]})
    BY DEF Left
  <2>2. QED
    BY <1>2, <2>1 DEF Late
<1>3. QED
  BY <1>1, <1>2 DEF Settle

\* What comes of an answered, lost or rejected call belongs to its mount, or to nobody.
LEMMA SettleIsOfMount ==
    ASSUME NEW r \in requests, Settle(r), NEW q \in requests' \ requests
    PROVE  q.by # Engine
<1>1. CASE Reject(r)
  <2>1. PICK p \in requests : q = IF p.by = r.by THEN [p EXCEPT !.by = Adrift] ELSE p
    BY <1>1 DEF Reject, CallThrows
  <2>2. q = [p EXCEPT !.by = Adrift]
    BY <2>1
  <2>3. CASE q.by = Adrift
    BY <2>3, MissionAssumption
  <2>4. CASE q.by # Adrift
    BY <2>2, <2>4
  <2>5. QED
    BY <2>3, <2>4
<1>2. ASSUME NEW left, Left(r, left), Answered(r, left) PROVE q.by # Engine
  <2>1. \/ q = [r EXCEPT !.by = Adrift]
        \/ r.by \in Mount /\ q = Sent(r.by, Head(loop[r.by].queue))
    BY <1>2 DEF Left, Answered, CallReturns
  <2>2. CASE q = [r EXCEPT !.by = Adrift]
    <3>1. CASE q.by = Adrift
      BY <3>1, MissionAssumption
    <3>2. CASE q.by # Adrift
      BY <2>2, <3>2
    <3>3. QED
      BY <3>1, <3>2
  <2>3. CASE r.by \in Mount /\ q = Sent(r.by, Head(loop[r.by].queue))
    BY <2>3, MissionAssumption DEF Sent, Request
  <2>4. QED
    BY <2>1, <2>2, <2>3
<1>3. QED
  BY <1>1, <1>2, SettleCases

\* What a frame makes the engine ask for.
LEMMA FrameClears ==
    ASSUME IInv, NEW c \in Watched, Frame(c)
    PROVE  Rightly
<1> DEFINE mask  == faults[c]
           stale == StaleFaults(c, mask)
<1>1. PICK mode, refused : RecoveryLoop(c, mask, mode, refused)
  BY DEF Frame
<1> SUFFICES ASSUME NEW r \in requests' \ requests, r.by = Engine, r.action = "clear"
             PROVE  r.name \in Watchable /\ held[r.craft][r.name] > StaleAfter
  BY DEF Rightly
<1>2. stale \in SUBSET Soft
  BY DEF StaleFaults
<1>3. stale # {} => First(stale) \in stale
  BY <1>2, FirstIsOne
<1>4. \/ \E f \in stale : r = ClearFault(Engine, c, f)
      \/ r = RunBench(Engine, c)
  BY <1>1, <1>3 DEF RecoveryLoop
<1>5. r # RunBench(Engine, c)
  BY DEF RunBench, Request
<1>6. PICK f \in stale : r = ClearFault(Engine, c, f)
  BY <1>4, <1>5
<1>7. r.craft = c /\ r.name = f
  BY <1>6 DEF ClearFault, Request
<1>8. QED
  BY <1>6, <1>7, StaleIsHeld

\* Whatever happens, the engine clears stale faults only.
LEMMA StepClears == IInv /\ [Next]_vars => Rightly
<1> SUFFICES ASSUME IInv, [Next]_vars PROVE Rightly
  OBVIOUS
<1>1. ASSUME NEW c \in Watched, Frame(c) PROVE Rightly
  BY <1>1, FrameClears
<1>2. ASSUME NEW r \in requests, Settle(r) PROVE Rightly
  BY <1>2, SettleIsOfMount DEF Rightly
<1>3. CASE LaunchStep
  <2>1. PICK sc \in Launchable : Launch(sc)
    BY <1>3 DEF LaunchStep
  <2>2. mount \in Mount /\ BeginStep(mount, sc, 1)
    BY <2>1, MissionAssumption DEF Launch, IInv, Pages, Mount
  <2>3. QED
    BY <2>2, StepIsOfMount DEF Rightly
<1>4. CASE OrderStep
  <2>1. ASSUME NEW r \in requests' \ requests PROVE r.by = Operator
    BY <1>4, <2>1 DEF OrderStep, InjectFault, Restart, ClearAll,
                      SetFault, ClearFault, RestartCraft, Request
  <2>2. QED
    BY <2>1, MissionAssumption DEF Rightly
<1>5. CASE WakeStep
  <2>1. PICK m \in Mount : Wake(m)
    BY <1>5 DEF WakeStep
  <2>2. requests' = requests \/ BeginStep(m, loop[m].scenario, loop[m].step + 1)
    BY <2>1 DEF Wake
  <2>3. QED
    BY <2>2, StepIsOfMount DEF Rightly
<1>6. CASE UNCHANGED requests
  BY <1>6 DEF Rightly
<1>7. QED
  <2>1. ASSUME NEW c \in Watched, Recovers(c) \/ Fails(c) PROVE UNCHANGED requests
    BY <2>1 DEF Recovers, Fails
  <2>2. FrameDropped \/ DatabaseReturns \/ Tick \/ PageStep \/ UNCHANGED vars => UNCHANGED requests
    BY DEF FrameDropped, DatabaseReturns, Tick, PageStep, Abort, OpenPage, LeavePage, vars, rest
  <2>3. QED
    BY <1>1, <1>2, <1>3, <1>4, <1>5, <1>6, <2>1, <2>2 DEF Next, CraftStep

\* recovery.ts:53: for any craft, faults and limits, the engine only clears a soft fault
\* that every frame given to it has shown for longer than the limit.
THEOREM OnlyStale == Spec => OnlyStaleCleared
<1>1. IInv /\ [Next]_vars =>
        [\A r \in requests' \ requests :
            r.by = Engine /\ r.action = "clear" =>
                r.name \in Watchable /\ held[r.craft][r.name] > StaleAfter]_vars
  BY StepClears DEF Rightly
<1>2. QED
  BY <1>1, InitInv, StepInv, PTL DEF Spec, OnlyStaleCleared

-----------------------------------------------------------------------------
(* The scenarios *)

Ids == {SWARM[i] : i \in 1..Len(SWARM)}

Calls ==
    [craft : Ids, name : DOMAIN FAULT_NAMES \cup {"CpuMon"}, action : {"set", "clear", "suspend"}]

Steps == [calls : Seq(Calls), together : BOOLEAN]

\* Every call of a scenario is one that the API knows, of a craft of the fleet.
LEMMA ScenarioTypes ==
    ASSUME Len(SWARM) >= 4, NEW sc \in DOMAIN SCENARIOS
    PROVE  SCENARIOS[sc] \in Seq(Steps) /\ Len(SCENARIOS[sc]) \in Nat \ {0}
<1>1. /\ Len(SWARM) \in Nat
      /\ \A c \in 1..Len(SWARM) : SWARM[c] \in Ids
      /\ \A c \in 1..4 : SWARM[c] \in Ids
  BY RestAssumption DEF Ids
<1>2. /\ \A f \in {"temp", "radiation", "battery", "comm"} : f \in DOMAIN FAULT_NAMES
  BY DEF FAULT_NAMES
<1>3. Observe \in Steps
  BY DEF Observe, InTurn, Steps
<1>4. CASE sc = "thermal-cascade"
  <2> DEFINE s == [c \in 1..4 |-> InTurn(<<Do(c, "temp", "set")>>)]
  <2>1. s \in Seq(Steps) /\ Len(s) = 4
    BY <1>1, <1>2 DEF InTurn, Do, Steps, Calls
  <2>2. SCENARIOS[sc] = s \o <<Observe>>
    BY <1>4 DEF SCENARIOS, Script
  <2> HIDE DEF s
  <2>3. QED
    BY <1>3, <2>1, <2>2, ConcatProperties
<1>5. CASE sc = "comms-blackout"
  <2> DEFINE calls == [c \in 1..Len(SWARM) |-> Do(c, "comm", "set")]
  <2>1. calls \in Seq(Calls)
    BY <1>1, <1>2 DEF Do, Calls
  <2>2. SCENARIOS[sc] = <<Together(calls), Observe, Observe>>
    BY <1>5 DEF SCENARIOS, Script
  <2> HIDE DEF calls
  <2>3. Together(calls) \in Steps
    BY <2>1 DEF Together, Steps
  <2>4. QED
    BY <1>3, <2>2, <2>3
<1>6. CASE sc = "watchdog-drill"
  <2>1. InTurn(<<Do(1, "CpuMon", "suspend")>>) \in Steps
    BY <1>1 DEF InTurn, Do, Steps, Calls
  <2>2. SCENARIOS[sc] = <<InTurn(<<Do(1, "CpuMon", "suspend")>>), Observe, Observe>>
    BY <1>6 DEF SCENARIOS, Script
  <2>3. QED
    BY <1>3, <2>1, <2>2
<1>7. CASE sc = "stress-test"
  <2> DEFINE s(f) == InTurn(<<Do(2, f, "set")>>)
             t == InTurn(<<Do(2, "temp", "clear"), Do(2, "battery", "clear"),
                           Do(2, "radiation", "clear")>>)
  <2>1. /\ s("temp") \in Steps /\ s("battery") \in Steps /\ s("radiation") \in Steps
        /\ t \in Steps
    BY <1>1, <1>2 DEF InTurn, Do, Steps, Calls
  <2>2. SCENARIOS[sc] = <<s("temp"), s("battery"), s("radiation"), Observe, t>>
    BY <1>7 DEF SCENARIOS, Script
  <2> HIDE DEF s, t
  <2>3. QED
    BY <1>3, <2>1, <2>2
<1>8. QED
  BY <1>4, <1>5, <1>6, <1>7 DEF SCENARIOS

Now(step) == IF step.together \/ Len(step.calls) <= 1 THEN step.calls ELSE <<Head(step.calls)>>
Later(step) == SubSeq(step.calls, Len(Now(step)) + 1, Len(step.calls))

\* The calls sent at once, and those that wait for their turn, are calls of the API.
LEMMA StepParts ==
    ASSUME NEW step \in Steps
    PROVE  /\ Now(step) \in Seq(Calls) /\ Later(step) \in Seq(Calls)
           /\ Now(step) = <<>> => Later(step) = <<>>
<1> DEFINE c == step.calls
<1>1. c \in Seq(Calls) /\ Len(c) \in Nat
  BY DEF Steps
<1>2. CASE step.together \/ Len(c) <= 1
  <2>1. Now(step) = c
    BY <1>2 DEF Now
  <2>2. Later(step) = SubSeq(c, Len(c) + 1, Len(c))
    BY <2>1 DEF Later
  <2>3. Later(step) = <<>>
    BY <1>1, <2>2, SubSeqEmpty
  <2>4. QED
    BY <1>1, <2>1, <2>3
<1>3. CASE ~step.together /\ Len(c) > 1
  <2>1. Now(step) = <<Head(c)>> /\ Len(Now(step)) = 1 /\ Head(c) = c[1]
    BY <1>1, <1>3 DEF Now
  <2>2. Later(step) = SubSeq(c, 2, Len(c))
    BY <2>1 DEF Later
  <2>3. /\ Later(step) \in Seq(Calls)
        /\ Len(Later(step)) = Len(c) - 1
        /\ \A i \in 1..(Len(c) - 1) : Later(step)[i] = c[i + 1]
    BY <1>1, <1>3, <2>2
  <2>4. Now(step) \in Seq(Calls) /\ Now(step) # <<>>
    BY <1>1, <1>3, <2>1
  <2>5. QED
    BY <2>3, <2>4
<1>4. QED
  BY <1>1, <1>2, <1>3

-----------------------------------------------------------------------------
(* Types *)

Loops ==
    [scenario : DOMAIN SCENARIOS \cup {Nothing}, step : Nat, queue : Seq(Calls),
     phase : {"idle", "calls", "sleep"}]

\* A loop that runs stands at a step of its scenario, and sleeps when no call of it is left.
Fine(l) ==
    /\ l.phase # "idle" => /\ Len(SWARM) >= 4
                           /\ l.scenario \in DOMAIN SCENARIOS
                           /\ l.step \in 1..Len(SCENARIOS[l.scenario])
    /\ l.phase = "sleep" => l.queue = <<>>

\* The page shows a scenario as long as it runs: it cannot be launched twice.
LoopsInv ==
    /\ loop \in [Mount -> Loops]
    /\ running \in [Mount -> DOMAIN SCENARIOS \cup {Nothing}]
    /\ \A m \in Mount : Fine(loop[m]) /\ (Busy(m) => running[m] # Nothing)

\* A loop waits for the calls it has sent.
RequestsInv ==
    /\ requests \subseteq Requests
    /\ \A r \in requests : r.by \in Mount => loop[r.by].phase = "calls"

\* The rest of the types.
FlagsInv ==
    /\ sinceSafe \in [Watched -> 0..SafeAfter + 1 \cup {NotSafe}]
    /\ cancelRef \in [Mount -> BOOLEAN]

\* A call of the console is a request of the API.
LEMMA SentType ==
    ASSUME NEW m \in Mount \cup {Adrift}, NEW call \in Calls
    PROVE  Sent(m, call) \in Requests
  BY DEF Sent, Request, Calls, Requests, Ids

\* So is what the engine and the operator ask for.
LEMMA OtherTypes ==
    ASSUME NEW by \in {Engine, Operator}, NEW c \in Watched
    PROVE  /\ \A f \in Fault : /\ ClearFault(by, c, f) \in Requests
                              /\ SetFault(by, c, f) \in Requests
           /\ RunBench(by, c) \in Requests
           /\ RestartCraft(by, c) \in Requests
<1>1. c \in {SWARM[i] : i \in 1..Len(SWARM)}
  BY RestAssumption
<1>2. QED
  BY <1>1 DEF ClearFault, SetFault, RunBench, RestartCraft, Request, Requests

\* One loop goes on, the others stay where they are.
LEMMA OneLoop ==
    ASSUME LoopsInv, NEW m \in Mount, NEW l \in Loops, Fine(l), loop' = [loop EXCEPT ![m] = l],
           NEW sc \in DOMAIN SCENARIOS \cup {Nothing}, running' = [running EXCEPT ![m] = sc],
           l.phase # "idle" => sc # Nothing
    PROVE  LoopsInv' /\ loop'[m] = l /\ \A n \in Mount \ {m} : loop'[n] = loop[n]
<1>1. loop'[m] = l /\ \A n \in Mount \ {m} : loop'[n] = loop[n]
  BY DEF LoopsInv
<1>2. running'[m] = sc /\ \A n \in Mount \ {m} : running'[n] = running[n]
  BY DEF LoopsInv
<1>3. /\ loop' \in [Mount -> Loops]
      /\ running' \in [Mount -> DOMAIN SCENARIOS \cup {Nothing}]
  BY DEF LoopsInv
<1>4. ASSUME NEW n \in Mount PROVE Fine(loop'[n]) /\ (loop'[n].phase # "idle" => running'[n] # Nothing)
  BY <1>1, <1>2 DEF LoopsInv, Busy
<1>5. QED
  BY <1>1, <1>3, <1>4 DEF LoopsInv, Busy, Fine

\* What a step that begins does, and what it sends.
LEMMA BeginParts ==
    ASSUME NEW m, NEW sc, NEW i, BeginStep(m, sc, i)
    PROVE  LET step == SCENARIOS[sc][i]
           IN  /\ requests' = requests \cup {Sent(m, Now(step)[k]) : k \in DOMAIN Now(step)}
               /\ loop' = [loop EXCEPT ![m] =
                      [scenario |-> sc, step |-> i, queue |-> Later(step),
                       phase |-> IF Now(step) = <<>> THEN "sleep" ELSE "calls"]]
  BY DEF BeginStep, Now, Later

\* A step that begins when no call of the mount is on its way keeps the types.
LEMMA BeginTypes ==
    ASSUME LoopsInv, RequestsInv, Len(SWARM) >= 4, NEW m \in Mount, NEW sc \in DOMAIN SCENARIOS,
           NEW i \in 1..Len(SCENARIOS[sc]), BeginStep(m, sc, i), loop[m].phase # "calls",
           NEW s \in DOMAIN SCENARIOS \cup {Nothing}, s # Nothing, running' = [running EXCEPT ![m] = s]
    PROVE  LoopsInv' /\ RequestsInv'
<1> DEFINE step == SCENARIOS[sc][i]
           l == [scenario |-> sc, step |-> i, queue |-> Later(step),
                 phase |-> IF Now(step) = <<>> THEN "sleep" ELSE "calls"]
<1>1. step \in Steps /\ i \in Nat
  BY ScenarioTypes
<1>2. /\ requests' = requests \cup {Sent(m, Now(step)[k]) : k \in DOMAIN Now(step)}
      /\ loop' = [loop EXCEPT ![m] = l]
  BY BeginParts
<1> HIDE DEF step
<1>3. /\ Now(step) \in Seq(Calls) /\ Later(step) \in Seq(Calls)
      /\ Now(step) = <<>> => Later(step) = <<>>
  BY <1>1, StepParts
<1>4. l \in Loops /\ Fine(l)
  BY <1>1, <1>3 DEF Loops, Fine
<1>5. l.phase # "calls" => DOMAIN Now(step) = {}
  BY <1>3
<1> HIDE DEF l
<1>6. LoopsInv' /\ loop'[m] = l /\ \A n \in Mount \ {m} : loop'[n] = loop[n]
  BY <1>2, <1>4, OneLoop
<1>7. RequestsInv'
  <2>1. ASSUME NEW r \in requests' PROVE r \in Requests /\ (r.by \in Mount => loop'[r.by].phase = "calls")
    <3>1. CASE r \in requests
      BY <1>6, <3>1 DEF RequestsInv
    <3>2. CASE r \notin requests
      <4>1. PICK k \in DOMAIN Now(step) : r = Sent(m, Now(step)[k])
        BY <1>2, <3>2
      <4>2. Now(step)[k] \in Calls /\ r.by = m
        BY <1>3, <4>1 DEF Sent, Request
      <4>3. l \in Loops /\ l.phase = "calls"
        BY <1>4, <1>5, <4>1
      <4>4. QED
        BY <1>6, <4>1, <4>2, <4>3, SentType
    <3>3. QED
      BY <3>1, <3>2
  <2>2. QED
    BY <2>1 DEF RequestsInv
<1>8. QED
  BY <1>6, <1>7

\* An answer, or the lack of one, does too.
LEMMA SettleTypes ==
    ASSUME LoopsInv, RequestsInv, NEW r \in requests, Settle(r)
    PROVE  LoopsInv' /\ RequestsInv'
<1> DEFINE m == r.by
<1>1. r \in Requests /\ (m \in Mount => loop[m].phase = "calls" /\ loop[m] \in Loops)
  BY DEF LoopsInv, RequestsInv
<1>2. UNCHANGED running
  BY DEF Settle, Reach, Miss, Late, Reject, Answered, Aside
<1>0. [r EXCEPT !.by = Adrift] \in Requests /\ [r EXCEPT !.by = Adrift].by \notin Mount
  BY <1>1, MissionAssumption DEF Requests
<1>3. ASSUME m \in Mount, NEW l \in Loops, Fine(l), l.phase # "idle",
             loop' = [loop EXCEPT ![m] = l]
      PROVE  LoopsInv' /\ loop'[m] = l /\ \A n \in Mount \ {m} : loop'[n] = loop[n]
  <2>1. running[m] # Nothing /\ running[m] \in DOMAIN SCENARIOS \cup {Nothing}
    BY <1>1, <1>3 DEF LoopsInv, Busy
  <2>2. running' = [running EXCEPT ![m] = running[m]]
    BY <1>2, <1>3 DEF LoopsInv
  <2>3. QED
    BY <1>3, <2>1, <2>2, OneLoop
<1>4. CASE Reject(r)
  <2> DEFINE l == [loop[m] EXCEPT !.queue = <<>>, !.phase = "sleep"]
  <2>1. /\ requests' = {IF q.by = m THEN [q EXCEPT !.by = Adrift] ELSE q : q \in requests \ {r}}
        /\ loop' = [loop EXCEPT ![m].queue = <<>>, ![m].phase = "sleep"]
        /\ m \in Mount
    BY <1>4 DEF Reject, CallThrows
  <2>2. Fine(loop[m]) /\ loop[m] \in Loops /\ loop[m].phase = "calls"
    BY <1>1, <2>1 DEF LoopsInv
  <2>3. <<>> \in Seq(Calls)
    OBVIOUS
  <2>4. l \in Loops /\ l.phase = "sleep" /\ Fine(l)
    BY <2>2, <2>3 DEF Loops, Fine
  <2>5. loop' = [loop EXCEPT ![m] = l]
    BY <2>1 DEF LoopsInv
  <2> HIDE DEF l
  <2>6. LoopsInv' /\ \A n \in Mount \ {m} : loop'[n] = loop[n]
    BY <1>3, <2>1, <2>4, <2>5
  <2>7. RequestsInv'
    <3>1. ASSUME NEW q \in requests, q.by = m
          PROVE  [q EXCEPT !.by = Adrift] \in Requests /\ [q EXCEPT !.by = Adrift].by \notin Mount
      <4>1. q \in Requests
        BY DEF RequestsInv
      <4>2. QED
        BY <4>1, MissionAssumption DEF Requests
    <3>2. ASSUME NEW q \in requests, q.by # m
          PROVE  q \in Requests /\ (q.by \in Mount => loop'[q.by].phase = "calls")
      BY <2>6, <3>2 DEF RequestsInv
    <3>3. ASSUME NEW p \in requests'
          PROVE  p \in Requests /\ (p.by \in Mount => loop'[p.by].phase = "calls")
      <4>1. PICK q \in requests : p = IF q.by = m THEN [q EXCEPT !.by = Adrift] ELSE q
        BY <2>1
      <4>2. QED
        BY <3>1, <3>2, <4>1
    <3>4. QED
      BY <3>3 DEF RequestsInv
  <2>8. QED
    BY <2>6, <2>7
<1>5. ASSUME NEW left, Left(r, left), Answered(r, left), m \in Mount PROVE LoopsInv' /\ RequestsInv'
  <2>1. CallReturns(m, left)
    BY <1>5 DEF Answered
  <2>0. ASSUME NEW q \in left
        PROVE  q \in Requests /\ (q.by \in Mount => loop[q.by].phase = "calls")
    BY <1>0, <1>5, <2>0 DEF Left, RequestsInv
  <2>2. Fine(loop[m]) /\ loop[m] \in Loops /\ loop[m].phase = "calls"
    BY <1>1, <1>5 DEF LoopsInv
  <2>3. CASE loop[m].queue # <<>>
    <3> DEFINE l == [loop[m] EXCEPT !.queue = Tail(loop[m].queue)]
               q == Sent(m, Head(loop[m].queue))
    <3>1. /\ requests' = left \cup {q}
          /\ loop' = [loop EXCEPT ![m].queue = Tail(@)]
      BY <2>1, <2>3 DEF CallReturns
    <3>2. Head(loop[m].queue) \in Calls /\ Tail(loop[m].queue) \in Seq(Calls)
      BY <2>2, <2>3 DEF Loops
    <3>3. l \in Loops /\ Fine(l) /\ l.phase = "calls"
      BY <2>2, <3>2 DEF Loops, Fine
    <3>4. loop' = [loop EXCEPT ![m] = l]
      BY <3>1 DEF LoopsInv
    <3> HIDE DEF l
    <3>5. LoopsInv' /\ loop'[m] = l /\ \A n \in Mount \ {m} : loop'[n] = loop[n]
      BY <1>3, <1>5, <3>3, <3>4
    <3>6. q \in Requests /\ q.by = m
      BY <1>5, <3>2, SentType DEF Sent, Request
    <3> HIDE DEF q
    <3>7. RequestsInv'
      BY <2>0, <3>1, <3>3, <3>5, <3>6 DEF RequestsInv
    <3>8. QED
      BY <3>5, <3>7
  <2>4. CASE loop[m].queue = <<>> /\ Outstanding(m, left) = {}
    <3> DEFINE l == [loop[m] EXCEPT !.phase = "sleep"]
    <3>1. /\ requests' = left
          /\ loop' = [loop EXCEPT ![m].phase = "sleep"]
      BY <2>1, <2>2, <2>4 DEF CallReturns
    <3>2. l \in Loops /\ Fine(l) /\ l.phase = "sleep"
      BY <2>2, <2>4 DEF Loops, Fine
    <3>3. loop' = [loop EXCEPT ![m] = l]
      BY <3>1 DEF LoopsInv
    <3> HIDE DEF l
    <3>4. LoopsInv' /\ \A n \in Mount \ {m} : loop'[n] = loop[n]
      BY <1>3, <1>5, <3>2, <3>3
    <3>5. \A q \in left : q.by # m
      BY <2>4 DEF Outstanding
    <3>6. QED
      BY <2>0, <3>1, <3>4, <3>5 DEF RequestsInv
  <2>5. CASE loop[m].queue = <<>> /\ Outstanding(m, left) # {}
    <3>1. requests' = left /\ UNCHANGED loop
      BY <2>1, <2>5 DEF CallReturns
    <3>2. QED
      BY <1>2, <2>0, <3>1 DEF LoopsInv, RequestsInv, Busy, Fine
  <2>6. QED
    BY <2>3, <2>4, <2>5
<1>6. ASSUME NEW left, Left(r, left), Answered(r, left), m \notin Mount PROVE LoopsInv' /\ RequestsInv'
  <2>1. requests' = left /\ UNCHANGED loop
    BY <1>6 DEF Answered
  <2>2. ASSUME NEW q \in left
        PROVE  q \in Requests /\ (q.by \in Mount => loop[q.by].phase = "calls")
    BY <1>0, <1>6, <2>2 DEF Left, RequestsInv
  <2>3. QED
    BY <1>2, <2>1, <2>2 DEF LoopsInv, RequestsInv, Busy, Fine
<1>7. QED
  BY <1>4, <1>5, <1>6, SettleCases

TypeInv == LoopsInv /\ RequestsInv /\ FlagsInv

\* Nothing runs and nothing is under way at start.
LEMMA InitTypes == Init => TypeInv
<1> SUFFICES ASSUME Init PROVE TypeInv
  OBVIOUS
<1>1. Idle \in Loops
  BY DEF Idle, Loops
<1>2. LoopsInv
  BY <1>1 DEF Init, SimulateInit, LoopsInv, Busy, Idle, Fine
<1>3. QED
  BY <1>2 DEF Init, SimulateInit, RestInit, RecoveryInit, TypeInv, RequestsInv, FlagsInv

\* The requests of a frame and the ages it leaves.
LEMMA FrameTypes ==
    ASSUME IInv, TypeInv, NEW c \in Watched, Frame(c)
    PROVE  TypeInv'
<1> DEFINE mask  == faults[c]
           stale == StaleFaults(c, mask)
<1>1. PICK mode, refused : RecoveryLoop(c, mask, mode, refused)
  BY DEF Frame
<1>2. UNCHANGED console
  BY DEF Frame
<1>3. LoopsInv'
  BY <1>2 DEF console, TypeInv, LoopsInv, Busy, Fine
<1>4. RequestsInv'
  <2>1. stale \in SUBSET Soft /\ stale \in SUBSET Fault
    BY DEF StaleFaults, IInv, Ages
  <2>2. stale # {} => First(stale) \in stale
    BY <2>1, FirstIsOne
  <2>3. \A r \in requests' : r \in requests \/ (\E f \in stale : r = ClearFault(Engine, c, f))
                             \/ r = RunBench(Engine, c)
    BY <1>1, <2>2 DEF RecoveryLoop
  <2>4. \A f : ClearFault(Engine, c, f).by = Engine /\ RunBench(Engine, c).by = Engine
    BY DEF ClearFault, RunBench, Request
  <2>5. QED
    BY <1>2, <2>1, <2>3, <2>4, OtherTypes, MissionAssumption DEF TypeInv, RequestsInv, console
<1>5. sinceSafe' \in [Watched -> 0..SafeAfter + 1 \cup {NotSafe}]
  <2>1. sinceSafe' = sinceSafe
        \/ \E a \in {NotSafe, 0, SafeAge(c)} : sinceSafe' = [sinceSafe EXCEPT ![c] = a]
    BY <1>1 DEF RecoveryLoop
  <2>2. SafeAge(c) \in 0..SafeAfter + 1
    BY RecoveryAssumption DEF SafeAge, TypeInv, FlagsInv
  <2>3. QED
    BY <2>1, <2>2, RecoveryAssumption DEF TypeInv, FlagsInv
<1>6. QED
  BY <1>2, <1>3, <1>4, <1>5 DEF TypeInv, FlagsInv, console

\* The types are kept by every step.
LEMMA StepTypes == IInv /\ TypeInv /\ [Next]_vars => TypeInv'
<1> SUFFICES ASSUME IInv, TypeInv, [Next]_vars PROVE TypeInv'
  OBVIOUS
<1> USE DEF TypeInv
<1>0. ASSUME UNCHANGED <<loop, running, requests, sinceSafe, cancelRef>>
      PROVE  TypeInv'
  BY <1>0 DEF LoopsInv, RequestsInv, FlagsInv, Busy, Fine
<1>2. ASSUME NEW c \in Watched, Recovers(c) \/ Fails(c)
      PROVE  TypeInv'
  BY <1>0, <1>2 DEF Recovers, Fails, memory, console, FlagsInv
<1>3. ASSUME NEW c \in Watched, Frame(c)
      PROVE  TypeInv'
  BY <1>3, FrameTypes
<1>4. CASE DatabaseReturns \/ FrameDropped
  BY <1>0, <1>4 DEF DatabaseReturns, FrameDropped, rest, memory, console, FlagsInv
<1>5. CASE Tick
  <2>1. sinceSafe' \in [Watched -> 0..SafeAfter + 1 \cup {NotSafe}]
    BY <1>5, RecoveryAssumption DEF Tick, Age, Older, FlagsInv
  <2>2. QED
    BY <1>5, <2>1 DEF Tick, rest, console, LoopsInv, RequestsInv, FlagsInv, Busy, Fine
<1>6. ASSUME NEW r \in requests, Settle(r)
      PROVE  TypeInv'
  <2>1. UNCHANGED <<memory, cancelRef>>
    BY <1>6 DEF Settle, Reach, Miss, Late, Reject, Answered, Aside
  <2>2. FlagsInv'
    BY <2>1 DEF FlagsInv, memory
  <2>3. QED
    BY <1>6, <2>2, SettleTypes
<1>7. CASE LaunchStep
  <2>1. PICK sc \in Launchable : Launch(sc)
    BY <1>7 DEF LaunchStep
  <2>2. mount \in Mount /\ Len(SWARM) >= 4 /\ sc \in DOMAIN SCENARIOS /\ sc # Nothing
    BY <2>1, MissionAssumption DEF Launch, IInv, Pages, Mount
  <2>3. 1 \in 1..Len(SCENARIOS[sc])
    BY <2>2, ScenarioTypes
  <2>4. LoopsInv' /\ RequestsInv'
    <3>1. loop[mount].phase # "calls"
      BY <2>1, <2>2 DEF Launch, LoopsInv, Busy
    <3>2. BeginStep(mount, sc, 1) /\ running' = [running EXCEPT ![mount] = sc]
      BY <2>1 DEF Launch
    <3>3. QED
      BY <2>2, <2>3, <3>1, <3>2, BeginTypes
  <2>5. FlagsInv'
    <3>1. cancelRef' = [cancelRef EXCEPT ![mount] = FALSE] /\ sinceSafe' = sinceSafe
      BY <1>7, <2>1 DEF LaunchStep, Launch, memory
    <3>2. QED
      BY <2>2, <3>1 DEF FlagsInv
  <2>6. QED
    BY <2>4, <2>5
<1>8. CASE OrderStep
  <2>1. RequestsInv'
    <3>1. \A r \in requests' \ requests : r \in Requests /\ r.by = Operator
      <4>1. ASSUME NEW c \in Watched, NEW f \in Fault
            PROVE  {ClearFault(Operator, c, f), SetFault(Operator, c, f)} \subseteq Requests
        BY OtherTypes
      <4>2. \A c \in Watched : RestartCraft(Operator, c) \in Requests
        BY OtherTypes
      <4>3. \A c, f : /\ ClearFault(Operator, c, f).by = Operator
                      /\ SetFault(Operator, c, f).by = Operator
                      /\ RestartCraft(Operator, c).by = Operator
        BY DEF SetFault, ClearFault, RestartCraft, Request
      <4>4. QED
        BY <1>8, <4>1, <4>2, <4>3 DEF OrderStep, InjectFault, Restart, ClearAll
    <3>2. UNCHANGED loop
      BY <1>8 DEF OrderStep, InjectFault, Restart, ClearAll, console
    <3>3. QED
      BY <3>1, <3>2, MissionAssumption DEF RequestsInv
  <2>2. UNCHANGED <<console, memory>>
    BY <1>8 DEF OrderStep, InjectFault, Restart, ClearAll
  <2>3. QED
    BY <2>1, <2>2 DEF console, memory, LoopsInv, FlagsInv, Busy, Fine
<1>9. CASE WakeStep
  <2>1. PICK m \in Mount : Wake(m)
    BY <1>9 DEF WakeStep
  <2>2. FlagsInv'
    BY <1>9, <2>1 DEF WakeStep, Wake, memory, FlagsInv
  <2>3. Busy(m) /\ Fine(loop[m]) /\ loop[m].phase = "sleep" /\ running[m] # Nothing
    BY <2>1 DEF Wake, Busy, LoopsInv
  <2>4. CASE Stops(m)
    <3>1. /\ loop' = [loop EXCEPT ![m] = Idle]
          /\ running' = [running EXCEPT ![m] = Nothing]
          /\ requests' = requests
      BY <2>1, <2>4 DEF Wake
    <3>2. Idle \in Loops /\ Idle.phase = "idle" /\ Fine(Idle)
      BY DEF Idle, Loops, Fine
    <3>3. LoopsInv' /\ \A n \in Mount \ {m} : loop'[n] = loop[n]
      BY <3>1, <3>2, OneLoop
    <3>4. RequestsInv'
      BY <2>3, <3>1, <3>3 DEF RequestsInv
    <3>5. QED
      BY <2>2, <3>3, <3>4
  <2>5. CASE ~Stops(m)
    <3> DEFINE sc == loop[m].scenario
               i  == loop[m].step + 1
    <3>1. BeginStep(m, sc, i) /\ UNCHANGED running
      BY <2>1, <2>5 DEF Wake
    <3>2. running' = [running EXCEPT ![m] = running[m]] /\ running[m] \in DOMAIN SCENARIOS \cup {Nothing}
      BY <3>1 DEF LoopsInv
    <3>3. Len(SWARM) >= 4 /\ sc \in DOMAIN SCENARIOS /\ i \in 1..Len(SCENARIOS[sc])
      BY <2>3, <2>5, ScenarioTypes DEF Stops, LastStep, Fine
    <3>4. LoopsInv' /\ RequestsInv'
      BY <2>3, <3>1, <3>2, <3>3, BeginTypes
    <3>5. QED
      BY <2>2, <3>4
  <2>6. QED
    BY <2>4, <2>5
<1>10. CASE PageStep
  <2>1. UNCHANGED <<loop, running, requests, sinceSafe>>
    BY <1>10 DEF PageStep, Abort, OpenPage, LeavePage, memory
  <2>2. cancelRef' \in [Mount -> BOOLEAN]
    BY <1>10 DEF PageStep, Abort, OpenPage, LeavePage, FlagsInv
  <2>3. QED
    BY <2>1, <2>2 DEF LoopsInv, RequestsInv, FlagsInv, Busy, Fine
<1>11. CASE UNCHANGED vars
  BY <1>0, <1>11 DEF vars, rest, memory, console, FlagsInv
<1>12. QED
  BY <1>2, <1>3, <1>4, <1>5, <1>6, <1>7, <1>8, <1>9, <1>10, <1>11 DEF Next, CraftStep

\* Every variable of the mission loop keeps to its type, for any fleet and any faults.
THEOREM TypeCorrect == Spec => []TypeOK
<1>1. IInv /\ TypeInv => TypeOK
  BY DEF IInv, Ages, Pages, TypeInv, RequestsInv, FlagsInv, TypeOK
<1>2. QED
  BY <1>1, InitInv, StepInv, InitTypes, StepTypes, PTL DEF Spec
=============================================================================
