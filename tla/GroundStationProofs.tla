------------------------- MODULE GroundStationProofs -------------------------
(***************************************************************************)
(* What the process manager of the orchestrator guarantees for any number   *)
(* of craft, processes and restart requests.  The four parts of the          *)
(* inductive invariant hold each other up: a spawn keeps OneProcess because  *)
(* it follows a kill, and a kill keeps KillIsFollowed because its timer is    *)
(* counted; the bound on respawns keeps their type.  Of the relay: that the  *)
(* loop of recompute finds the healthiest craft, and that what is published  *)
(* is what it has found for the last frames.                                 *)
(***************************************************************************)
EXTENDS GroundStation, WellFoundedInduction, TLAPS

TimersAreRequests == \A c \in Craft : respawns[c] <= requests

IInv == SwarmTypeOK /\ TimersAreRequests /\ OneProcess /\ StatusTruthful /\ KillIsFollowed

\* The start-up of swarm.ts establishes the invariant.
LEMMA InitInv == Init => IInv
  BY SwarmAssumption
     DEF Init, SwarmInit, IInv, SwarmTypeOK, TimersAreRequests, OneProcess, StatusTruthful,
         KillIsFollowed, ProcStates

\* A restart request kills the process it finds and counts its timer.
LEMMA RestartInv ==
    ASSUME IInv, NEW c \in Craft, Restart(c)
    PROVE  IInv'
<1> USE SwarmAssumption DEF IInv, SwarmTypeOK, ProcStates
<1> DEFINE p0 == current[c]
<1>1. p0 \in Proc
  OBVIOUS
<1>2. /\ requests < MaxRequests
      /\ requests' = requests + 1
      /\ current' = current
      /\ deaths' = deaths
      /\ status' = [status EXCEPT ![c] = "offline"]
      /\ respawns' = [respawns EXCEPT ![c] = @ + 1]
      /\ proc' = [proc EXCEPT ![c][current[c]] = IF @ = "running" THEN "signalled" ELSE @]
  BY DEF Restart, RequestRestart
<1>3. /\ proc' \in [Craft -> [Proc -> ProcStates]]
      /\ \A d \in Craft : d # c => proc'[d] = proc[d]
      /\ \A p \in Proc : p # p0 => proc'[c][p] = proc[c][p]
      /\ proc'[c][p0] # "running"
  BY <1>1, <1>2
<1>4. TimersAreRequests' /\ respawns' \in [Craft -> 0..MaxRequests]
  BY <1>2 DEF TimersAreRequests
<1>5. SwarmTypeOK'
  BY <1>2, <1>3, <1>4
<1>6. OneProcess'
  BY <1>2, <1>3 DEF OneProcess
<1>7. StatusTruthful'
  BY <1>2, <1>3 DEF StatusTruthful
<1>8. KillIsFollowed'
  BY <1>2, <1>3 DEF KillIsFollowed
<1>9. QED
  BY <1>4, <1>5, <1>6, <1>7, <1>8

\* The timer spawns only in the place of a process that was told to end.
LEMMA RespawnInv ==
    ASSUME IInv, NEW c \in Craft, Respawn(c)
    PROVE  IInv'
<1> USE SwarmAssumption DEF IInv, SwarmTypeOK, ProcStates
<1>1. /\ respawns[c] > 0
      /\ respawns' = [respawns EXCEPT ![c] = @ - 1]
      /\ requests' = requests
      /\ deaths' = deaths
  BY DEF Respawn, SpawnCraft
<1>2. TimersAreRequests' /\ respawns' \in [Craft -> 0..MaxRequests]
  BY <1>1 DEF TimersAreRequests
<1>3. CASE Existing(c)
  <2>1. UNCHANGED <<proc, current, status>>
    BY <1>3 DEF Respawn, SpawnCraft
  <2>2. KillIsFollowed'
    BY <1>1, <1>3, <2>1 DEF KillIsFollowed, Existing
  <2>3. QED
    BY <1>1, <1>2, <2>1, <2>2 DEF OneProcess, StatusTruthful
<1>4. CASE ~Existing(c)
  <2>1. PICK p \in Proc \ {current[c]} :
            /\ proc' = [proc EXCEPT ![c][p] = "running"]
            /\ current' = [current EXCEPT ![c] = p]
            /\ status' = [status EXCEPT ![c] = "online"]
    BY <1>4 DEF Respawn, SpawnCraft, Spawn
  <2>2. \A q \in Proc : proc[c][q] # "running"
    BY <1>4 DEF OneProcess, Existing
  <2>3. /\ SwarmTypeOK'
        /\ proc'[c][p] = "running"
        /\ \A q \in Proc : q # p => proc'[c][q] = proc[c][q]
        /\ \A d \in Craft : d # c => proc'[d] = proc[d]
    BY <1>1, <1>2, <2>1
  <2>4. OneProcess'
    BY <2>1, <2>2, <2>3 DEF OneProcess
  <2>5. StatusTruthful'
    BY <2>1, <2>3 DEF StatusTruthful
  <2>6. KillIsFollowed'
    BY <1>1, <2>1, <2>3 DEF KillIsFollowed
  <2>7. QED
    BY <1>2, <2>3, <2>4, <2>5, <2>6
<1>5. QED
  BY <1>3, <1>4

\* The end of a process is reported to the status of its own runtime.
LEMMA EndInv ==
    ASSUME IInv, NEW c \in Craft, NEW p \in Proc, Exit(c, p) \/ Die(c, p)
    PROVE  IInv'
<1> USE SwarmAssumption DEF IInv, SwarmTypeOK, ProcStates
<1>1. /\ UNCHANGED <<current, respawns, requests>>
      /\ deaths' \in 0..MaxDeaths
      /\ \E s \in {"offline", "crashed"} : OnExit(c, p, s)
    BY DEF Exit, Die
<1>2. \/ proc[c][p] = "signalled" /\ proc' = [proc EXCEPT ![c][p] = "killed"]
      \/ proc[c][p] = "running" /\ proc' = [proc EXCEPT ![c][p] = "exited"]
    BY DEF Exit, Die
<1>3. /\ proc' \in [Craft -> [Proc -> ProcStates]]
      /\ \A d \in Craft : d # c => proc'[d] = proc[d]
      /\ \A q \in Proc : q # p => proc'[c][q] = proc[c][q]
      /\ proc'[c][p] # "running"
      /\ proc'[c][p] \in {"signalled", "killed"} => proc[c][p] \in {"signalled", "killed"}
    BY <1>2
<1>4. /\ status' \in [Craft -> {"online", "offline", "crashed"}]
      /\ \A d \in Craft : d # c \/ p # current[c] => status'[d] = status[d]
      /\ p = current[c] => status'[c] # "online"
    BY <1>1 DEF OnExit
<1>5. SwarmTypeOK' /\ TimersAreRequests'
    BY <1>1, <1>3, <1>4 DEF TimersAreRequests
<1>6. OneProcess'
    BY <1>1, <1>3 DEF OneProcess
<1>7. StatusTruthful'
    BY <1>1, <1>3, <1>4 DEF StatusTruthful
<1>8. KillIsFollowed'
    BY <1>1, <1>3 DEF KillIsFollowed
<1>9. QED
    BY <1>5, <1>6, <1>7, <1>8

\* Every step of the orchestrator keeps the invariant: the feeds and the relay do not
\* touch the processes.
LEMMA StepInv == IInv /\ [Next]_vars => IInv'
<1> SUFFICES ASSUME IInv, [Next]_vars PROVE IInv'
  OBVIOUS
<1>1. ASSUME NEW c \in Craft, Restart(c) PROVE IInv'
  BY <1>1, RestartInv
<1>2. ASSUME NEW c \in Craft, Respawn(c) PROVE IInv'
  BY <1>2, RespawnInv
<1>3. ASSUME NEW c \in Craft, Ends(c) PROVE IInv'
  BY <1>3, EndInv DEF Ends
<1>4. ASSUME NEW c \in Craft, EndsItself(c) PROVE IInv'
  BY <1>4, EndInv DEF EndsItself
<1>5. CASE UNCHANGED swarm
  BY <1>5 DEF IInv, swarm, SwarmTypeOK, TimersAreRequests, OneProcess, StatusTruthful,
              KillIsFollowed
<1>6. ASSUME NEW c \in Craft, FeedStep(c) PROVE UNCHANGED swarm
  BY <1>6 DEF FeedStep, Bind, Connect, OnError, OnMessage
<1>7. CASE UNCHANGED vars
  BY <1>5, <1>7 DEF vars
<1>8. CASE Next
  BY <1>1, <1>2, <1>3, <1>4, <1>5, <1>6, <1>8 DEF Next, ProcessStep
<1>9. QED
  BY <1>7, <1>8

\* The invariant holds in every state the orchestrator reaches.
THEOREM Invariance == Spec => []IInv
  BY InitInv, StepInv, PTL DEF Spec

\* A craft never has two processes that nobody told to end, however many restart
\* requests overlap.
THEOREM NoSecondProcess == Spec => []OneProcess
<1>1. IInv => OneProcess
  BY DEF IInv
<1>2. QED
  BY <1>1, Invariance, PTL

\* The status that /api/swarm serves is that of the process that runs now.
THEOREM StatusIsTruthful == Spec => []StatusTruthful
<1>1. IInv => StatusTruthful
  BY DEF IInv
<1>2. QED
  BY <1>1, Invariance, PTL

\* A killed process has a respawn on its way.
THEOREM NoLostRestart == Spec => []KillIsFollowed
<1>1. IInv => KillIsFollowed
  BY DEF IInv
<1>2. QED
  BY <1>1, Invariance, PTL

-----------------------------------------------------------------------------
(* The loop of recompute *)

\* Induction over the natural numbers, in the form the provers can use: a nonempty set
\* of them has a least element.
LEMMA LeastElement ==
  ASSUME NEW S \in SUBSET Nat, S # {}
  PROVE  \E n \in S : \A m \in S : n <= m
<1>1. PICK n \in S : \A m \in S : ~ (<<m, n>> \in OpToRel(<, Nat))
  BY WFMin, NatLessThanWellFounded, Zenon
<1>2. ASSUME NEW m \in S, m < n
      PROVE  FALSE
  <2>1. <<m, n>> \in OpToRel(<, Nat)
    BY <1>2, Zenon DEF OpToRel
  <2>2. QED
    BY <1>1, <2>1
<1>3. QED
  BY <1>2

\* One turn of the loop: the k-th craft against the best so far.
Better(frames, d, k, best) ==
    IF /\ SWARM[k] # d
       /\ ~IsCommDown(frames[SWARM[k]])
       /\ HealthOf(frames[SWARM[k]]) > Fitness(frames, best)
    THEN SWARM[k]
    ELSE best

\* f is what the loop has after each of its first n turns.
IsLoop(f, n, frames, d) ==
    f = [k \in 0..n |-> IF k = 0 THEN NoCraft ELSE Better(frames, d, k, f[k - 1])]

\* The loop can go on for one turn more.
LEMMA LoopGoesOn ==
  ASSUME NEW frames, NEW d, NEW n \in Nat, NEW f, IsLoop(f, n, frames, d)
  PROVE  \E g : IsLoop(g, n + 1, frames, d)
<1> DEFINE g == [k \in 0..(n + 1) |-> IF k = n + 1 THEN Better(frames, d, n + 1, f[n]) ELSE f[k]]
           h == [k \in 0..(n + 1) |-> IF k = 0 THEN NoCraft ELSE Better(frames, d, k, g[k - 1])]
<1>1. \A k \in 0..n : f[k] = IF k = 0 THEN NoCraft ELSE Better(frames, d, k, f[k - 1])
  BY DEF IsLoop
<1>2. ASSUME NEW k \in 0..(n + 1)
      PROVE  g[k] = h[k]
  <2>1. CASE k = 0
    BY <1>1, <2>1
  <2>2. CASE k \in 1..n
    <3>1. k - 1 \in 0..n /\ k - 1 # n + 1 /\ k # n + 1 /\ k \in 0..n /\ k # 0
      BY <2>2
    <3>2. g[k - 1] = f[k - 1] /\ g[k] = f[k]
      BY <3>1
    <3>3. QED
      BY <1>1, <3>1, <3>2
  <2>3. CASE k = n + 1
    <3>1. g[n] = f[n] /\ k - 1 = n /\ k # 0
      BY <2>3
    <3>2. QED
      BY <2>3, <3>1
  <2>4. QED
    BY <2>1, <2>2, <2>3
<1>3. g = h
  BY <1>2
<1>4. IsLoop(g, n + 1, frames, d)
  BY <1>3 DEF IsLoop
<1>5. QED
  BY <1>4

\* Hence it has a result after any number of turns.
LEMMA LoopExists ==
  ASSUME NEW frames, NEW d
  PROVE  \A n \in Nat : \E f : IsLoop(f, n, frames, d)
<1> DEFINE S == {n \in Nat : ~ \E f : IsLoop(f, n, frames, d)}
<1>1. ASSUME S # {}
      PROVE  FALSE
  <2>1. PICK n \in S : \A m \in S : n <= m
    BY <1>1, LeastElement
  <2>2. CASE n = 0
    <3>1. IsLoop([k \in 0..0 |-> NoCraft], 0, frames, d)
      BY DEF IsLoop
    <3>2. QED
      BY <2>2, <3>1
  <2>3. CASE n # 0
    <3>1. n - 1 \in Nat /\ ~(n <= n - 1) /\ (n - 1) + 1 = n
      BY <2>3
    <3>2. PICK f : IsLoop(f, n - 1, frames, d)
      BY <2>1, <3>1
    <3>3. \E g : IsLoop(g, n, frames, d)
      BY <3>1, <3>2, LoopGoesOn
    <3>4. QED
      BY <3>3
  <2>4. QED
    BY <2>2, <2>3
<1>2. QED
  BY <1>1

\* The recursive function of the model is this loop.
LEMMA BestOfFirstIsLoop ==
  ASSUME NEW frames, NEW d
  PROVE  IsLoop(BestOfFirst(frames, d), Len(SWARM), frames, d)
<1>1. Len(SWARM) \in Nat
  BY RelayAssumption
<1>2. \E f : IsLoop(f, Len(SWARM), frames, d)
  BY <1>1, LoopExists
<1>3. QED
  BY <1>2, Zenon DEF BestOfFirst, IsLoop, Better

\* The craft that may relay for d.
Fit(frames, d) == {o \in Ids \ {d} : frames[o] \notin {NoFrame, "commDown"}}

\* b is what the loop should have found among the craft os.
Healthiest(frames, d, os, b) ==
    /\ b = NoCraft \/ b \in Fit(frames, d)
    /\ \A o \in os \cap Fit(frames, d) : HealthOf(frames[o]) <= Fitness(frames, b)

Frames == [Ids -> Conditions \cup {NoFrame}]

\* A craft that is fit is healthier than none at all, and one without a frame is not.
LEMMA HealthRange ==
  ASSUME NEW f \in Conditions \cup {NoFrame}
  PROVE  /\ HealthOf(f) \in Int
         /\ f \notin {NoFrame, "commDown"} => HealthOf(f) > -1
         /\ f = NoFrame => HealthOf(f) = -1
<1>1. CASE f = NoFrame
  BY <1>1, RelayAssumption DEF HealthOf
<1>2. CASE f \in {"nominal", "faulty", "serious", "commDown"} /\ f # NoFrame
  BY <1>2 DEF HealthOf
<1>3. QED
  BY <1>1, <1>2, RelayAssumption

\* One turn keeps the best so far the healthiest.
LEMMA BetterIsHealthiest ==
  ASSUME NEW frames \in Frames, NEW d \in Ids, NEW os \in SUBSET Ids, NEW b,
         NEW k \in 1..Len(SWARM), Healthiest(frames, d, os, b)
  PROVE  Healthiest(frames, d, os \cup {SWARM[k]}, Better(frames, d, k, b))
<1> DEFINE o == SWARM[k]
           c == Better(frames, d, k, b)
<1>1. o \in Ids /\ frames[o] \in Conditions \cup {NoFrame}
  BY DEF Ids, Frames
<1>2. NoCraft \notin Ids
  BY RelayAssumption DEF Ids
<1>3. Fitness(frames, b) \in Int /\ Fitness(frames, b) >= -1
  <2>1. CASE b = NoCraft
    BY <2>1 DEF Fitness
  <2>2. CASE b # NoCraft
    <3>1. b \in Ids /\ frames[b] \in Conditions \cup {NoFrame}
          /\ frames[b] \notin {NoFrame, "commDown"}
      BY <2>2 DEF Healthiest, Fit, Frames
    <3>2. HealthOf(frames[b]) \in Int /\ HealthOf(frames[b]) > -1
      BY <3>1, HealthRange
    <3>3. QED
      BY <2>2, <3>2 DEF Fitness
  <2>3. QED
    BY <2>1, <2>2
<1>4. HealthOf(frames[o]) \in Int
  BY <1>1, HealthRange
<1>5. CASE c = o /\ c # b
  <2>1. o # d /\ frames[o] # "commDown" /\ HealthOf(frames[o]) > Fitness(frames, b)
    BY <1>5 DEF Better, IsCommDown
  <2>2. frames[o] # NoFrame
    BY <1>1, <1>3, <1>4, <2>1, HealthRange
  <2>3. o \in Fit(frames, d)
    BY <1>1, <2>1, <2>2 DEF Fit
  <2>4. Fitness(frames, c) = HealthOf(frames[o])
    BY <1>1, <1>2, <1>5 DEF Fitness
  <2>5. ASSUME NEW p \in os \cap Fit(frames, d)
        PROVE  HealthOf(frames[p]) <= Fitness(frames, c)
    <3>1. HealthOf(frames[p]) <= Fitness(frames, b)
      BY DEF Healthiest
    <3>2. HealthOf(frames[p]) \in Int
      BY HealthRange DEF Fit, Frames
    <3>3. QED
      BY <1>3, <1>4, <2>1, <2>4, <3>1, <3>2
  <2>6. HealthOf(frames[o]) <= Fitness(frames, c)
    BY <1>4, <2>4
  <2> HIDE DEF c
  <2>7. Healthiest(frames, d, os \cup {o}, c)
    BY <1>5, <2>3, <2>5, <2>6 DEF Healthiest
  <2>8. QED
    BY <2>7 DEF c
<1>6. CASE c = b
  <2>1. ASSUME o \in Fit(frames, d)
        PROVE  HealthOf(frames[o]) <= Fitness(frames, b)
    <3>1. o # d /\ ~IsCommDown(frames[o])
      BY <2>1 DEF Fit, IsCommDown
    <3>2. CASE HealthOf(frames[o]) > Fitness(frames, b)
      <4>1. o = b
        BY <1>6, <3>1, <3>2 DEF Better
      <4>2. Fitness(frames, b) = HealthOf(frames[o])
        BY <1>1, <1>2, <4>1 DEF Fitness
      <4>3. QED
        BY <1>4, <4>2
    <3>3. QED
      BY <1>3, <1>4, <3>2
  <2> HIDE DEF c
  <2>2. Healthiest(frames, d, os \cup {o}, c)
    BY <1>6, <2>1 DEF Healthiest
  <2>3. QED
    BY <2>2 DEF c
<1>7. QED
  BY <1>5, <1>6 DEF Better

\* Among all craft, recompute finds a healthiest one that is fit, if there is any.
LEMMA BestIsHealthiest ==
  ASSUME NEW frames \in Frames, NEW d \in Ids
  PROVE  Healthiest(frames, d, Ids, Best(frames, d))
<1> DEFINE N == Len(SWARM)
           f == BestOfFirst(frames, d)
           First(k) == {SWARM[i] : i \in 1..k}
           S == {k \in 0..N : ~Healthiest(frames, d, First(k), f[k])}
<1>1. N \in Nat
  BY RelayAssumption
<1>2. IsLoop(f, N, frames, d)
  BY BestOfFirstIsLoop
<1> HIDE DEF f
<1>3. \A k \in 0..N : f[k] = IF k = 0 THEN NoCraft ELSE Better(frames, d, k, f[k - 1])
  BY <1>2 DEF IsLoop
<1>4. ASSUME S # {}
      PROVE  FALSE
  <2>1. PICK k \in S : \A m \in S : k <= m
    <3>1. S \in SUBSET Nat
      BY <1>1
    <3>2. QED
      BY <1>4, <3>1, LeastElement
  <2>2. CASE k = 0
    <3>1. First(0) = {}
      OBVIOUS
    <3>2. f[0] = NoCraft
      BY <1>1, <1>3
    <3>3. Healthiest(frames, d, First(0), f[0])
      BY <3>1, <3>2 DEF Healthiest
    <3>4. QED
      BY <2>2, <3>3
  <2>3. CASE k # 0
    <3>1. k - 1 \in 0..N /\ ~(k <= k - 1) /\ k \in 1..N
      BY <1>1, <2>3
    <3>2. Healthiest(frames, d, First(k - 1), f[k - 1])
      BY <2>1, <3>1
    <3>3. First(k) = First(k - 1) \cup {SWARM[k]}
      BY <1>1, <3>1
    <3>4. First(k - 1) \in SUBSET Ids
      BY <1>1, <3>1 DEF Ids
    <3>5. f[k] = Better(frames, d, k, f[k - 1])
      BY <1>3, <3>1, <2>3
    <3> HIDE DEF First
    <3>6. Healthiest(frames, d, First(k), f[k])
      BY <3>1, <3>2, <3>3, <3>4, <3>5, BetterIsHealthiest
    <3>7. QED
      BY <3>6
  <2>4. QED
    BY <2>2, <2>3
<1> HIDE DEF N, First
<1>5. Healthiest(frames, d, First(N), f[N])
  <2>1. N \in 0..N
    BY <1>1
  <2>2. QED
    BY <1>4, <2>1
<1>6. QED
  BY <1>5 DEF Ids, Best, f, N, First

-----------------------------------------------------------------------------
(* Types and links *)

\* What is published is what recompute finds in the latest frames.
LinksInv ==
    /\ lastFrame \in Frames
    /\ links = NextLinks(lastFrame)
    /\ bound \in [Craft -> SUBSET Proc]
    /\ conn \in [Craft -> Proc \cup {NoProc}]

\* What is not taken for a change is none.
LEMMA UnchangedIsEqual ==
  ASSUME NEW frames, NEW old, ~Changed(NextLinks(old), NextLinks(frames))
  PROVE  NextLinks(old) = NextLinks(frames)
<1> DEFINE a == NextLinks(old)
           b == NextLinks(frames)
<1>1. a = [d \in DOMAIN a |-> a[d]] /\ b = [d \in DOMAIN b |-> b[d]]
  BY DEF NextLinks
<1> HIDE DEF a, b
<1>2. DOMAIN a = DOMAIN b /\ \A d \in DOMAIN b : a[d] = b[d]
  BY DEF Changed, a, b
<1>3. a = b
  BY <1>1, <1>2
<1>4. QED
  BY <1>3 DEF a, b

\* Without a frame there is no link.
LEMMA InitLinks == Init => LinksInv
<1> SUFFICES ASSUME Init PROVE LinksInv
  OBVIOUS
<1>1. lastFrame \in Frames /\ \A c \in Ids : ~IsCommDown(lastFrame[c])
  BY RelayAssumption DEF Init, RelayInit, Frames, IsCommDown
<1>2. {x \in Ids : IsCommDown(lastFrame[x])} = {}
  BY <1>1
<1>3. NextLinks(lastFrame) = [d \in {} |-> d]
  BY <1>2, Zenon DEF NextLinks
<1>4. links = NextLinks(lastFrame)
  BY <1>3 DEF Init, RelayInit
<1>5. QED
  BY <1>1, <1>4 DEF Init, LinksInv

\* Only a frame moves the links, and they follow it.
LEMMA StepLinks == IInv /\ LinksInv /\ [Next]_vars => LinksInv'
<1> SUFFICES ASSUME IInv, LinksInv, [Next]_vars PROVE LinksInv'
  OBVIOUS
<1>1. CASE UNCHANGED vars
  BY <1>1 DEF vars, relay, feed, LinksInv
<1>2. ASSUME NEW c \in Craft, ProcessStep(c)
      PROVE  LinksInv'
  <2>1. UNCHANGED <<lastFrame, links, conn>>
    BY <1>2 DEF ProcessStep, Restart, Respawn, Ends, EndsItself, FreePort, relay, feed
  <2>2. bound' = bound \/ \E Q \in SUBSET bound[c] : bound' = [bound EXCEPT ![c] = Q]
    BY <1>2, Zenon DEF ProcessStep, Restart, Respawn, Ends, EndsItself, FreePort, feed
  <2>3. bound' \in [Craft -> SUBSET Proc]
    BY <2>2 DEF LinksInv
  <2>4. QED
    BY <2>1, <2>3 DEF LinksInv
<1>3. ASSUME NEW c \in Craft, NEW p \in Proc, Bind(c, p)
      PROVE  LinksInv'
  BY <1>3 DEF Bind, relay, LinksInv
<1>4. ASSUME NEW c \in Craft, Connect(c) \/ OnError(c)
      PROVE  LinksInv'
  BY <1>4 DEF Connect, OnError, relay, LinksInv
<1>5. ASSUME NEW c \in Craft, NEW f \in Conditions, OnMessage(c, f)
      PROVE  LinksInv'
  <2>1. /\ lastFrame' = [lastFrame EXCEPT ![c] = f]
        /\ links' = IF Changed(links, NextLinks(lastFrame')) THEN NextLinks(lastFrame') ELSE links
        /\ UNCHANGED feed
    BY <1>5 DEF OnMessage, OnFrame
  <2>2. lastFrame' \in Frames
    BY <2>1 DEF LinksInv, Frames
  <2>3. links' = NextLinks(lastFrame')
    BY <2>1, UnchangedIsEqual DEF LinksInv
  <2>4. QED
    BY <2>1, <2>2, <2>3 DEF LinksInv, feed
<1>6. QED
  BY <1>1, <1>2, <1>3, <1>4, <1>5 DEF Next, FeedStep

\* The links as recompute makes them.
LEMMA LinksOfFrames ==
  ASSUME LinksInv
  PROVE  /\ DOMAIN links = {d \in Ids : lastFrame[d] = "commDown" /\ Best(lastFrame, d) # NoCraft}
         /\ \A d \in DOMAIN links : links[d] = Best(lastFrame, d)
  BY DEF LinksInv, NextLinks, IsCommDown

\* A craft has a relay exactly when it is down and another is fit, and the relay is the
\* healthiest of those, for any number of craft.
THEOREM RelaysAreHealthiest == Spec => []HealthiestRelays
<1>1. LinksInv => HealthiestRelays
  <2> SUFFICES ASSUME LinksInv PROVE HealthiestRelays
    OBVIOUS
  <2> DEFINE fit(d) == {o \in Ids \ {d} : lastFrame[o] \notin {NoFrame, "commDown"}}
  <2>1. NoCraft \notin Ids
    BY RelayAssumption DEF Ids
  <2>2. ASSUME NEW d \in Ids
        PROVE  /\ Best(lastFrame, d) # NoCraft <=> fit(d) # {}
               /\ Best(lastFrame, d) # NoCraft =>
                    /\ Best(lastFrame, d) \in fit(d)
                    /\ \A o \in fit(d) :
                         HealthOf(lastFrame[o]) <= HealthOf(lastFrame[Best(lastFrame, d)])
    <3> DEFINE b == Best(lastFrame, d)
    <3>1. /\ b = NoCraft \/ b \in fit(d)
          /\ \A o \in fit(d) : HealthOf(lastFrame[o]) <= Fitness(lastFrame, b)
      BY BestIsHealthiest DEF LinksInv, Healthiest, Fit
    <3>2. \A o \in fit(d) : HealthOf(lastFrame[o]) \in Int /\ HealthOf(lastFrame[o]) > -1
      BY HealthRange DEF LinksInv, Frames
    <3> HIDE DEF b
    <3>3. CASE b = NoCraft
      <4>1. Fitness(lastFrame, b) = -1
        BY <3>3 DEF Fitness
      <4>2. fit(d) = {}
        BY <3>1, <3>2, <4>1
      <4>3. QED
        BY <3>3, <4>2 DEF b
    <3>4. CASE b # NoCraft
      <4>1. Fitness(lastFrame, b) = HealthOf(lastFrame[b])
        BY <3>4 DEF Fitness
      <4>2. QED
        BY <3>1, <3>4, <4>1 DEF b
    <3>5. QED
      BY <3>3, <3>4
  <2>3. DOMAIN links = {d \in Ids : lastFrame[d] = "commDown" /\ fit(d) # {}}
    BY <2>2, LinksOfFrames
  <2>4. ASSUME NEW d \in DOMAIN links
        PROVE  /\ links[d] \in fit(d)
               /\ \A o \in fit(d) : HealthOf(lastFrame[o]) <= HealthOf(lastFrame[links[d]])
    BY <2>2, LinksOfFrames
  <2>5. QED
    BY <2>3, <2>4 DEF HealthiestRelays
<1>2. QED
  BY <1>1, InitLinks, StepLinks, Invariance, PTL DEF Spec

\* Every variable of the ground station keeps to its type.
THEOREM TypeCorrect == Spec => []TypeOK
<1>1. IInv /\ LinksInv => TypeOK
  <2> SUFFICES ASSUME IInv, LinksInv PROVE TypeOK
    OBVIOUS
  <2>1. DOMAIN links \subseteq Ids
    BY LinksOfFrames
  <2>2. ASSUME NEW d \in DOMAIN links
        PROVE  links[d] \in Ids
    BY LinksOfFrames, BestIsHealthiest DEF LinksInv, Healthiest, Fit
  <2>3. QED
    BY <2>1, <2>2 DEF IInv, LinksInv, Frames, TypeOK
<1>2. QED
  BY <1>1, InitLinks, StepLinks, Invariance, PTL DEF Spec
=============================================================================
