------------------------------- MODULE Recovery -------------------------------
(***************************************************************************)
(* The autonomous recovery engine (web/backend/src/recovery.ts), which the   *)
(* ingest calls with every frame.  Times are kept as ages: how long ago the  *)
(* mask of a craft changed (or its faults were last cleared), and how long   *)
(* the craft has been in SAFE.  An age above the limit it is compared with   *)
(* says no more than the limit plus one.                                   *)
(***************************************************************************)
EXTENDS RestApi

CONSTANTS
    StaleAfter,  \* the 12 s after which a latched fault is stale
    SafeAfter,   \* the 30 s of SAFE after which a benchmark is asked for
    NotSafe,     \* lastSafeBeenAt = null
    Engine       \* nobody waits for the requests of the engine

ASSUME RecoveryAssumption ==
    /\ StaleAfter \in Nat
    /\ SafeAfter \in Nat
    /\ NotSafe \notin Nat

VARIABLES
    lastFaultMask,  \* of each craft, as the last frame showed it
    sinceChange,    \* receivedAt - lastFaultChangeAt
    sinceSafe       \* receivedAt - lastSafeBeenAt, or NotSafe

memory == <<lastFaultMask, sinceChange, sinceSafe>>

\* The bits of a mask, by the names of the commands.
FAULT_NAMES ==
    [temp |-> 1, radiation |-> 2, battery |-> 4, memory |-> 8,
     comm |-> 16, hang |-> 32, queue |-> 64, deadlock |-> 128]

\* Variant of Soft: the bits 0x60.
SoftShort == {"hang", "queue"}

\* The bits 0x70, which no sensor raises.
Soft == {"comm", "hang", "queue"}

\* mem: the first frame of a craft finds an empty mask and a change long ago.
RecoveryInit ==
    /\ lastFaultMask = [c \in Watched |-> {}]
    /\ sinceChange = [c \in Watched |-> StaleAfter + 1]
    /\ sinceSafe = [c \in Watched |-> NotSafe]

\* Variant of MaskAge: a change of the mask does not restart the clock.
MaskAgeKept(c, mask) == sinceChange[c]

\* The age of the mask once the frame has been compared with the last one.
MaskAge(c, mask) == IF mask = lastFaultMask[c] THEN sinceChange[c] ELSE 0

\* The soft faults of a mask that has been the same for too long.
StaleFaults(c, mask) == IF MaskAge(c, mask) > StaleAfter THEN mask \cap Soft ELSE {}

\* The one the engine clears first.
First(fs) == CHOOSE f \in fs : \A g \in fs : FAULT_NAMES[f] <= FAULT_NAMES[g]

SafeAge(c) == IF sinceSafe[c] = NotSafe THEN 0 ELSE sinceSafe[c]

\* The rest of recoveryLoop: a craft that stays in SAFE is asked for a benchmark.
SafeProbe(c, mode) == mode = "SAFE" /\ SafeAge(c) > SafeAfter

\* recoveryLoop.  Every clear is followed by a row of the timeline; when the
\* database refuses it, the exception ends the loop behind the first request,
\* with the age of the mask as it was.
RecoveryLoop(c, mask, mode, refused) ==
    LET stale  == StaleFaults(c, mask)
        thrown == refused /\ stale # {}
        hit    == IF thrown THEN {First(stale)} ELSE stale
        throttled == mask # {} /\ MaskAge(c, mask) > StaleAfter /\ ~thrown
    IN  /\ lastFaultMask' = [lastFaultMask EXCEPT ![c] = mask]
        /\ sinceChange' = [sinceChange EXCEPT ![c] = IF throttled THEN 0 ELSE MaskAge(c, mask)]
        /\ sinceSafe' = IF thrown THEN sinceSafe
                        ELSE [sinceSafe EXCEPT ![c] =
                                 IF mode # "SAFE" THEN NotSafe
                                 ELSE IF SafeProbe(c, mode) THEN 0 ELSE SafeAge(c)]
        /\ requests' = requests
               \cup {ClearFault(Engine, c, f) : f \in hit}
               \cup (IF SafeProbe(c, mode) /\ ~thrown THEN {RunBench(Engine, c)} ELSE {})

Older(age, limit) == IF age > limit THEN age ELSE age + 1

\* One unit of time.
Age ==
    /\ sinceChange' = [c \in Watched |-> Older(sinceChange[c], StaleAfter)]
    /\ sinceSafe' = [c \in Watched |->
                        IF sinceSafe[c] = NotSafe THEN NotSafe ELSE Older(sinceSafe[c], SafeAfter)]
    /\ UNCHANGED lastFaultMask
=============================================================================
