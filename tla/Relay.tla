-------------------------------- MODULE Relay --------------------------------
(***************************************************************************)
(* The constellation relay (web/backend/src/relay.ts): which craft relays   *)
(* for a craft whose latest frame shows COMM_TIMEOUT.  A frame is the        *)
(* condition it shows: "nominal", "faulty" (some fault), "serious" (a fault  *)
(* and EMERGENCY or SAFE mode) or "commDown".                               *)
(***************************************************************************)
EXTENDS Integers, Sequences

CONSTANTS
    SWARM,       \* the craft, in the order of config.ts
    Conditions,  \* the conditions frames show
    NoFrame,     \* the entry of a craft that has sent no frame yet
    NoCraft      \* no relay found

ASSUME RelayAssumption ==
    /\ SWARM \in Seq(STRING)
    /\ \A i, j \in 1..Len(SWARM) : SWARM[i] = SWARM[j] => i = j
    /\ Conditions \subseteq {"nominal", "faulty", "serious", "commDown"}
    /\ NoFrame \notin {"nominal", "faulty", "serious", "commDown"}
    /\ NoCraft \notin {SWARM[i] : i \in 1..Len(SWARM)}

Ids == {SWARM[i] : i \in 1..Len(SWARM)}

VARIABLES
    lastFrame,  \* the map of the same name
    links       \* links[d]: the craft that relays for d

relay == <<lastFrame, links>>

RelayInit ==
    /\ lastFrame = [c \in Ids |-> NoFrame]
    /\ links = [c \in {} |-> c]

HealthOf(f) ==
    CASE f = "nominal"  -> 100
      [] f = "faulty"   -> 80
      [] f = "serious"  -> 50
      [] f = "commDown" -> -20
      [] f = NoFrame    -> -1

IsCommDown(f) == f = "commDown"

Fitness(frames, o) == IF o = NoCraft THEN -1 ELSE HealthOf(frames[o])

\* The inner loop of recompute: the best of the first k craft, where a craft takes the
\* place of an earlier one only when it is strictly healthier.
BestOfFirst(frames, d) ==
    LET best[k \in 0..Len(SWARM)] ==
            IF k = 0 THEN NoCraft
            ELSE IF /\ SWARM[k] # d
                    /\ ~IsCommDown(frames[SWARM[k]])
                    /\ HealthOf(frames[SWARM[k]]) > Fitness(frames, best[k - 1])
                 THEN SWARM[k]
                 ELSE best[k - 1]
    IN  best

Best(frames, d) == BestOfFirst(frames, d)[Len(SWARM)]

\* The list `next' of recompute.
NextLinks(frames) ==
    LET best == [d \in {x \in Ids : IsCommDown(frames[x])} |-> Best(frames, d)]
    IN  [d \in {x \in DOMAIN best : best[x] # NoCraft} |-> best[d]]

\* Variant of Changed: only the craft that are down are compared.
ChangedDownOnly(old, next) == DOMAIN old # DOMAIN next

\* The test for a change: the lists differ in length, in a down craft or in a relay.
Changed(old, next) ==
    \/ DOMAIN old # DOMAIN next
    \/ \E d \in DOMAIN next : old[d] # next[d]

\* The listener of startRelay: keep the frame, then recompute.  A craft that drops
\* out of the links is announced as "re-acquired its own ground link".
OnFrame(c, f) ==
    LET frames == [lastFrame EXCEPT ![c] = f]
        next   == NextLinks(frames)
    IN  /\ lastFrame' = frames
        /\ links' = IF Changed(links, next) THEN next ELSE links
=============================================================================
