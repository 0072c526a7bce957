--------------------------------- MODULE Views ---------------------------------
(***************************************************************************)
(* What the pages show of a frame (web/frontend/src/components and pages).   *)
(* Colours are told apart by what they say: "ok", "info", "warn", "crit",    *)
(* "orange" (SAFE where it has a colour of its own) and "dim" (no frame).    *)
(***************************************************************************)
EXTENDS Integers, FiniteSets, FiniteSetsExt

\* frames[c]?.mode and frames[c]?.faults
ModeOf(f, none) == IF f = none THEN "" ELSE f.mode
FaultsOf(f, none) == IF f = none THEN {} ELSE f.faults

\* modeWords: the label of a mode and its tone, on the cards, badges and read-outs.
ModeWords(mode) ==
    CASE mode = "NORMAL"    -> [label |-> "Healthy", tone |-> "ok"]
      [] mode = "WARNING"   -> [label |-> "Warning", tone |-> "warn"]
      [] mode = "DEGRADED"  -> [label |-> "Degraded", tone |-> "warn"]
      [] mode = "EMERGENCY" -> [label |-> "Emergency", tone |-> "crit"]
      [] mode = "SAFE"      -> [label |-> "Safe Mode", tone |-> "crit"]
      [] mode = "RECOVERY"  -> [label |-> "Recovering", tone |-> "info"]
      [] OTHER              -> [label |-> "Offline", tone |-> "info"]

\* ledColor: the lights of the header.
LedColor(mode) ==
    CASE mode = "NORMAL"                  -> "ok"
      [] mode \in {"WARNING", "DEGRADED"} -> "warn"
      [] mode = "EMERGENCY"               -> "crit"
      [] mode = "SAFE"                    -> "orange"
      [] mode = "RECOVERY"                -> "info"
      [] OTHER                            -> "dim"

\* modeColor of the map: a craft, its label and its halo.
MapColor(mode) ==
    CASE mode = "NORMAL"                  -> "ok"
      [] mode \in {"WARNING", "DEGRADED"} -> "warn"
      [] mode = "EMERGENCY"               -> "crit"
      [] mode = "SAFE"                    -> "orange"
      [] mode = "RECOVERY"                -> "info"
      [] OTHER                            -> "dim"

\* The tabs of the monitor: a degraded craft looks like a healthy one.
MonitorTab(mode) ==
    CASE mode \in {"EMERGENCY", "SAFE"} -> "crit"
      [] mode = "WARNING"               -> "warn"
      [] mode = "RECOVERY"              -> "info"
      [] OTHER                          -> "ok"

\* The tabs of the flight recorder: here a recovering one does.
RecorderTab(mode) ==
    CASE mode \in {"EMERGENCY", "SAFE"}    -> "crit"
      [] mode \in {"WARNING", "DEGRADED"}  -> "warn"
      [] OTHER                             -> "ok"

\* AlertRibbon: the craft it lists, and the colour of the strip.
Alerts(swarm, frames, none) ==
    {c \in swarm : frames[c] # none /\ frames[c].mode \in {"EMERGENCY", "SAFE"}}

Ribbon(swarm, frames, none) ==
    CASE Alerts(swarm, frames, none) = {} -> "none"
      [] \E c \in Alerts(swarm, frames, none) : frames[c].mode = "SAFE" -> "orange"
      [] OTHER -> "crit"

\* The halo of a craft nobody has selected.
Halo(f, none) == f # none /\ f.mode \in {"EMERGENCY", "SAFE"}

\* The number on a craft of the map, and the faults on its card and read-outs.
FaultBadge(f, none) == Cardinality(FaultsOf(f, none))

\* Math.round(sum / n)
Rounded(sum, n) == (2 * sum + n) \div (2 * n)

\* The figures at the top of the fleet page.  A craft counts as online from its first
\* frame on, for ever, although USER_GUIDE says of the figure "are sending data" (line
\* 143), "are sending telemetry" (257) and "are alive" (284): a craft whose process has
\* ended stays counted.
FleetKpis(swarm, frames, health, none) ==
    [online      |-> Cardinality({c \in swarm : frames[c] # none}),
     totalFaults |-> MapThenSumSet(LAMBDA c : FaultBadge(frames[c], none), swarm),
     inEmergency |-> Cardinality({c \in swarm : ModeOf(frames[c], none) \in {"EMERGENCY", "SAFE"}}),
     avgHealth   |-> IF swarm = {} THEN 0
                     ELSE Rounded(MapThenSumSet(LAMBDA c : health[c], swarm), Cardinality(swarm))]
=============================================================================
