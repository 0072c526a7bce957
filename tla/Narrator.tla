------------------------------- MODULE Narrator -------------------------------
(***************************************************************************)
(* The narrator of web/backend/src/narrate.ts: which lines it prints for the *)
(* frames, logs and anomalies on the bus.  A line is its tag, its craft and  *)
(* what it is about.                                                       *)
(***************************************************************************)
EXTENDS Anomaly

CONSTANTS
    OnlineFor,   \* the 20 s after the first frame without alerts
    QuietFor,    \* the 15 s between two alerts about one metric
    Never        \* onlineAt = 0, and no lastAnomalyAt

VARIABLES
    onlineAt,       \* onlineAt[c]
    lastMode,
    lastFaults,
    lastAnomalyAt,  \* lastAnomalyAt[c][metric], Never without one
    lines           \* what the last message made it print

narrator == <<onlineAt, lastMode, lastFaults, lastAnomalyAt, lines>>

NarratorInit ==
    /\ onlineAt = [c \in Craft |-> Never]
    /\ lastMode = [c \in Craft |-> "none"]
    /\ lastFaults = [c \in Craft |-> {}]
    /\ lastAnomalyAt = [c \in Craft |-> [m \in Metric |-> Never]]
    /\ lines = {}

Line(tag, c, about) == [tag |-> tag, craft |-> c, about |-> about]

ModeTag(mode) ==
    CASE mode = "NORMAL" -> "OK" [] mode = "RECOVERY" -> "RECOVERY" [] mode = "SAFE" -> "SAFE"
      [] OTHER -> "WARNING"

\* What a frame makes it say: the first one that the craft is online, the others what
\* has changed.
FrameLines(c, f) ==
    IF onlineAt[c] = Never THEN {Line("ONLINE", c, "online")}
    ELSE {Line(ModeTag(f.mode), c, x) : x \in {f.mode} \ {lastMode[c]}}
         \cup {Line("FAULT", c, x) : x \in f.faults \ lastFaults[c]}
         \cup {Line("OK", c, x) : x \in lastFaults[c] \ f.faults}

\* The metrics it alerts about, of the anomalies a frame brought.
Alerts(c, found, now) ==
    {a.metric : a \in {x \in ToSet(found) :
        /\ x.severity = "high"
        /\ onlineAt[c] # Never /\ now - onlineAt[c] >= OnlineFor
        /\ \/ lastAnomalyAt[c][x.metric] = Never
           \/ now - lastAnomalyAt[c][x.metric] >= QuietFor}}

\* A frame and the anomalies found in it.
NarrateFrame(c, f, found, now) ==
    /\ lines' = FrameLines(c, f) \cup {Line("ALERT", c, m) : m \in Alerts(c, found, now)}
    /\ onlineAt' = [onlineAt EXCEPT ![c] = IF @ = Never THEN now ELSE @]
    /\ lastMode' = [lastMode EXCEPT ![c] = f.mode]
    /\ lastFaults' = [lastFaults EXCEPT ![c] = f.faults]
    /\ lastAnomalyAt' = [lastAnomalyAt EXCEPT ![c] = [m \in DOMAIN @ |->
           IF m \in Alerts(c, found, now) THEN now ELSE @[m]]]

\* A log line; a recovery is that of a task whose name starts with Emerg.
LogTag(type) ==
    CASE type = "RestartTask" -> {"RESTART"} [] type = "EmergStart" -> {"RECOVERY"}
      [] type = "EmergComplete" -> {"OK"} [] type = "MaxRestarts" -> {"SAFE"} [] OTHER -> {}

NarrateLog(c, type) ==
    /\ lines' = {Line(tag, c, type) : tag \in LogTag(type)}
    /\ UNCHANGED <<onlineAt, lastMode, lastFaults, lastAnomalyAt>>
=============================================================================
