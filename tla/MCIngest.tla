------------------------------- MODULE MCIngest -------------------------------
(***************************************************************************)
(* Instances of Ingest for TLC.                                            *)
(***************************************************************************)
EXTENDS Ingest

TwoMetrics == <<"cpu", "battery">>

Frame(mode, faults, cpu, battery, heap, tasks) ==
    [mode |-> mode, faults |-> faults, cpu |-> cpu, battery |-> battery, heap |-> heap,
     tasks |-> tasks]

\* A craft at rest, one that works, and one in trouble.
SomeFrames ==
    {Frame("NORMAL", {}, 1, 5, 3, 2),
     Frame("NORMAL", {}, 2, 5, 3, 2),
     Frame("EMERGENCY", {"LOW_BATTERY"}, 4, 1, 3, 3)}

\* correlation.ts:72: what is said of the battery is seen in the samples.
Series(n) == [1..n -> [cpu : 0..2, battery : 0..2, heap : {1}, tasks : {1}]]

ASSUME InsightIsSeen ==
    \A n \in 2..4 : \A s \in Series(n) :
        Insight(s) = "drainsBattery" => MovesAgainst(s, "cpu", "battery")
=============================================================================
