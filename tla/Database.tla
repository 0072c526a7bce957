------------------------------- MODULE Database -------------------------------
(***************************************************************************)
(* The tables of web/backend/src/db.ts, the queries on them and the report   *)
(* made of these.  A row keeps what a query or a property looks at.        *)
(***************************************************************************)
EXTENDS Integers, Sequences, SequencesExt

CONSTANTS
    ReportAnomalies,  \* the limits of buildReport: 25 anomalies,
    ReportEvents,     \* 50 events
    ReportBench       \* and 30 benchmarks

ASSUME DatabaseAssumption ==
    ReportAnomalies \in Nat /\ ReportEvents \in Nat \ {0} /\ ReportBench \in Nat \ {0}

VARIABLES
    timeline,   \* rows [craft, kind, receivedAt]
    anomalies,  \* rows [craft, metric, severity, observedAt]
    frames,     \* rows [craft, receivedAt]
    bench       \* rows [craft, ts], ts in ticks of the craft

tables == <<timeline, anomalies, frames, bench>>

\* The tables are what earlier runs of the program left; the model starts with none.
DatabaseInit ==
    /\ timeline = <<>>
    /\ anomalies = <<>>
    /\ frames = <<>>
    /\ bench = <<>>

TimelineRow(c, kind, t) == [craft |-> c, kind |-> kind, receivedAt |-> t]

AnomalyRow(a, t) ==
    [craft |-> a.craft, metric |-> a.metric, severity |-> a.severity, observedAt |-> t]

FrameRow(c, t) == [craft |-> c, receivedAt |-> t]

BenchRow(c, ticks) == [craft |-> c, ts |-> ticks]

\* WHERE craft = ?: the rows of a craft, by their places in the table.
Of(table, c) == {i \in DOMAIN table : table[i].craft = c}

\* Variant of UpTo: ORDER BY without DESC.
UpToAscending(table, c, key, i) ==
    {j \in Of(table, c) : \/ table[j][key] < table[i][key]
                          \/ table[j][key] = table[i][key] /\ j <= i}

\* The rows of a craft that ORDER BY key DESC does not put behind row i.  SQL leaves open
\* in which order rows of the same key come; here the last one comes first, and no
\* property asks which of them it is.
UpTo(table, c, key, i) ==
    {j \in Of(table, c) : \/ table[j][key] > table[i][key]
                          \/ table[j][key] = table[i][key] /\ j >= i}

\* ORDER BY key DESC LIMIT limit.
Newest(table, c, key, limit) ==
    LET rows == Cardinality(Of(table, c))
    IN  [n \in 1..(IF rows < limit THEN rows ELSE limit) |->
            table[CHOOSE i \in Of(table, c) : Cardinality(UpTo(table, c, key, i)) = n]]

QueryTimeline(c, limit) == Newest(timeline, c, "receivedAt", limit)
QueryAnomalies(c, limit) == Newest(anomalies, c, "observedAt", limit)
QueryBenchmarkSeries(c, limit) == Newest(bench, c, "ts", limit)

\* The section of buildReport about a craft.
Report(c) ==
    [anomalies |-> QueryAnomalies(c, ReportAnomalies),
     events    |-> QueryTimeline(c, ReportEvents),
     bench     |-> QueryBenchmarkSeries(c, ReportBench)]
=============================================================================
