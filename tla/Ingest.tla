-------------------------------- MODULE Ingest --------------------------------
(***************************************************************************)
(* What the orchestrator does with the messages of a feed                    *)
(* (web/backend/src/ingest.ts): the handler passes a frame to the bus, to    *)
(* the database, to the correlation and to the anomaly detector, and a log   *)
(* line to the bus and to the database.  A row that the database refuses     *)
(* throws, and the handler ends there.  How a feed gets its connection is in *)
(* GroundStation, what the recovery engine does last is in MissionLoop.    *)
(***************************************************************************)
EXTENDS Correlation, Database, Narrator

CONSTANTS
    Frames,       \* the frames craft send, see RtosFrame of types.ts
    LogTypes,     \* the types of the log lines they send
    Unparsable,   \* a line of another form, on which LOG_RX does not match
    MaxMessages,  \* bound: messages that arrive
    MaxTime,      \* bound: units of time that pass
    MaxRefusals,  \* bound: handlers the database stops
    MaxRestarts   \* bound: processes that are started again

\* A frame has a number for every metric.
ASSUME IngestAssumption ==
    /\ \A f \in Frames : \A m \in Metric : f[m] \in Int
    /\ MaxRefusals \in Nat

VARIABLES
    clock,     \* Date.now()
    ticks,     \* ticks[c]: frames since the process of a craft was started
    restarts,  \* restarts[c]
    acked,     \* frameCount of recordFrameAck
    received,  \* messages so far
    refusals,  \* handlers stopped so far
    bus        \* the anomalies the last message has put on the bus

feed == <<clock, ticks, restarts, acked, received, refusals, bus>>
vars == <<window, wins, tables, narrator, feed>>

Init ==
    /\ AnomalyInit
    /\ CorrelationInit
    /\ DatabaseInit
    /\ NarratorInit
    /\ clock = 0
    /\ ticks = [c \in Craft |-> 0]
    /\ restarts = [c \in Craft |-> 0]
    /\ acked = [c \in Craft |-> 0]
    /\ received = 0
    /\ refusals = 0
    /\ bus = <<>>

\* The database takes the first `taken` of the rows a handler has for it; when it does
\* not take all of them the handler has been stopped.
Takes(taken, rows) ==
    /\ taken \in 0..rows
    /\ refusals' = IF taken = rows THEN refusals ELSE refusals + 1
    /\ refusals' <= MaxRefusals

\* The rows of the anomalies of a frame: each one has a row of its own and, after it,
\* one of the timeline.
RecordAnomalies(c, found, taken) ==
    /\ anomalies' = anomalies \o
           [i \in 1..((taken + 1) \div 2) |-> AnomalyRow(found[i], clock)]
    /\ timeline' = timeline \o [i \in 1..(taken \div 2) |-> TimelineRow(c, "anomaly", clock)]

\* Variant of OnBus: an anomaly goes out as soon as it is found.
OnBusAtOnce(found, taken) == found

\* The anomalies go out when all of them are recorded.
OnBus(found, taken) == IF taken = 2 * Len(found) THEN found ELSE <<>>

\* The index of the last metric whose sample was taken.
LastMetric(found, taken) ==
    IF taken = 2 * Len(found) THEN Len(METRICS)
    ELSE CHOOSE i \in DOMAIN METRICS : METRICS[i] = found[(taken \div 2) + 1].metric

\* A frame arrives.  The head of its rows is the one of the benchmark, behind the one of
\* the frame if recordFrame keeps it; everything but the bus comes after the head.  The
\* database takes the head and `later` more rows, or, if later < 0, a part of it.
FrameArrives(c, f) ==
    LET found == Found(c, f)
        head  == IF clock % 5 = 0 THEN 2 ELSE 1
    IN  /\ received < MaxMessages
        /\ received' = received + 1
        /\ ticks' = [ticks EXCEPT ![c] = @ + 1]
        /\ \E later \in -head..2 * Len(found) :
              LET out == IF later < 0 THEN <<>> ELSE OnBus(found, later)
              IN  /\ Takes(head + later, head + 2 * Len(found))
                  /\ NarrateFrame(c, f, out, clock)
                  /\ bus' = out
                  /\ frames' = IF head = 2 /\ later > -2
                               THEN Append(frames, FrameRow(c, clock)) ELSE frames
                  /\ acked' = IF later >= -1 THEN [acked EXCEPT ![c] = @ + 1] ELSE acked
                  /\ IF later < 0 THEN UNCHANGED <<bench, wins, window, anomalies, timeline>>
                     ELSE /\ bench' = Append(bench, BenchRow(c, ticks'[c]))
                          /\ Observe(c, f)
                          /\ Sampled(c, f, LastMetric(found, later))
                          /\ RecordAnomalies(c, found, later)
        /\ UNCHANGED <<clock, restarts>>

\* A log line arrives; a change of mode has a second row.
LogRows(c, type) ==
    <<TimelineRow(c, "log", clock)>>
        \o (IF type = "StateChange" THEN <<TimelineRow(c, "mode", clock)>> ELSE <<>>)

LogArrives(c, type) ==
    /\ received < MaxMessages
    /\ received' = received + 1
    /\ bus' = <<>>
    /\ IF type = Unparsable
       THEN /\ lines' = {}
            /\ UNCHANGED <<onlineAt, lastMode, lastFaults, lastAnomalyAt, timeline, refusals>>
       ELSE /\ NarrateLog(c, type)
            /\ \E taken \in 0..2 :
                  /\ Takes(taken, Len(LogRows(c, type)))
                  /\ timeline' = timeline \o SubSeq(LogRows(c, type), 1, taken)
    /\ UNCHANGED <<window, wins, anomalies, frames, bench, clock, ticks, restarts, acked>>

Tick ==
    /\ clock < MaxTime
    /\ clock' = clock + 1
    /\ bus' = <<>>
    /\ lines' = {}
    /\ UNCHANGED <<window, wins, tables, onlineAt, lastMode, lastFaults, lastAnomalyAt, ticks,
                   restarts, acked, received, refusals>>

\* The process of a craft is started again: its ticks begin at 0, while the feed, the
\* windows and the tables go on.
CraftRestarts(c) ==
    /\ restarts[c] < MaxRestarts
    /\ ticks[c] > 0
    /\ restarts' = [restarts EXCEPT ![c] = @ + 1]
    /\ ticks' = [ticks EXCEPT ![c] = 0]
    /\ UNCHANGED <<window, wins, tables, narrator, clock, acked, received, refusals, bus>>

Next ==
    \/ \E c \in Craft, f \in Frames : FrameArrives(c, f)
    \/ \E c \in Craft, type \in LogTypes \cup {Unparsable} : LogArrives(c, type)
    \/ Tick
    \/ \E c \in Craft : CraftRestarts(c)

Spec == Init /\ [][Next]_vars

-----------------------------------------------------------------------------
(* Properties *)

\* The rows of a craft in the timeline that are of one kind.
OfKind(c, kind) == {i \in Of(timeline, c) : timeline[i].kind = kind}

\* Types, and the windows in step: those of the metrics of a craft hold samples of the
\* same frames, and those of the correlation too, but for the frames whose rows were
\* refused half-way.
TypeOK ==
    /\ \A c \in Craft : \A m \in Metric : window[c][m] \in Seq(Int) /\ Len(window[c][m]) <= WindowSize
    /\ \A c \in Craft : Len(wins[c]) <= WINDOW
    /\ \A c \in Craft : \A i \in 1..Len(METRICS) - 1 :
           Len(window[c][METRICS[i]]) - Len(window[c][METRICS[i + 1]]) \in 0..refusals
    /\ lastAnomalyAt \in [Craft -> [Metric -> 0..clock \cup {Never}]]
    /\ onlineAt \in [Craft -> 0..clock \cup {Never}]
    /\ \A c \in Craft : Cardinality(Of(bench, c)) \in acked[c] - refusals..acked[c]

Flat(w) == \A i \in DOMAIN w : w[i] = w[1]

\* anomaly.ts:85: 12 samples are enough of a warm-up for a limit of 3.0: when a signal
\* that has never moved moves, by however little, a HIGH anomaly is on the bus, unless
\* the database has stopped the handler.
FirstMoveIsHigh ==
    [][\A c \in Craft, m \in Metric :
           LET w == window[c][m]
               v == window'[c][m][Len(window'[c][m])]
           IN  /\ received' # received /\ ticks'[c] # ticks[c] /\ refusals' = refusals
               /\ Len(w) >= Warmup /\ Flat(w) /\ v # w[1]
               => \E i \in DOMAIN bus' : bus'[i].metric = m /\ bus'[i].severity = "high"]_vars

\* The two tables that tell of anomalies never differ by more than the refusals, and
\* nothing is told to the dashboard or printed as an alert that is not on record.
OnRecord ==
    /\ \A c \in Craft : Cardinality(Of(anomalies, c)) - Cardinality(OfKind(c, "anomaly")) \in 0..refusals
    /\ \A i \in DOMAIN bus : AnomalyRow(bus[i], clock) \in ToSet(anomalies)
    /\ \A l \in lines : l.tag = "ALERT" =>
           \E i \in DOMAIN bus : bus[i].craft = l.craft /\ bus[i].metric = l.about

\* The report of a craft begins with its last event, and leaves out no anomaly that is
\* newer and no benchmark with a higher tick than one it shows.  The ticks begin again
\* with every process (db.ts:98 orders by them): only while all rows are of one process,
\* the tables having been empty before it, is the benchmark it begins with the last one.
ReportIsFresh ==
    \A c \in Craft :
        LET r == Report(c)
            events == Of(timeline, c)
            runs == Of(bench, c)
        IN  /\ events # {} => r.events[1].receivedAt = timeline[Max(events)].receivedAt
            /\ \A i \in Of(anomalies, c) : anomalies[i] \notin ToSet(r.anomalies) =>
                  \A shown \in ToSet(r.anomalies) : shown.observedAt >= anomalies[i].observedAt
            /\ \A i \in runs : bench[i] \notin ToSet(r.bench) =>
                  \A shown \in ToSet(r.bench) : shown.ts >= bench[i].ts
            /\ runs # {} /\ restarts[c] = 0 => r.bench[1] = bench[Max(runs)]
=============================================================================
