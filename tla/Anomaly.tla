------------------------------- MODULE Anomaly -------------------------------
(***************************************************************************)
(* The anomaly detector of the orchestrator (web/backend/src/anomaly.ts).    *)
(* Samples are whole tenths, so that every comparison is exact: a z-score is *)
(* compared by its square.  The EWMA is only shown, never compared, and is   *)
(* left out.                                                               *)
(***************************************************************************)
EXTENDS Integers, Sequences, SequencesExt

CONSTANTS
    Craft,
    METRICS,     \* the metrics the model follows, in the order of the code
    WindowSize,  \* ANOMALY.windowSize
    Warmup,      \* the 12 samples before which nothing is judged
    ZHigh,       \* 100 * zHigh ^ 2
    ZMedium,     \* 100 * zMedium ^ 2
    Horizon      \* ANOMALY.predictHorizonFrames

\* What the code's 60, 12 and 3.0 satisfy: one outlier after Warmup equal samples can
\* have a z-score of zHigh.
ASSUME AnomalyAssumption ==
    /\ METRICS \in Seq(STRING)
    /\ \A i, j \in DOMAIN METRICS : METRICS[i] = METRICS[j] => i = j
    /\ Warmup \in 1..WindowSize - 1
    /\ WindowSize \in Nat
    /\ ZMedium \in Nat /\ ZHigh \in Nat /\ ZMedium <= ZHigh
    /\ ZHigh * (Warmup + 1) <= 100 * Warmup * Warmup
    /\ Horizon \in 1..WindowSize

VARIABLE window  \* window[c][m]: the last samples of a metric of a craft

Metric == ToSet(METRICS)

AnomalyInit == window = [c \in Craft |-> [m \in Metric |-> <<>>]]

Total(w) ==
    LET upTo[i \in 0..Len(w)] == IF i = 0 THEN 0 ELSE upTo[i - 1] + w[i]
    IN  upTo[Len(w)]

Squares(w) == Total([i \in DOMAIN w |-> w[i] * w[i]])

\* n ^ 2 times the variance of n samples.
Spread(w) == Len(w) * Squares(w) - Total(w) * Total(w)

\* The last samples, at most size of them.
LastOf(w, size) == IF Len(w) > size THEN SubSeq(w, Len(w) - size + 1, Len(w)) ELSE w

\* Variant of Pushed: the window is never shifted.
PushedOnly(w, v) == Append(w, v)

\* pushSample
Pushed(w, v) == LastOf(Append(w, v), WindowSize)

\* severityFor, of the sample v at the end of the window w.  A flat window has z = 0.
SeverityFor(w, v) ==
    LET n == Len(w)
        d == n * v - Total(w)
        Reaches(z) == Spread(w) # 0 /\ 100 * d * d * (n - 1) >= z * n * Spread(w)
    IN  IF Reaches(ZHigh) THEN "high" ELSE IF Reaches(ZMedium) THEN "medium" ELSE "low"

\* predictedTrend: over the horizon the signal has moved, by what gives a change of at
\* least one unit (ten tenths) when it goes on for five horizons.
PredictedTrend(w) ==
    LET recent == LastOf(w, Horizon)
        moved  == recent[Len(recent)] - recent[1]
        far    == moved >= 2 \/ moved <= -2
    IN  IF Len(w) < Horizon \/ ~far THEN "none" ELSE IF moved > 0 THEN "rising" ELSE "falling"

\* Variant of Judged: the warm-up counts the sample itself.
JudgedLater(c, m, v) ==
    LET w == Pushed(window[c][m], v)
    IN  IF Len(window[c][m]) <= Warmup THEN "low" ELSE SeverityFor(w, v)

\* What analyzeFrame makes of one sample.
Judged(c, m, v) ==
    LET w == Pushed(window[c][m], v)
    IN  IF Len(window[c][m]) < Warmup THEN "low" ELSE SeverityFor(w, v)

\* The anomalies of a frame, in the order in which they are recorded.
FoundUpTo(c, f) ==
    LET out[i \in 0..Len(METRICS)] ==
            IF i = 0 THEN <<>>
            ELSE LET m == METRICS[i]
                 IN  IF Judged(c, m, f[m]) = "low" THEN out[i - 1]
                     ELSE Append(out[i - 1],
                              [craft |-> c, metric |-> m, severity |-> Judged(c, m, f[m]),
                               predicted |-> PredictedTrend(Pushed(window[c][m], f[m]))])
    IN  out

Found(c, f) == FoundUpTo(c, f)[Len(METRICS)]

\* The windows after analyzeFrame: of all metrics, or of those up to the one whose
\* rows were refused.
Sampled(c, f, last) ==
    window' = [window EXCEPT ![c] = [m \in Metric |->
        IF \E i \in 1..last : METRICS[i] = m THEN Pushed(@[m], f[m]) ELSE @[m]]]
=============================================================================
