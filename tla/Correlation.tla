----------------------------- MODULE Correlation -----------------------------
(***************************************************************************)
(* The correlation analysis (web/backend/src/correlation.ts).  The four      *)
(* windows of a craft grow and shrink together and are kept as one sequence  *)
(* of samples.  A coefficient is never computed: its sign and whether its    *)
(* square reaches 0.36 are questions about whole numbers.                  *)
(***************************************************************************)
EXTENDS Anomaly

CONSTANTS
    WINDOW,     \* samples kept
    MinSamples  \* the 8 samples below which r is 0

ASSUME CorrelationAssumption == WINDOW \in Nat \ {0}

VARIABLE wins  \* wins[c]: the last samples of a craft

CorrelationInit == wins = [c \in Craft |-> <<>>]

Observe(c, f) ==
    wins' = [wins EXCEPT ![c] = LastOf(
        Append(@, [cpu |-> f.cpu, heap |-> f.heap, battery |-> f.battery, tasks |-> f.tasks]),
        WINDOW)]

Column(s, x) == [i \in DOMAIN s |-> s[i][x]]

\* n ^ 2 times the covariance of two columns.
Joint(s, x, y) ==
    Len(s) * Total([i \in DOMAIN s |-> s[i][x] * s[i][y]])
        - Total(Column(s, x)) * Total(Column(s, y))

\* |pearson| >= 0.6; pearson is 0 for few samples and for a flat column.
Strong(s, x, y) ==
    LET da == Spread(Column(s, x))
        db == Spread(Column(s, y))
    IN  /\ Len(s) >= MinSamples
        /\ da # 0 /\ db # 0
        /\ 25 * Joint(s, x, y) * Joint(s, x, y) >= 9 * da * db

\* describe
Insight(s) ==
    IF Strong(s, "cpu", "battery") /\ Joint(s, "cpu", "battery") < 0 THEN "drainsBattery"
    ELSE IF Strong(s, "cpu", "heap") /\ Joint(s, "cpu", "heap") < 0 THEN "usesMemory"
    ELSE IF Strong(s, "cpu", "tasks") THEN "tracksTasks"
    ELSE IF Strong(s, "heap", "battery") THEN "moveTogether"
    ELSE "independent"

CorrelationFor(c) == [craft |-> c, samples |-> Len(wins[c]), insight |-> Insight(wins[c])]

\* The same question asked of pairs of samples: the columns move against each other.
MovesAgainst(s, x, y) ==
    \E i, j \in DOMAIN s : s[i][x] < s[j][x] /\ s[i][y] > s[j][y]
=============================================================================
