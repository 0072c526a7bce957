----------------------------- MODULE IngestProofs -----------------------------
(***************************************************************************)
(* Proofs about the orchestrator's handler of a feed, for any craft, any       *)
(* metrics, any windows and any limits that the code's satisfy: the windows    *)
(* and tables are what the code takes them for (TypeCorrect), what is told is  *)
(* on record (ToldIsOnRecord), a report shows the newest rows                  *)
(* (ReportsAreFresh), and the first move of a signal is caught                 *)
(* (FirstMoveCaught).  The sums and the loop of analyzeFrame are recursive     *)
(* functions: that they exist, and what they compute, is shown by the least    *)
(* element of the set of indices at which they would not (LeastElement).     *)
(***************************************************************************)
EXTENDS Ingest, SequenceTheorems, FiniteSetTheorems, WellFoundedInduction, TLAPS

\* Induction over the natural numbers, in the form the provers can use: a nonempty set
\* of them has a least element.
LEMMA LeastElement ==
  ASSUME NEW S \in SUBSET Nat, S # {}
  PROVE  \E n \in S : \A m \in S : n <= m
<1>1. PICK n \in S : \A m \in S : ~ (<<m, n>> \in OpToRel(<, Nat))
  BY WFMin, NatLessThanWellFounded, Zenon
<1>2. ASSUME NEW m \in S, m < n
      PROVE  FALSE
  <2>1. <<m, n>> \in OpToRel(<, Nat)
    BY <1>2, Zenon DEF OpToRel
  <2>2. QED
    BY <1>1, <2>1
<1>3. QED
  BY <1>2

-----------------------------------------------------------------------------
(* Sums *)

\* f is what Total has summed up after each sample of w.
IsSum(f, w) == f = [i \in 0..Len(w) |-> IF i = 0 THEN 0 ELSE f[i - 1] + w[i]]

\* Two such functions are the same.
LEMMA SumIsUnique ==
  ASSUME NEW w, Len(w) \in Nat, NEW f, NEW g, IsSum(f, w), IsSum(g, w)
  PROVE  f = g
<1> DEFINE S == {i \in 0..Len(w) : f[i] # g[i]}
<1>1. /\ \A i \in 0..Len(w) : f[i] = IF i = 0 THEN 0 ELSE f[i - 1] + w[i]
      /\ \A i \in 0..Len(w) : g[i] = IF i = 0 THEN 0 ELSE g[i - 1] + w[i]
      /\ f = [i \in 0..Len(w) |-> f[i]] /\ g = [i \in 0..Len(w) |-> g[i]]
  BY DEF IsSum
<1>2. ASSUME S # {} PROVE FALSE
  <2>1. PICK n \in S : \A m \in S : n <= m
    <3>1. S \in SUBSET Nat
      OBVIOUS
    <3>2. QED
      BY <1>2, <3>1, LeastElement
  <2>2. n \in 0..Len(w) /\ f[n] # g[n]
    OBVIOUS
  <2>3. n # 0
    BY <1>1, <2>2
  <2>4. n - 1 \in 0..Len(w) /\ ~(n <= n - 1)
    BY <2>2, <2>3
  <2>5. f[n - 1] = g[n - 1]
    BY <2>1, <2>4
  <2>6. QED
    BY <1>1, <2>2, <2>3, <2>5
<1>3. \A i \in 0..Len(w) : f[i] = g[i]
  BY <1>2
<1>4. QED
  BY <1>1, <1>3, Zenon

\* The total of w, when a function is known that sums it up.
LEMMA TotalIs ==
  ASSUME NEW w, Len(w) \in Nat, NEW f, IsSum(f, w)
  PROVE  Total(w) = f[Len(w)]
<1> DEFINE g == CHOOSE h : IsSum(h, w)
<1>1. IsSum(g, w)
  BY Zenon
<1>2. Total(w) = g[Len(w)]
  BY Zenon DEF Total, IsSum
<1>3. g = f
  BY <1>1, SumIsUnique
<1>4. QED
  BY <1>2, <1>3

\* The total of k samples that are a, and one more that is v.
LEMMA TotalOfStep ==
  ASSUME NEW k \in Nat, NEW a \in Int, NEW v \in Int, NEW w, Len(w) = k + 1,
         \A i \in 1..k : w[i] = a, w[k + 1] = v
  PROVE  Total(w) = k * a + v
<1> DEFINE f == [i \in 0..(k + 1) |-> IF i = k + 1 THEN k * a + v ELSE i * a]
           h == [i \in 0..(k + 1) |-> IF i = 0 THEN 0 ELSE f[i - 1] + w[i]]
<1>1. ASSUME NEW i \in 0..(k + 1) PROVE f[i] = h[i]
  <2>1. CASE i = 0
    <3>1. f[i] = 0 * a
      BY <2>1
    <3>2. QED
      BY <2>1, <3>1
  <2>2. CASE i \in 1..k
    <3>1. f[i - 1] = (i - 1) * a /\ f[i] = i * a /\ w[i] = a
      BY <2>2
    <3>2. (i - 1) * a + a = i * a
      BY <2>2
    <3>3. QED
      BY <2>2, <3>1, <3>2
  <2>3. CASE i = k + 1
    <3>1. f[k] = k * a /\ f[i] = k * a + v /\ w[i] = v /\ i - 1 = k /\ i # 0
      BY <2>3
    <3>2. QED
      BY <3>1
  <2>4. QED
    BY <2>1, <2>2, <2>3
<1>2. f = h
  BY <1>1
<1>3. IsSum(f, w)
  BY <1>2 DEF IsSum
<1>4. f[Len(w)] = k * a + v
  OBVIOUS
<1>5. QED
  BY <1>3, <1>4, TotalIs

\* One sample that is another than k equal ones before it reaches the limit zHigh.
LEMMA StepReaches ==
  ASSUME NEW k \in Nat, k >= Warmup
  PROVE  ZHigh * (k + 1) <= 100 * (k * k)
<1> DEFINE W == Warmup
           Z == ZHigh
<1>1. /\ W \in Nat \ {0} /\ Z \in Nat /\ k \in Nat /\ k >= W
      /\ Z * (W + 1) <= 100 * (W * W)
  BY AnomalyAssumption
<1> HIDE DEF W, Z
<1>2. W * W \in Nat /\ k * k \in Nat /\ W * k \in Nat
  BY <1>1
<1>3. (W * W) * (k + 1) <= (k * k) * (W + 1)
  <2> DEFINE d == k - W
  <2>1. d \in Nat /\ k = W + d
    BY <1>1
  <2> HIDE DEF d
  <2>2. k * k = W * W + 2 * (W * d) + d * d
    BY <1>1, <2>1
  <2>3. (k * k) * (W + 1) - (W * W) * (k + 1) = d * (W * W) + W * (d * d) + 2 * (W * d) + d * d
    BY <1>1, <2>1
  <2>4. /\ d * (W * W) >= 0 /\ d * d >= 0 /\ W * d >= 0
        /\ d * (W * W) \in Int /\ d * d \in Int /\ W * d \in Int
    BY <1>1, <1>2, <2>1
  <2>5. W * (d * d) >= 0 /\ W * (d * d) \in Int
    BY <1>1, <2>1, <2>4
  <2>6. (k * k) * (W + 1) \in Int /\ (W * W) * (k + 1) \in Int
    BY <1>1, <1>2
  <2>7. QED
    BY <2>3, <2>4, <2>5, <2>6
<1>4. (Z * (W + 1)) * (k + 1) <= (100 * (W * W)) * (k + 1)
  <2> DEFINE x == Z * (W + 1)
             y == 100 * (W * W)
  <2>1. x \in Int /\ y \in Int /\ x <= y
    BY <1>1, <1>2
  <2> HIDE DEF x, y
  <2>2. x * (k + 1) <= y * (k + 1)
    BY <1>1, <2>1
  <2>3. QED
    BY <2>2 DEF x, y
<1>5. (Z * (k + 1)) * (W + 1) <= (100 * (k * k)) * (W + 1)
  <2>1. (Z * (k + 1)) * (W + 1) = (Z * (W + 1)) * (k + 1)
    BY <1>1
  <2>2. (100 * (W * W)) * (k + 1) = 100 * ((W * W) * (k + 1))
    BY <1>1, <1>2
  <2>3. (100 * (k * k)) * (W + 1) = 100 * ((k * k) * (W + 1))
    BY <1>1, <1>2
  <2>4. /\ (W * W) * (k + 1) \in Int /\ (k * k) * (W + 1) \in Int
        /\ (Z * (W + 1)) * (k + 1) \in Int
    BY <1>1, <1>2
  <2>5. QED
    BY <1>3, <1>4, <2>1, <2>2, <2>3, <2>4
<1>6. Z * (k + 1) \in Int /\ 100 * (k * k) \in Int
  BY <1>1, <1>2
<1>7. ASSUME Z * (k + 1) > 100 * (k * k) PROVE FALSE
  <2> DEFINE x == Z * (k + 1)
             y == 100 * (k * k)
  <2>1. x \in Int /\ y \in Int /\ x > y /\ x * (W + 1) <= y * (W + 1)
    BY <1>5, <1>6, <1>7
  <2> HIDE DEF x, y
  <2>2. (x - y) * (W + 1) = x * (W + 1) - y * (W + 1)
    BY <1>1, <2>1
  <2>3. (x - y) * (W + 1) > 0
    BY <1>1, <2>1
  <2>4. x * (W + 1) \in Int /\ y * (W + 1) \in Int
    BY <1>1, <2>1
  <2>5. QED
    BY <2>1, <2>2, <2>3, <2>4
<1>8. QED
  BY <1>6, <1>7 DEF Z

-----------------------------------------------------------------------------
(* Windows *)

\* What the last samples of a longer sequence are.
LEMMA LastOfFacts ==
  ASSUME NEW T, NEW w \in Seq(T), NEW size \in Nat
  PROVE  /\ LastOf(w, size) \in Seq(T)
         /\ Len(LastOf(w, size)) = IF Len(w) > size THEN size ELSE Len(w)
         /\ \A i \in 1..Len(LastOf(w, size)) :
               LastOf(w, size)[i] = w[IF Len(w) > size THEN Len(w) - size + i ELSE i]
<1>1. CASE Len(w) > size
  <2> DEFINE m == Len(w) - size + 1
  <2>1. /\ LastOf(w, size) = SubSeq(w, m, Len(w)) /\ Len(w) \in Nat
        /\ m \in 1..Len(w) + 1
    BY <1>1 DEF LastOf
  <2>2. m - 1 + 1 = m /\ Len(w) - m + 1 = size
    BY <2>1
  <2>3. /\ SubSeq(w, m, Len(w)) \in Seq(T)
        /\ Len(SubSeq(w, m, Len(w))) = size
        /\ \A i \in 1..size : SubSeq(w, m, Len(w))[i] = w[m + i - 1]
    BY <1>1, <2>1, SubSeqProperties
  <2>4. \A i \in 1..size : m + i - 1 = Len(w) - size + i
    BY <2>1
  <2>5. QED
    BY <1>1, <2>1, <2>3, <2>4
<1>2. CASE ~(Len(w) > size)
  BY <1>2 DEF LastOf
<1>3. QED
  BY <1>1, <1>2

\* A window after one more sample.
LEMMA PushedFacts ==
  ASSUME NEW w \in Seq(Int), Len(w) <= WindowSize, NEW v \in Int
  PROVE  LET p == Pushed(w, v)
             n == IF Len(w) < WindowSize THEN Len(w) + 1 ELSE WindowSize
         IN  /\ p \in Seq(Int) /\ Len(p) = n /\ n >= 1
             /\ p[n] = v
             /\ \A i \in 1..n - 1 : \E j \in DOMAIN w : p[i] = w[j]
<1> DEFINE q == Append(w, v)
<1>1. /\ q \in Seq(Int) /\ Len(q) = Len(w) + 1 /\ Len(w) \in Nat /\ DOMAIN w = 1..Len(w)
      /\ q[Len(w) + 1] = v /\ \A i \in 1..Len(w) : q[i] = w[i]
  OBVIOUS
<1>2. WindowSize \in Nat /\ WindowSize >= 2
  BY AnomalyAssumption
<1>3. Pushed(w, v) = LastOf(q, WindowSize)
  BY DEF Pushed
<1> HIDE DEF q
<1>4. CASE Len(w) < WindowSize
  <2>1. ~(Len(q) > WindowSize)
    BY <1>1, <1>2, <1>4
  <2>2. Pushed(w, v) = q
    BY <1>3, <2>1 DEF LastOf
  <2>3. \A i \in 1..(Len(w) + 1) - 1 : i \in DOMAIN w /\ Pushed(w, v)[i] = w[i]
    BY <1>1, <2>2
  <2>4. QED
    BY <1>1, <1>4, <2>2, <2>3
<1>5. CASE ~(Len(w) < WindowSize)
  <2>1. Len(w) = WindowSize /\ Len(q) > WindowSize /\ Len(q) = WindowSize + 1
    <3>1. Len(w) = WindowSize
      <4>1. \A m, n \in Nat : m <= n /\ ~(m < n) => m = n
        OBVIOUS
      <4>2. Len(w) \in Nat
        OBVIOUS
      <4>3. QED
        BY <1>2, <1>5, <4>1, <4>2, Zenon
    <3>2. Len(q) = WindowSize + 1
      BY <1>1, <3>1
    <3>3. WindowSize + 1 > WindowSize
      BY <1>2
    <3>4. QED
      BY <3>1, <3>2, <3>3
  <2>2. /\ LastOf(q, WindowSize) \in Seq(Int)
        /\ Len(LastOf(q, WindowSize)) = WindowSize
        /\ \A i \in 1..WindowSize : LastOf(q, WindowSize)[i] = q[Len(q) - WindowSize + i]
    BY <1>1, <1>2, <2>1, LastOfFacts
  <2>3. \A i \in 1..WindowSize : Len(q) - WindowSize + i = i + 1
    BY <1>2, <2>1
  <2>4. \A i \in 1..WindowSize : LastOf(q, WindowSize)[i] = q[i + 1]
    BY <2>2, <2>3
  <2>5. LastOf(q, WindowSize)[WindowSize] = v
    BY <1>1, <1>2, <2>1, <2>4
  <2>6. \A i \in 1..WindowSize - 1 : i + 1 \in DOMAIN w /\ LastOf(q, WindowSize)[i] = w[i + 1]
    BY <1>1, <1>2, <2>1, <2>4
  <2>7. QED
    BY <1>2, <1>3, <1>5, <2>2, <2>5, <2>6
<1>6. QED
  BY <1>4, <1>5

\* How long a window of n samples is after one more.
Grown(n) == IF n < WindowSize THEN n + 1 ELSE WindowSize

LEMMA PushedLength ==
  ASSUME NEW w \in Seq(Int), Len(w) <= WindowSize, NEW v \in Int
  PROVE  /\ Pushed(w, v) \in Seq(Int)
         /\ Len(Pushed(w, v)) = Grown(Len(w))
         /\ Len(Pushed(w, v)) <= WindowSize
<1>1. Pushed(w, v) \in Seq(Int) /\ Len(Pushed(w, v)) = Grown(Len(w))
  BY PushedFacts, Zenon DEF Grown
<1>2. Len(w) \in Nat /\ WindowSize \in Nat
  BY AnomalyAssumption
<1>3. Grown(Len(w)) <= WindowSize
  BY <1>2 DEF Grown
<1>4. QED
  BY <1>1, <1>3

\* The windows of two metrics stay in step, by r handlers that were stopped.
LEMMA GrownInStep ==
  ASSUME NEW a \in 0..WindowSize, NEW b \in 0..WindowSize, NEW r \in Nat, a - b \in 0..r
  PROVE  /\ Grown(a) - Grown(b) \in 0..r
         /\ Grown(a) - b \in 0..r + 1
         /\ a - b \in 0..r + 1
  BY AnomalyAssumption DEF Grown

\* The variance of k equal samples and another one.
LEMMA SpreadOfStep ==
  ASSUME NEW k \in Nat, NEW a \in Int, NEW v \in Int, NEW w \in Seq(Int), Len(w) = k + 1,
         \A i \in 1..k : w[i] = a, w[k + 1] = v
  PROVE  /\ Spread(w) = k * ((v - a) * (v - a))
         /\ Len(w) * v - Total(w) = k * (v - a)
<1>1. Total(w) = k * a + v
  BY TotalOfStep
<1> DEFINE s == [i \in DOMAIN w |-> w[i] * w[i]]
<1>2. Squares(w) = k * (a * a) + v * v
  <2>1. /\ s \in Seq(Int) /\ Len(s) = k + 1
        /\ \A i \in 1..k : s[i] = a * a
        /\ s[k + 1] = v * v
    OBVIOUS
  <2>2. a * a \in Int /\ v * v \in Int
    OBVIOUS
  <2> HIDE DEF s
  <2>3. Total(s) = k * (a * a) + v * v
    BY <2>1, <2>2, TotalOfStep
  <2>4. QED
    BY <2>3 DEF Squares, s
<1>3. Spread(w) = (k + 1) * (k * (a * a) + v * v) - (k * a + v) * (k * a + v)
  BY <1>1, <1>2 DEF Spread
<1>4. (k + 1) * (k * (a * a) + v * v) - (k * a + v) * (k * a + v) = k * ((v - a) * (v - a))
  OBVIOUS
<1>5. (k + 1) * v - (k * a + v) = k * (v - a)
  OBVIOUS
<1>6. QED
  BY <1>1, <1>3, <1>4, <1>5

\* A sample that differs from at least Warmup equal ones before it is judged high.
LEMMA StepIsHigh ==
  ASSUME NEW k \in Nat, k >= Warmup, NEW a \in Int, NEW v \in Int, v # a,
         NEW w \in Seq(Int), Len(w) = k + 1, \A i \in 1..k : w[i] = a, w[k + 1] = v
  PROVE  SeverityFor(w, v) = "high"
<1> DEFINE e == v - a
           d == k * e
           s == k * (e * e)
<1>1. Spread(w) = s /\ Len(w) * v - Total(w) = d
  BY SpreadOfStep
<1>2. k >= 1 /\ ZHigh \in Nat
  BY AnomalyAssumption
<1>3. e \in Int /\ e # 0
  OBVIOUS
<1> HIDE DEF e
<1>4. e * e \in Nat \ {0}
  BY <1>3
<1>5. s \in Nat \ {0}
  BY <1>2, <1>4
<1>6. (((100 * d) * d) * k) = (100 * (k * k)) * s
  BY <1>2, <1>3
<1>7. ZHigh * (k + 1) * s <= (100 * (k * k)) * s
  <2> DEFINE x == ZHigh * (k + 1)
             y == 100 * (k * k)
  <2>1. x \in Int /\ y \in Int /\ x <= y
    BY <1>2, StepReaches
  <2> HIDE DEF x, y, s
  <2>2. x * s <= y * s
    BY <1>5, <2>1
  <2>3. QED
    BY <2>2 DEF x, y
<1>8. 100 * d * d * ((k + 1) - 1) >= ZHigh * (k + 1) * s
  <2>1. (k + 1) - 1 = k
    OBVIOUS
  <2>2. QED
    BY <1>6, <1>7, <2>1
<1> HIDE DEF s, d
<1>9. QED
  BY <1>1, <1>5, <1>8 DEF SeverityFor

\* The first move of a flat signal is judged high.
LEMMA FirstMoveJudged ==
  ASSUME NEW w \in Seq(Int), Len(w) <= WindowSize, Len(w) >= Warmup, Flat(w), NEW v \in Int, v # w[1]
  PROVE  SeverityFor(Pushed(w, v), v) = "high"
<1> DEFINE n == IF Len(w) < WindowSize THEN Len(w) + 1 ELSE WindowSize
           k == n - 1
           p == Pushed(w, v)
<1>1. Warmup \in Nat /\ Warmup >= 1 /\ WindowSize \in Nat /\ WindowSize >= Warmup + 1
  BY AnomalyAssumption
<1>2. Len(w) \in Nat /\ DOMAIN w = 1..Len(w)
  OBVIOUS
<1>3. k \in Nat /\ k >= Warmup /\ n = k + 1
  BY <1>1, <1>2
<1>4. w[1] \in Int
  BY <1>1, <1>2
<1>5. /\ p \in Seq(Int) /\ Len(p) = n /\ p[n] = v
      /\ \A i \in 1..n - 1 : \E j \in DOMAIN w : p[i] = w[j]
  BY PushedFacts
<1>6. \A i \in 1..k : p[i] = w[1]
  BY <1>5 DEF Flat
<1> HIDE DEF k, n, p
<1>7. Len(p) = k + 1 /\ p[k + 1] = v
  BY <1>3, <1>5
<1>8. QED
  BY <1>3, <1>4, <1>5, <1>6, <1>7, StepIsHigh DEF p

-----------------------------------------------------------------------------
(* The loop of analyzeFrame *)

Entry(c, f, m) ==
    [craft |-> c, metric |-> m, severity |-> Judged(c, m, f[m]),
     predicted |-> PredictedTrend(Pushed(window[c][m], f[m]))]

\* One turn of the loop: the metric m and the anomalies found so far.
Turn(c, f, m, found) ==
    IF Judged(c, m, f[m]) = "low" THEN found ELSE Append(found, Entry(c, f, m))

\* g is what the loop has after each of its first n turns.
IsLoop(g, n, c, f) ==
    g = [i \in 0..n |-> IF i = 0 THEN <<>> ELSE Turn(c, f, METRICS[i], g[i - 1])]

\* The loop can go on for one turn more.
LEMMA LoopGoesOn ==
  ASSUME NEW c, NEW f, NEW n \in Nat, NEW g, IsLoop(g, n, c, f)
  PROVE  \E h : IsLoop(h, n + 1, c, f)
<1> DEFINE h == [i \in 0..(n + 1) |-> IF i = n + 1 THEN Turn(c, f, METRICS[n + 1], g[n]) ELSE g[i]]
           k == [i \in 0..(n + 1) |-> IF i = 0 THEN <<>> ELSE Turn(c, f, METRICS[i], h[i - 1])]
<1>1. \A i \in 0..n : g[i] = IF i = 0 THEN <<>> ELSE Turn(c, f, METRICS[i], g[i - 1])
  BY DEF IsLoop
<1>2. ASSUME NEW i \in 0..(n + 1)
      PROVE  h[i] = k[i]
  <2>1. CASE i = 0
    BY <1>1, <2>1
  <2>2. CASE i \in 1..n
    <3>1. i - 1 \in 0..n /\ i - 1 # n + 1 /\ i # n + 1 /\ i \in 0..n /\ i # 0
      BY <2>2
    <3>2. h[i - 1] = g[i - 1] /\ h[i] = g[i]
      BY <3>1
    <3>3. QED
      BY <1>1, <3>1, <3>2
  <2>3. CASE i = n + 1
    <3>1. h[n] = g[n] /\ i - 1 = n /\ i # 0
      BY <2>3
    <3>2. QED
      BY <2>3, <3>1
  <2>4. QED
    BY <2>1, <2>2, <2>3
<1>3. h = k
  BY <1>2
<1>4. IsLoop(h, n + 1, c, f)
  BY <1>3 DEF IsLoop
<1>5. QED
  BY <1>4

\* Hence it has a result after any number of turns.
LEMMA LoopExists ==
  ASSUME NEW c, NEW f
  PROVE  \A n \in Nat : \E g : IsLoop(g, n, c, f)
<1> DEFINE S == {n \in Nat : ~ \E g : IsLoop(g, n, c, f)}
<1>1. ASSUME S # {}
      PROVE  FALSE
  <2>1. PICK n \in S : \A m \in S : n <= m
    BY <1>1, LeastElement
  <2>2. CASE n = 0
    <3>1. IsLoop([i \in 0..0 |-> <<>>], 0, c, f)
      BY DEF IsLoop
    <3>2. QED
      BY <2>2, <3>1
  <2>3. CASE n # 0
    <3>1. n - 1 \in Nat /\ ~(n <= n - 1) /\ (n - 1) + 1 = n
      BY <2>3
    <3>2. PICK g : IsLoop(g, n - 1, c, f)
      BY <2>1, <3>1
    <3>3. \E h : IsLoop(h, n, c, f)
      BY <3>1, <3>2, LoopGoesOn
    <3>4. QED
      BY <3>3
  <2>4. QED
    BY <2>2, <2>3
<1>2. QED
  BY <1>1

Severities == {"low", "medium", "high"}

Entries == [craft : Craft, metric : Metric, severity : Severities,
            predicted : {"none", "rising", "falling"}]

\* The index of a metric, and back.
LEMMA MetricFacts ==
  /\ Len(METRICS) \in Nat
  /\ \A i \in 1..Len(METRICS) : METRICS[i] \in Metric
  /\ \A m \in Metric : \E i \in 1..Len(METRICS) : METRICS[i] = m
  BY AnomalyAssumption DEF Metric, ToSet

\* What is found is an entry of the craft, and nothing that is judged is left out.
LEMMA FoundFacts ==
  ASSUME NEW c \in Craft, NEW f
  PROVE  /\ Found(c, f) \in Seq(Entries)
         /\ \A i \in 1..Len(Found(c, f)) : Found(c, f)[i].craft = c
         /\ \A m \in Metric : Judged(c, m, f[m]) # "low" =>
                \E i \in 1..Len(Found(c, f)) : Found(c, f)[i] = Entry(c, f, m)
<1> DEFINE n == Len(METRICS)
           g == FoundUpTo(c, f)
           Good(i) == /\ g[i] \in Seq(Entries)
                      /\ \A k \in 1..Len(g[i]) : g[i][k].craft = c
                      /\ \A j \in 1..i : Judged(c, METRICS[j], f[METRICS[j]]) # "low" =>
                             \E k \in 1..Len(g[i]) : g[i][k] = Entry(c, f, METRICS[j])
           S == {i \in 0..n : ~Good(i)}
<1>1. n \in Nat
  BY MetricFacts
<1>2. IsLoop(g, n, c, f)
  <2>1. \E h : IsLoop(h, n, c, f)
    BY <1>1, LoopExists
  <2>2. QED
    BY <2>1, Zenon DEF FoundUpTo, IsLoop, Turn, Entry
<1> HIDE DEF g
<1>3. \A i \in 0..n : g[i] = IF i = 0 THEN <<>> ELSE Turn(c, f, METRICS[i], g[i - 1])
  BY <1>2 DEF IsLoop
<1>4. ASSUME NEW i \in 1..n, Good(i - 1)
      PROVE  Good(i)
  <2> DEFINE m == METRICS[i]
             e == Entry(c, f, m)
  <2>1. g[i] = Turn(c, f, m, g[i - 1])
    BY <1>1, <1>3
  <2>2. e \in Entries /\ e.craft = c
    <3>1. m \in Metric
      BY MetricFacts
    <3>2. Judged(c, m, f[m]) \in Severities
      BY DEF Judged, SeverityFor, Severities
    <3>3. PredictedTrend(Pushed(window[c][m], f[m])) \in {"none", "rising", "falling"}
      BY DEF PredictedTrend
    <3>4. QED
      BY <3>1, <3>2, <3>3 DEF Entry, Entries
  <2>3. CASE Judged(c, m, f[m]) = "low"
    <3>1. g[i] = g[i - 1]
      BY <2>1, <2>3 DEF Turn
    <3>2. \A j \in 1..i : j = i \/ j \in 1..i - 1
      BY <1>1
    <3>3. QED
      BY <1>4, <2>3, <3>1, <3>2
  <2>4. CASE Judged(c, m, f[m]) # "low"
    <3>1. g[i] = Append(g[i - 1], e)
      BY <2>1, <2>4 DEF Turn
    <3> DEFINE s == g[i - 1]
    <3> HIDE DEF e
    <3>2. s \in Seq(Entries) /\ Len(s) \in Nat
      BY <1>4
    <3> HIDE DEF s
    <3>3. /\ g[i] \in Seq(Entries) /\ Len(g[i]) = Len(s) + 1
          /\ \A k \in 1..Len(s) : g[i][k] = s[k]
          /\ g[i][Len(s) + 1] = e
      BY <2>2, <3>1, <3>2 DEF s
    <3>4. \A k \in 1..Len(g[i]) : k \in 1..Len(s) \/ k = Len(s) + 1
      BY <3>2, <3>3
    <3>5. \A k \in 1..Len(g[i]) : g[i][k].craft = c
      BY <1>4, <2>2, <3>3, <3>4 DEF s
    <3>6. \A j \in 1..i : j = i \/ j \in 1..i - 1
      BY <1>1
    <3>7. ASSUME NEW j \in 1..i, Judged(c, METRICS[j], f[METRICS[j]]) # "low"
          PROVE  \E k \in 1..Len(g[i]) : g[i][k] = Entry(c, f, METRICS[j])
      <4>1. CASE j = i
        <5>1. Len(s) + 1 \in 1..Len(g[i])
          BY <3>2, <3>3
        <5>2. QED
          BY <3>3, <4>1, <5>1 DEF e
      <4>2. CASE j \in 1..i - 1
        <5>1. PICK k \in 1..Len(s) : s[k] = Entry(c, f, METRICS[j])
          BY <1>4, <3>7, <4>2 DEF s
        <5>2. k \in 1..Len(g[i]) /\ g[i][k] = s[k]
          BY <3>2, <3>3
        <5>3. QED
          BY <5>1, <5>2
      <4>3. QED
        BY <3>6, <4>1, <4>2
    <3>8. QED
      BY <3>3, <3>5, <3>7
  <2>5. QED
    BY <2>3, <2>4
<1>5. Good(0)
  <2>1. g[0] = <<>>
    BY <1>1, <1>3
  <2>2. <<>> \in Seq(Entries) /\ Len(<<>>) = 0
    OBVIOUS
  <2>3. QED
    BY <2>1, <2>2
<1> HIDE DEF Good
<1>6. ASSUME S # {} PROVE FALSE
  <2>1. S \in SUBSET Nat
    OBVIOUS
  <2>2. PICK i \in S : \A j \in S : i <= j
    BY <1>6, <2>1, LeastElement
  <2>3. i \in 1..n /\ i - 1 \in 0..n /\ ~(i <= i - 1)
    BY <1>1, <1>5, <2>2
  <2>4. Good(i - 1)
    BY <2>2, <2>3
  <2>5. QED
    BY <1>4, <2>2, <2>3, <2>4
<1>7. Good(n)
  BY <1>1, <1>6
<1>8. Found(c, f) = g[n]
  BY DEF Found, g
<1>9. QED
  BY <1>7, <1>8, MetricFacts DEF Good

-----------------------------------------------------------------------------
(* Windows and clocks *)

Samples == {[cpu |-> f.cpu, heap |-> f.heap, battery |-> f.battery, tasks |-> f.tasks] : f \in Frames}

FeedInv ==
    /\ clock \in Nat
    /\ refusals \in Nat
    /\ ticks \in [Craft -> Nat]
    /\ onlineAt \in [Craft -> 0..clock \cup {Never}]
    /\ lastAnomalyAt \in [Craft -> [Metric -> 0..clock \cup {Never}]]

\* No window of a craft is ahead of one before it by more than the handlers stopped in between.
InStep ==
    \A c \in Craft : \A i \in 1..Len(METRICS) - 1 :
        Len(window[c][METRICS[i]]) - Len(window[c][METRICS[i + 1]]) \in 0..refusals

WindowInv ==
    /\ window \in [Craft -> [Metric -> Seq(Int)]]
    /\ \A c \in Craft, m \in Metric : Len(window[c][m]) <= WindowSize
    /\ wins \in [Craft -> Seq(Samples)]
    /\ \A c \in Craft : Len(wins[c]) <= WINDOW
    /\ InStep

\* Nothing has come in at start.
LEMMA InitWindows == Init => FeedInv /\ WindowInv
<1> SUFFICES ASSUME Init PROVE FeedInv /\ WindowInv
  OBVIOUS
<1>1. FeedInv
  BY DEF Init, NarratorInit, FeedInv
<1>2. window = [c \in Craft |-> [m \in Metric |-> <<>>]] /\ wins = [c \in Craft |-> <<>>] /\ refusals = 0
  BY DEF Init, AnomalyInit, CorrelationInit
<1>3. /\ <<>> \in Seq(Int) /\ <<>> \in Seq(Samples) /\ Len(<<>>) = 0
      /\ WindowSize >= 0 /\ WINDOW >= 0
  BY AnomalyAssumption, CorrelationAssumption
<1>4. InStep
  <2> SUFFICES ASSUME NEW c \in Craft, NEW i \in 1..Len(METRICS) - 1
               PROVE  Len(window[c][METRICS[i]]) - Len(window[c][METRICS[i + 1]]) \in 0..refusals
    BY DEF InStep
  <2>1. METRICS[i] \in Metric /\ METRICS[i + 1] \in Metric
    <3>1. i \in 1..Len(METRICS) /\ i + 1 \in 1..Len(METRICS)
      BY MetricFacts
    <3>2. QED
      BY <3>1, MetricFacts
  <2>2. window[c][METRICS[i]] = <<>> /\ window[c][METRICS[i + 1]] = <<>>
    BY <1>2, <2>1
  <2>3. QED
    BY <1>2, <1>3, <2>2
<1>5. WindowInv
  BY <1>2, <1>3, <1>4 DEF WindowInv
<1>6. QED
  BY <1>1, <1>5

\* What a frame does, by how many rows the database takes behind the head.
FrameOutcome(c, f, head, later) ==
    LET found == Found(c, f)
        out == IF later < 0 THEN <<>> ELSE OnBus(found, later)
    IN  /\ Takes(head + later, head + 2 * Len(found))
        /\ NarrateFrame(c, f, out, clock)
        /\ bus' = out
        /\ frames' = IF head = 2 /\ later > -2
                     THEN Append(frames, FrameRow(c, clock)) ELSE frames
        /\ acked' = IF later >= -1 THEN [acked EXCEPT ![c] = @ + 1] ELSE acked
        /\ IF later < 0 THEN UNCHANGED <<bench, wins, window, anomalies, timeline>>
           ELSE /\ bench' = Append(bench, BenchRow(c, ticks'[c]))
                /\ Observe(c, f)
                /\ Sampled(c, f, LastMetric(found, later))
                /\ RecordAnomalies(c, found, later)

\* The outcome of a frame, and how the refusals follow from it.
LEMMA FrameFacts ==
    ASSUME FeedInv, NEW c \in Craft, NEW f \in Frames, FrameArrives(c, f)
    PROVE  /\ UNCHANGED <<clock, restarts>>
           /\ ticks' = [ticks EXCEPT ![c] = @ + 1] /\ received' = received + 1
           /\ Len(Found(c, f)) \in Nat
           /\ \E head \in 1..2 : \E later \in -head..2 * Len(Found(c, f)) :
                 /\ FrameOutcome(c, f, head, later)
                 /\ refusals' = IF later = 2 * Len(Found(c, f)) THEN refusals ELSE refusals + 1
<1>1. Len(Found(c, f)) \in Nat
  BY FoundFacts
<1> DEFINE h == IF clock % 5 = 0 THEN 2 ELSE 1
<1>2. h \in 1..2
  OBVIOUS
<1>3. \E later \in -h..2 * Len(Found(c, f)) : FrameOutcome(c, f, h, later)
  BY DEF FrameArrives, FrameOutcome
<1> HIDE DEF h
<1>4. PICK later \in -h..2 * Len(Found(c, f)) : FrameOutcome(c, f, h, later)
  BY <1>3
<1>5. refusals' = IF h + later = h + 2 * Len(Found(c, f)) THEN refusals ELSE refusals + 1
  BY <1>4 DEF FrameOutcome, Takes
<1>6. h + later = h + 2 * Len(Found(c, f)) <=> later = 2 * Len(Found(c, f))
  BY <1>1, <1>2
<1>7. /\ UNCHANGED <<clock, restarts>>
      /\ ticks' = [ticks EXCEPT ![c] = @ + 1] /\ received' = received + 1
  BY DEF FrameArrives
<1>8. QED
  BY <1>1, <1>2, <1>4, <1>5, <1>6, <1>7

\* The loop stops at a metric, or goes through all of them.
LEMMA LastMetricFacts ==
    ASSUME NEW c \in Craft, NEW f, NEW taken \in 0..2 * Len(Found(c, f))
    PROVE  /\ LastMetric(Found(c, f), taken) \in 0..Len(METRICS)
           /\ taken = 2 * Len(Found(c, f)) => LastMetric(Found(c, f), taken) = Len(METRICS)
<1> DEFINE found == Found(c, f)
           k == (taken \div 2) + 1
<1>1. found \in Seq(Entries) /\ Len(found) \in Nat
  BY FoundFacts
<1>2. CASE taken = 2 * Len(found)
  BY <1>2, MetricFacts DEF LastMetric
<1>3. CASE taken # 2 * Len(found)
  <2>1. k \in 1..Len(found)
    BY <1>1, <1>3
  <2>2. found[k].metric \in Metric
    <3> HIDE DEF found, k
    <3>1. found[k] \in Entries
      BY <1>1, <2>1
    <3>2. QED
      BY <3>1 DEF Entries
  <2>3. \E i \in DOMAIN METRICS : METRICS[i] = found[k].metric
    BY <2>2 DEF Metric, ToSet
  <2>4. LastMetric(found, taken) \in DOMAIN METRICS
    BY <1>3, <2>3 DEF LastMetric
  <2>5. DOMAIN METRICS = 1..Len(METRICS) /\ Len(METRICS) \in Nat
    BY AnomalyAssumption
  <2>6. QED
    BY <1>3, <2>4, <2>5
<1>4. QED
  BY <1>2, <1>3

\* The windows a frame leaves when the loop got as far as the metric `last'.
LEMMA SampledFacts ==
    ASSUME WindowInv, NEW c \in Craft, NEW f \in Frames, NEW last \in 0..Len(METRICS),
           Sampled(c, f, last)
    PROVE  /\ window' \in [Craft -> [Metric -> Seq(Int)]]
           /\ \A d \in Craft : d # c => window'[d] = window[d]
           /\ \A i \in 1..Len(METRICS) : LET m == METRICS[i] IN
                 window'[c][m] = IF i <= last THEN Pushed(window[c][m], f[m]) ELSE window[c][m]
           /\ \A m \in Metric : Len(window'[c][m]) <= WindowSize
<1>1. Len(METRICS) \in Nat /\ DOMAIN METRICS = 1..Len(METRICS)
  BY AnomalyAssumption
<1>2. \A i, j \in 1..Len(METRICS) : METRICS[i] = METRICS[j] => i = j
  BY <1>1, AnomalyAssumption
<1>3. ASSUME NEW m \in Metric
      PROVE  /\ Pushed(window[c][m], f[m]) \in Seq(Int)
             /\ Len(Pushed(window[c][m], f[m])) <= WindowSize
  <2>1. window[c][m] \in Seq(Int) /\ Len(window[c][m]) <= WindowSize /\ f[m] \in Int
    BY IngestAssumption DEF WindowInv
  <2>2. QED
    BY <2>1, PushedLength, Zenon
<1> DEFINE new == [m \in Metric |->
               IF \E i \in 1..last : METRICS[i] = m THEN Pushed(window[c][m], f[m]) ELSE window[c][m]]
<1>4. new \in [Metric -> Seq(Int)]
  BY <1>3 DEF WindowInv
<1>5. window' = [window EXCEPT ![c] = new]
  BY DEF Sampled
<1>6. \A m \in Metric : Len(new[m]) <= WindowSize
  BY <1>3 DEF WindowInv
<1>7. ASSUME NEW i \in 1..Len(METRICS)
      PROVE  new[METRICS[i]] = IF i <= last THEN Pushed(window[c][METRICS[i]], f[METRICS[i]])
                               ELSE window[c][METRICS[i]]
  <2>1. METRICS[i] \in Metric
    BY MetricFacts
  <2>2. (\E j \in 1..last : METRICS[j] = METRICS[i]) <=> i <= last
    BY <1>1, <1>2
  <2>3. QED
    BY <2>1, <2>2
<1> HIDE DEF new
<1>8. window'[c] = new /\ \A d \in Craft : d # c => window'[d] = window[d]
  BY <1>5 DEF WindowInv
<1>9. window' \in [Craft -> [Metric -> Seq(Int)]]
  BY <1>4, <1>5 DEF WindowInv
<1>10. QED
  BY <1>6, <1>7, <1>8, <1>9

\* A frame keeps the windows in step: a loop that is cut short is one handler more.
LEMMA SampledInStep ==
    ASSUME FeedInv, WindowInv, NEW c \in Craft, NEW f \in Frames, NEW last \in 0..Len(METRICS),
           Sampled(c, f, last),
           refusals' = refusals \/ refusals' = refusals + 1,
           refusals' = refusals => last = Len(METRICS)
    PROVE  InStep'
<1> SUFFICES ASSUME NEW d \in Craft, NEW i \in 1..Len(METRICS) - 1
             PROVE  Len(window'[d][METRICS[i]]) - Len(window'[d][METRICS[i + 1]]) \in 0..refusals'
  BY DEF InStep
<1> DEFINE w(k) == window[d][METRICS[k]]
           x(k) == window'[d][METRICS[k]]
<1>1. i \in 1..Len(METRICS) /\ i + 1 \in 1..Len(METRICS) /\ Len(METRICS) \in Nat
  BY MetricFacts
<1>2. refusals \in Nat /\ Len(w(i)) - Len(w(i + 1)) \in 0..refusals
  BY DEF FeedInv, WindowInv, InStep
<1>3. Len(w(i)) \in 0..WindowSize /\ Len(w(i + 1)) \in 0..WindowSize
  <2>1. ASSUME NEW k \in 1..Len(METRICS) PROVE Len(w(k)) \in 0..WindowSize
    <3>1. w(k) \in Seq(Int) /\ Len(w(k)) <= WindowSize
      BY MetricFacts DEF WindowInv
    <3>2. QED
      BY <3>1, AnomalyAssumption
  <2>2. QED
    BY <1>1, <2>1
<1>4. /\ Grown(Len(w(i))) - Grown(Len(w(i + 1))) \in 0..refusals
      /\ Grown(Len(w(i))) - Len(w(i + 1)) \in 0..refusals + 1
      /\ Len(w(i)) - Len(w(i + 1)) \in 0..refusals + 1
  BY <1>2, <1>3, GrownInStep
<1>5. 0..refusals \subseteq 0..refusals' /\ (last # Len(METRICS) => 0..refusals + 1 = 0..refusals')
  BY <1>2
<1>6. CASE d # c
  <2>1. x(i) = w(i) /\ x(i + 1) = w(i + 1)
    BY <1>1, <1>6, SampledFacts
  <2>2. QED
    BY <1>2, <1>5, <2>1
<1>7. CASE d = c
  <2>1. ASSUME NEW k \in 1..Len(METRICS)
        PROVE  Len(x(k)) = IF k <= last THEN Grown(Len(w(k))) ELSE Len(w(k))
    <3>1. METRICS[k] \in Metric
      BY MetricFacts
    <3>2. w(k) \in Seq(Int) /\ Len(w(k)) <= WindowSize /\ f[METRICS[k]] \in Int
      BY <3>1, IngestAssumption DEF WindowInv
    <3>3. x(k) = IF k <= last THEN Pushed(w(k), f[METRICS[k]]) ELSE w(k)
      BY <1>7, SampledFacts
    <3> HIDE DEF w, x
    <3>4. Len(Pushed(w(k), f[METRICS[k]])) = Grown(Len(w(k)))
      BY <3>2, PushedLength
    <3>5. QED
      BY <3>3, <3>4
  <2>2. CASE i + 1 <= last
    <3>1. i <= last
      BY <1>1, <2>2
    <3>2. Len(x(i)) = Grown(Len(w(i))) /\ Len(x(i + 1)) = Grown(Len(w(i + 1)))
      BY <1>1, <2>1, <2>2, <3>1
    <3>3. QED
      BY <1>4, <1>5, <3>2
  <2>3. CASE ~(i + 1 <= last)
    <3>1. last # Len(METRICS)
      BY <1>1, <2>3
    <3>2. Len(x(i + 1)) = Len(w(i + 1))
      BY <1>1, <2>1, <2>3
    <3>3. Len(x(i)) = Grown(Len(w(i))) \/ Len(x(i)) = Len(w(i))
      BY <1>1, <2>1
    <3>4. QED
      BY <1>4, <1>5, <3>1, <3>2, <3>3
  <2>4. QED
    BY <2>2, <2>3
<1>8. QED
  BY <1>6, <1>7

\* The windows of the correlation after one more frame.
LEMMA ObservedFacts ==
    ASSUME WindowInv, NEW c \in Craft, NEW f \in Frames, Observe(c, f)
    PROVE  wins' \in [Craft -> Seq(Samples)] /\ \A d \in Craft : Len(wins'[d]) <= WINDOW
<1> DEFINE s == [cpu |-> f.cpu, heap |-> f.heap, battery |-> f.battery, tasks |-> f.tasks]
           q == Append(wins[c], s)
           n == LastOf(q, WINDOW)
<1>1. s \in Samples
  BY DEF Samples
<1>2. wins[c] \in Seq(Samples) /\ WINDOW \in Nat
  BY CorrelationAssumption DEF WindowInv
<1>3. wins' = [wins EXCEPT ![c] = n]
  BY DEF Observe
<1> HIDE DEF s
<1>4. q \in Seq(Samples)
  BY <1>1, <1>2
<1> HIDE DEF q
<1>5. n \in Seq(Samples) /\ Len(n) = IF Len(q) > WINDOW THEN WINDOW ELSE Len(q)
  BY <1>2, <1>4, LastOfFacts
<1> HIDE DEF n
<1>6. Len(n) <= WINDOW
  BY <1>2, <1>4, <1>5
<1>7. QED
  BY <1>3, <1>5, <1>6 DEF WindowInv

\* A log line has as many rows as it says it has.
LEMMA LogFacts ==
    ASSUME FeedInv, NEW c \in Craft, NEW type, LogArrives(c, type)
    PROVE  /\ refusals' = refusals \/ refusals' = refusals + 1
           /\ \A l \in lines' : l.tag # "ALERT"
           /\ UNCHANGED <<onlineAt, lastAnomalyAt, clock, ticks, acked, window, wins, anomalies, bench>>
           /\ bus' = <<>> /\ received' = received + 1
           /\ \/ timeline' = timeline
              \/ \E taken \in 0..Len(LogRows(c, type)) :
                    timeline' = timeline \o SubSeq(LogRows(c, type), 1, taken)
<1>1. CASE type = Unparsable
  BY <1>1 DEF LogArrives
<1>2. CASE type # Unparsable
  <2>1. NarrateLog(c, type)
    BY <1>2 DEF LogArrives
  <2>2. \A tag \in LogTag(type) : tag # "ALERT"
    BY DEF LogTag
  <2>3. \A l \in lines' : l.tag # "ALERT"
    BY <2>1, <2>2 DEF NarrateLog, Line
  <2>4. PICK taken \in 0..2 : /\ Takes(taken, Len(LogRows(c, type)))
                              /\ timeline' = timeline \o SubSeq(LogRows(c, type), 1, taken)
    BY <1>2 DEF LogArrives
  <2>5. taken \in 0..Len(LogRows(c, type)) /\ (refusals' = refusals \/ refusals' = refusals + 1)
    BY <2>4 DEF Takes
  <2>6. QED
    BY <2>1, <2>3, <2>4, <2>5 DEF LogArrives, NarrateLog
<1>3. QED
  BY <1>1, <1>2

\* Every step keeps the clocks.
LEMMA StepFeed == FeedInv /\ [Next]_vars => FeedInv'
<1> SUFFICES ASSUME FeedInv, [Next]_vars PROVE FeedInv'
  OBVIOUS
<1> USE DEF FeedInv
<1>1. ASSUME NEW c \in Craft, NEW f \in Frames, FrameArrives(c, f)
      PROVE  FeedInv'
  <2>1. PICK head \in 1..2 : \E later \in -head..2 * Len(Found(c, f)) :
            /\ FrameOutcome(c, f, head, later)
            /\ refusals' = IF later = 2 * Len(Found(c, f)) THEN refusals ELSE refusals + 1
    BY <1>1, FrameFacts
  <2>2. PICK later \in -head..2 * Len(Found(c, f)) :
            /\ FrameOutcome(c, f, head, later)
            /\ refusals' = IF later = 2 * Len(Found(c, f)) THEN refusals ELSE refusals + 1
    BY <2>1
  <2>3. clock' = clock /\ ticks' = [ticks EXCEPT ![c] = @ + 1]
    BY <1>1, FrameFacts
  <2> DEFINE out == IF later < 0 THEN <<>> ELSE OnBus(Found(c, f), later)
  <2>4. NarrateFrame(c, f, out, clock)
    BY <2>2 DEF FrameOutcome
  <2> HIDE DEF out
  <2>5. /\ onlineAt' \in [Craft -> 0..clock \cup {Never}]
        /\ lastAnomalyAt' \in [Craft -> [Metric -> 0..clock \cup {Never}]]
    <3>1. clock \in 0..clock \cup {Never}
      OBVIOUS
    <3>2. onlineAt' = [onlineAt EXCEPT ![c] = IF @ = Never THEN clock ELSE @]
      BY <2>4 DEF NarrateFrame
    <3>3. lastAnomalyAt' = [lastAnomalyAt EXCEPT ![c] = [m \in DOMAIN @ |->
               IF m \in Alerts(c, out, clock) THEN clock ELSE @[m]]]
      BY <2>4 DEF NarrateFrame
    <3> DEFINE Times == 0..clock \cup {Never}
               alerts == Alerts(c, out, clock)
    <3> HIDE DEF Times, alerts
    <3>4. onlineAt' \in [Craft -> Times]
      BY <3>1, <3>2 DEF Times
    <3>5. [m \in DOMAIN lastAnomalyAt[c] |-> IF m \in alerts THEN clock ELSE lastAnomalyAt[c][m]]
              \in [Metric -> Times]
      BY <3>1 DEF Times
    <3>6. lastAnomalyAt' \in [Craft -> [Metric -> Times]]
      BY <3>3, <3>5 DEF Times, alerts
    <3>7. QED
      BY <3>4, <3>6 DEF Times
  <2>6. refusals' \in Nat
    BY <2>2
  <2>7. ticks' \in [Craft -> Nat]
    BY <2>3
  <2>8. 0..clock' = 0..clock /\ clock' \in Nat
    BY <2>3
  <2> HIDE DEF FeedInv
  <2>9. QED
    BY <2>5, <2>6, <2>7, <2>8, Zenon DEF FeedInv
<1>2. ASSUME NEW c \in Craft, NEW type, LogArrives(c, type)
      PROVE  FeedInv'
  <2>1. refusals' = refusals \/ refusals' = refusals + 1
    BY <1>2, LogFacts
  <2>2. UNCHANGED <<onlineAt, lastAnomalyAt, clock, ticks>>
    BY <1>2, LogFacts
  <2>3. QED
    BY <2>1, <2>2
<1>3. CASE Tick
  <2>1. 0..clock \subseteq 0..clock'
    BY <1>3 DEF Tick
  <2>2. QED
    BY <1>3, <2>1 DEF Tick
<1>4. ASSUME NEW c \in Craft, CraftRestarts(c)
      PROVE  FeedInv'
  BY <1>4 DEF CraftRestarts, narrator
<1>5. CASE UNCHANGED vars
  BY <1>5 DEF vars, narrator, feed
<1>6. QED
  BY <1>1, <1>2, <1>3, <1>4, <1>5 DEF Next

\* Every step keeps the windows.
LEMMA StepWindows == FeedInv /\ WindowInv /\ [Next]_vars => WindowInv'
<1> SUFFICES ASSUME FeedInv, WindowInv, [Next]_vars PROVE WindowInv'
  OBVIOUS
<1>1. ASSUME UNCHANGED <<window, wins>>, refusals' = refusals \/ refusals' = refusals + 1
      PROVE  WindowInv'
  <2>1. 0..refusals \subseteq 0..refusals'
    BY <1>1 DEF FeedInv
  <2>2. QED
    BY <1>1, <2>1 DEF WindowInv, InStep
<1>2. ASSUME NEW c \in Craft, NEW f \in Frames, FrameArrives(c, f)
      PROVE  WindowInv'
  <2>1. PICK head \in 1..2 : \E later \in -head..2 * Len(Found(c, f)) :
            /\ FrameOutcome(c, f, head, later)
            /\ refusals' = IF later = 2 * Len(Found(c, f)) THEN refusals ELSE refusals + 1
    BY <1>2, FrameFacts
  <2>2. PICK later \in -head..2 * Len(Found(c, f)) :
            /\ FrameOutcome(c, f, head, later)
            /\ refusals' = IF later = 2 * Len(Found(c, f)) THEN refusals ELSE refusals + 1
    BY <2>1
  <2>3. Len(Found(c, f)) \in Nat
    BY <1>2, FrameFacts
  <2>4. refusals' = refusals \/ refusals' = refusals + 1
    BY <2>2
  <2>5. CASE later < 0
    <3>1. UNCHANGED <<window, wins>>
      BY <2>2, <2>5 DEF FrameOutcome
    <3>2. QED
      BY <1>1, <2>4, <3>1
  <2>6. CASE ~(later < 0)
    <3> DEFINE last == LastMetric(Found(c, f), later)
    <3>1. Observe(c, f) /\ Sampled(c, f, last)
      BY <2>2, <2>6 DEF FrameOutcome
    <3>2. later \in 0..2 * Len(Found(c, f))
      BY <2>3, <2>6
    <3>3. last \in 0..Len(METRICS) /\ (later = 2 * Len(Found(c, f)) => last = Len(METRICS))
      BY <3>2, LastMetricFacts
    <3>4. refusals' = refusals => last = Len(METRICS)
      BY <2>2, <3>3 DEF FeedInv
    <3> HIDE DEF last
    <3>5. wins' \in [Craft -> Seq(Samples)] /\ \A d \in Craft : Len(wins'[d]) <= WINDOW
      BY <3>1, ObservedFacts
    <3>6. InStep'
      BY <2>4, <3>1, <3>3, <3>4, SampledInStep
    <3>7. /\ window' \in [Craft -> [Metric -> Seq(Int)]]
          /\ \A d \in Craft : d # c => window'[d] = window[d]
          /\ \A m \in Metric : Len(window'[c][m]) <= WindowSize
      BY <3>1, <3>3, SampledFacts
    <3>8. \A d \in Craft, m \in Metric : Len(window'[d][m]) <= WindowSize
      BY <3>7 DEF WindowInv
    <3>9. QED
      BY <3>5, <3>6, <3>7, <3>8 DEF WindowInv
  <2>7. QED
    BY <2>5, <2>6
<1>3. ASSUME NEW c \in Craft, NEW type, LogArrives(c, type)
      PROVE  WindowInv'
  BY <1>1, <1>3, LogFacts
<1>4. CASE Tick
  BY <1>1, <1>4 DEF Tick
<1>5. ASSUME NEW c \in Craft, CraftRestarts(c)
      PROVE  WindowInv'
  BY <1>1, <1>5 DEF CraftRestarts
<1>6. CASE UNCHANGED vars
  BY <1>1, <1>6 DEF vars, feed
<1>7. QED
  BY <1>2, <1>3, <1>4, <1>5, <1>6 DEF Next

-----------------------------------------------------------------------------
(* Tables *)

AnomalyRows == [craft : Craft, metric : Metric, severity : Severities, observedAt : Nat]
TimelineRows == [craft : Craft, kind : {"anomaly", "log", "mode"}, receivedAt : Nat]
BenchRows == [craft : Craft, ts : Nat]

\* The rows of a craft are as many as the frames it has counted, and the two tables of
\* anomalies grow together, but for the handlers that were stopped.
Counted(c) ==
    /\ Cardinality(Of(bench, c)) \in acked[c] - refusals..acked[c]
    /\ Cardinality(Of(anomalies, c)) - Cardinality(OfKind(c, "anomaly")) \in 0..refusals

TablesInv ==
    /\ anomalies \in Seq(AnomalyRows)
    /\ timeline \in Seq(TimelineRows)
    /\ bench \in Seq(BenchRows)
    /\ acked \in [Craft -> Nat]
    /\ \A c \in Craft : Counted(c)

\* The places behind a table are counted on top of those in it.
LEMMA RowsAdded ==
  ASSUME NEW n \in Nat, NEW k \in Nat, NEW A \in SUBSET (1..n)
  PROVE  /\ Cardinality(A) \in Nat
         /\ Cardinality(A \cup (n + 1..n + k)) = Cardinality(A) + k
<1>1. IsFiniteSet(1..n) /\ IsFiniteSet(n + 1..n + k) /\ Cardinality(n + 1..n + k) = k
  <2>1. IsFiniteSet(1..n) /\ IsFiniteSet(n + 1..n + k)
    BY FS_Interval
  <2>2. Cardinality(n + 1..n + k) = IF n + 1 > n + k THEN 0 ELSE (n + k) - (n + 1) + 1
    BY FS_Interval
  <2>3. QED
    BY <2>1, <2>2
<1>2. IsFiniteSet(A) /\ Cardinality(A) \in Nat
  BY <1>1, FS_Subset, FS_CardinalityType
<1>3. A \cap (n + 1..n + k) = {}
  OBVIOUS
<1>4. Cardinality(A \cup (n + 1..n + k)) = Cardinality(A) + Cardinality(n + 1..n + k) - Cardinality(A \cap (n + 1..n + k))
  BY <1>1, <1>2, FS_Union
<1>5. Cardinality({}) = 0
  BY FS_EmptySet
<1>6. Cardinality(A \cup (n + 1..n + k)) = Cardinality(A) + k - 0
  BY <1>1, <1>3, <1>4, <1>5, Zenon
<1>7. Cardinality(A) + k - 0 = Cardinality(A) + k
  BY <1>2
<1>8. QED
  BY <1>2, <1>6, <1>7, Zenon

\* What the rows s of the craft c, put behind the table t, do to the rows of a craft.
OfMore(T, t, s, c) ==
    /\ t \o s \in Seq(T)
    /\ Cardinality(Of(t, c)) \in Nat
    /\ Cardinality(Of(t \o s, c)) = Cardinality(Of(t, c)) + Len(s)
    /\ \A d : d # c => Of(t \o s, d) = Of(t, d)

LEMMA OfGrows ==
  ASSUME NEW T, NEW t \in Seq(T), NEW s \in Seq(T), NEW c,
         \A i \in 1..Len(s) : s[i].craft = c
  PROVE  OfMore(T, t, s, c)
<1> DEFINE n == Len(t)
           k == Len(s)
           u == t \o s
<1>1. /\ n \in Nat /\ k \in Nat /\ u \in Seq(T) /\ DOMAIN t = 1..n /\ DOMAIN u = 1..n + k
      /\ \A i \in 1..n : u[i] = t[i]
      /\ \A i \in n + 1..n + k : u[i] = s[i - n]
  OBVIOUS
<1> HIDE DEF n, k, u
<1>2. \A i \in n + 1..n + k : u[i].craft = c
  <2>1. \A i \in n + 1..n + k : i - n \in 1..Len(s)
    BY <1>1 DEF k
  <2>2. QED
    BY <1>1, <2>1
<1>3. /\ 1..n + k = (1..n) \cup (n + 1..n + k)
      /\ (1..n) \cap (n + 1..n + k) = {}
  BY <1>1
<1>4. Of(u, c) = Of(t, c) \cup (n + 1..n + k)
  BY <1>1, <1>2, <1>3 DEF Of
<1>5. Of(t, c) \in SUBSET (1..n)
  BY <1>1 DEF Of
<1>6. Cardinality(Of(t, c)) \in Nat /\ Cardinality(Of(u, c)) = Cardinality(Of(t, c)) + k
  <2>1. n \in Nat /\ k \in Nat
    BY <1>1
  <2>2. /\ Cardinality(Of(t, c)) \in Nat
        /\ Cardinality(Of(t, c) \cup (n + 1..n + k)) = Cardinality(Of(t, c)) + k
    BY <1>5, <2>1, RowsAdded, Zenon
  <2>3. QED
    BY <1>4, <2>2, Zenon
<1>7. ASSUME NEW d, d # c PROVE Of(u, d) = Of(t, d)
  BY <1>1, <1>2, <1>3, <1>7 DEF Of
<1>8. QED
  BY <1>1, <1>6, <1>7 DEF OfMore, u, k

\* The places of the rows of one kind.
Kinds(t, c, kind) == {i \in Of(t, c) : t[i].kind = kind}

\* The same of the rows of one kind in the timeline.
KindMore(t, s, c) ==
    /\ Cardinality(Kinds(t, c, "anomaly")) \in Nat
    /\ (\A i \in 1..Len(s) : s[i].kind = "anomaly") =>
           Cardinality(Kinds(t \o s, c, "anomaly")) = Cardinality(Kinds(t, c, "anomaly")) + Len(s)
    /\ (\A i \in 1..Len(s) : s[i].kind # "anomaly") =>
           Kinds(t \o s, c, "anomaly") = Kinds(t, c, "anomaly")
    /\ \A d : d # c => Kinds(t \o s, d, "anomaly") = Kinds(t, d, "anomaly")

LEMMA KindGrows ==
  ASSUME NEW T, NEW t \in Seq(T), NEW s \in Seq(T), NEW c,
         \A i \in 1..Len(s) : s[i].craft = c
  PROVE  KindMore(t, s, c)
<1> DEFINE n == Len(t)
           k == Len(s)
           u == t \o s
           A == Kinds(t, c, "anomaly")
<1>1. /\ n \in Nat /\ k \in Nat /\ DOMAIN t = 1..n /\ DOMAIN u = 1..n + k
      /\ \A i \in 1..n : u[i] = t[i]
      /\ \A i \in n + 1..n + k : u[i] = s[i - n]
  OBVIOUS
<1> HIDE DEF n, k, u
<1>2. \A i \in n + 1..n + k : i - n \in 1..Len(s) /\ u[i].craft = c
  <2>1. \A i \in n + 1..n + k : i - n \in 1..Len(s)
    BY <1>1 DEF k
  <2>2. QED
    BY <1>1, <2>1
<1>3. /\ 1..n + k = (1..n) \cup (n + 1..n + k)
      /\ (1..n) \cap (n + 1..n + k) = {}
  BY <1>1
<1>4. A \in SUBSET (1..n)
  BY <1>1 DEF Kinds, Of
<1>5. Cardinality(A) \in Nat /\ Cardinality(A \cup (n + 1..n + k)) = Cardinality(A) + k
  <2>1. n \in Nat /\ k \in Nat
    BY <1>1
  <2>2. QED
    BY <1>4, <2>1, RowsAdded, Zenon
<1>6. ASSUME \A i \in 1..Len(s) : s[i].kind = "anomaly"
      PROVE  Kinds(u, c, "anomaly") = A \cup (n + 1..n + k)
  <2>1. \A i \in n + 1..n + k : u[i].kind = "anomaly"
    BY <1>1, <1>2, <1>6
  <2>2. QED
    BY <1>1, <1>2, <1>3, <2>1 DEF Kinds, Of
<1>7. ASSUME \A i \in 1..Len(s) : s[i].kind # "anomaly"
      PROVE  Kinds(u, c, "anomaly") = A
  <2>1. \A i \in n + 1..n + k : u[i].kind # "anomaly"
    BY <1>1, <1>2, <1>7
  <2>2. QED
    BY <1>1, <1>2, <1>3, <2>1 DEF Kinds, Of
<1>8. ASSUME NEW d, d # c PROVE Kinds(u, d, "anomaly") = Kinds(t, d, "anomaly")
  BY <1>1, <1>2, <1>3, <1>8 DEF Kinds, Of
<1>9. QED
  BY <1>5, <1>6, <1>7, <1>8 DEF KindMore, u, k

\* What a frame adds to the two tables of anomalies.
Rows(found, taken) == [i \in 1..((taken + 1) \div 2) |-> AnomalyRow(found[i], clock)]
Marks(c, taken) == [i \in 1..(taken \div 2) |-> TimelineRow(c, "anomaly", clock)]

\* An anomaly has its row before its mark, and both when the handler is not stopped.
LEMMA Halves ==
  ASSUME NEW n \in Nat, NEW taken \in 0..2 * n
  PROVE  /\ (taken + 1) \div 2 \in 0..n /\ taken \div 2 \in 0..n
         /\ (taken + 1) \div 2 - taken \div 2 \in 0..1
         /\ taken = 2 * n => (taken + 1) \div 2 = n /\ taken \div 2 = n
  OBVIOUS

RowsOf(c, rows, marks, taken) ==
    /\ rows \in Seq(AnomalyRows) /\ Len(rows) = (taken + 1) \div 2
    /\ \A i \in 1..Len(rows) : rows[i].craft = c
    /\ marks \in Seq(TimelineRows) /\ Len(marks) = taken \div 2
    /\ \A i \in 1..Len(marks) : marks[i].craft = c
    /\ \A i \in 1..Len(marks) : marks[i].kind = "anomaly" /\ marks[i].receivedAt = clock

LEMMA RowsFacts ==
  ASSUME clock \in Nat, NEW c \in Craft, NEW f, NEW taken \in 0..2 * Len(Found(c, f))
  PROVE  RowsOf(c, Rows(Found(c, f), taken), Marks(c, taken), taken)
<1> DEFINE found == Found(c, f)
           a == (taken + 1) \div 2
           b == taken \div 2
<1>1. found \in Seq(Entries) /\ Len(found) \in Nat /\ \A i \in 1..Len(found) : found[i].craft = c
  BY FoundFacts
<1>2. a \in 0..Len(found) /\ b \in 0..Len(found)
  BY <1>1, Halves
<1> HIDE DEF found, a, b
<1>3. \A i \in 1..a : AnomalyRow(found[i], clock) \in AnomalyRows /\ AnomalyRow(found[i], clock).craft = c
  <2> SUFFICES ASSUME NEW i \in 1..a
               PROVE  AnomalyRow(found[i], clock) \in AnomalyRows /\ AnomalyRow(found[i], clock).craft = c
    OBVIOUS
  <2>1. i \in 1..Len(found)
    BY <1>1, <1>2
  <2>2. found[i] \in Entries /\ found[i].craft = c
    BY <1>1, <2>1
  <2>3. QED
    BY <2>2 DEF Entries, AnomalyRow, AnomalyRows
<1>4. TimelineRow(c, "anomaly", clock) \in TimelineRows
  BY DEF TimelineRow, TimelineRows
<1>5. /\ Rows(found, taken) \in Seq(AnomalyRows) /\ Len(Rows(found, taken)) = a
      /\ \A i \in 1..a : Rows(found, taken)[i].craft = c
  <2>1. Rows(found, taken) = [i \in 1..a |-> AnomalyRow(found[i], clock)]
    BY DEF Rows, a
  <2>2. QED
    BY <1>1, <1>2, <1>3, <2>1
<1>6. /\ Marks(c, taken) \in Seq(TimelineRows) /\ Len(Marks(c, taken)) = b
      /\ \A i \in 1..b : Marks(c, taken)[i] = TimelineRow(c, "anomaly", clock)
  <2>1. Marks(c, taken) = [i \in 1..b |-> TimelineRow(c, "anomaly", clock)]
    BY DEF Marks, b
  <2>2. QED
    BY <1>1, <1>2, <1>4, <2>1
<1>7. /\ TimelineRow(c, "anomaly", clock).craft = c /\ TimelineRow(c, "anomaly", clock).kind = "anomaly"
      /\ TimelineRow(c, "anomaly", clock).receivedAt = clock
  BY DEF TimelineRow
<1>8. QED
  BY <1>5, <1>6, <1>7 DEF RowsOf, found, a, b

\* A frame of which the database takes `later' rows behind the head.
FrameRecords(c, f, later) ==
    /\ RecordAnomalies(c, Found(c, f), later)
    /\ bench' = Append(bench, BenchRow(c, ticks'[c]))
    /\ ticks' = [ticks EXCEPT ![c] = @ + 1]
    /\ acked' = [acked EXCEPT ![c] = @ + 1]
    /\ refusals' = IF later = 2 * Len(Found(c, f)) THEN refusals ELSE refusals + 1

\* It keeps the counts.
LEMMA FrameRecorded ==
  ASSUME FeedInv, TablesInv, NEW c \in Craft, NEW f \in Frames,
         NEW later \in 0..2 * Len(Found(c, f)), FrameRecords(c, f, later)
  PROVE  TablesInv'
<1> DEFINE found == Found(c, f)
           rows == Rows(found, later)
           marks == Marks(c, later)
           row == <<BenchRow(c, ticks'[c])>>
<1>1. refusals \in Nat /\ clock \in Nat /\ ticks'[c] \in Nat /\ refusals' \in Nat
  BY DEF FeedInv, FrameRecords
<1>2. Len(found) \in Nat
  BY FoundFacts
<1>3. /\ rows \in Seq(AnomalyRows) /\ Len(rows) = (later + 1) \div 2
      /\ \A i \in 1..Len(rows) : rows[i].craft = c
      /\ marks \in Seq(TimelineRows) /\ Len(marks) = later \div 2
      /\ \A i \in 1..Len(marks) : marks[i].craft = c
      /\ \A i \in 1..Len(marks) : marks[i].kind = "anomaly"
  <2>1. RowsOf(c, rows, marks, later)
    BY <1>1, RowsFacts, Zenon
  <2>2. QED
    BY <2>1, Zenon DEF RowsOf
<1>4. anomalies' = anomalies \o rows /\ timeline' = timeline \o marks
  BY DEF FrameRecords, RecordAnomalies, Rows, Marks
<1>5. row \in Seq(BenchRows) /\ Len(row) = 1 /\ \A i \in 1..Len(row) : row[i].craft = c
  BY <1>1 DEF BenchRow, BenchRows
<1>6. bench' = bench \o row
  <2> DEFINE r == BenchRow(c, ticks'[c])
  <2>1. r \in BenchRows
    BY <1>1 DEF BenchRow, BenchRows
  <2>2. bench \in Seq(BenchRows)
    BY DEF TablesInv
  <2> HIDE DEF r
  <2>3. Append(bench, r) = bench \o <<r>>
    BY <2>1, <2>2
  <2>4. QED
    BY <2>3 DEF FrameRecords, r
<1> HIDE DEF rows, marks, row, found
<1>7. /\ anomalies' \in Seq(AnomalyRows)
      /\ Cardinality(Of(anomalies, c)) \in Nat
      /\ Cardinality(Of(anomalies', c)) = Cardinality(Of(anomalies, c)) + (later + 1) \div 2
      /\ \A d : d # c => Of(anomalies', d) = Of(anomalies, d)
  <2>1. anomalies \in Seq(AnomalyRows)
    BY DEF TablesInv
  <2>2. rows \in Seq(AnomalyRows) /\ \A i \in 1..Len(rows) : rows[i].craft = c
    BY <1>3
  <2>3. OfMore(AnomalyRows, anomalies, rows, c)
    BY <2>1, <2>2, OfGrows, Zenon
  <2>4. QED
    BY <1>3, <1>4, <2>3, Zenon DEF OfMore
<1>8. /\ Cardinality(Kinds(timeline, c, "anomaly")) \in Nat
      /\ Cardinality(Kinds(timeline', c, "anomaly")) = Cardinality(Kinds(timeline, c, "anomaly")) + later \div 2
      /\ \A d : d # c => Kinds(timeline', d, "anomaly") = Kinds(timeline, d, "anomaly")
  <2>1. timeline \in Seq(TimelineRows)
    BY DEF TablesInv
  <2>2. marks \in Seq(TimelineRows) /\ \A i \in 1..Len(marks) : marks[i].craft = c
    BY <1>3
  <2>3. KindMore(timeline, marks, c)
    BY <2>1, <2>2, KindGrows, Zenon
  <2>4. QED
    BY <1>3, <1>4, <2>3, Zenon DEF KindMore
<1>9. /\ bench' \in Seq(BenchRows)
      /\ Cardinality(Of(bench, c)) \in Nat
      /\ Cardinality(Of(bench', c)) = Cardinality(Of(bench, c)) + 1
      /\ \A d : d # c => Of(bench', d) = Of(bench, d)
  <2>1. bench \in Seq(BenchRows)
    BY DEF TablesInv
  <2>2. row \in Seq(BenchRows) /\ \A i \in 1..Len(row) : row[i].craft = c
    BY <1>5
  <2>3. OfMore(BenchRows, bench, row, c)
    BY <2>1, <2>2, OfGrows, Zenon
  <2>4. QED
    BY <1>5, <1>6, <2>3, Zenon DEF OfMore
<1>10. timeline' \in Seq(TimelineRows)
  <2>1. timeline \in Seq(TimelineRows)
    BY DEF TablesInv
  <2>2. QED
    BY <1>3, <1>4, <2>1
<1>11. acked' \in [Craft -> Nat] /\ acked'[c] = acked[c] + 1 /\ \A d \in Craft : d # c => acked'[d] = acked[d]
  BY DEF FrameRecords, TablesInv
<1>12. /\ (later + 1) \div 2 - later \div 2 \in 0..1
       /\ (later + 1) \div 2 \in Nat /\ later \div 2 \in Nat
       /\ later = 2 * Len(found) => (later + 1) \div 2 = later \div 2
  <2>1. later \in 0..2 * Len(found)
    BY DEF found
  <2>2. QED
    BY <1>2, <2>1, Halves
<1>13. refusals' = IF later = 2 * Len(found) THEN refusals ELSE refusals + 1
  BY DEF FrameRecords, found
<1>14. ASSUME NEW d \in Craft
       PROVE  /\ Cardinality(Of(bench', d)) \in acked'[d] - refusals'..acked'[d]
              /\ Cardinality(Of(anomalies', d)) - Cardinality(Kinds(timeline', d, "anomaly")) \in 0..refusals'
  <2>1. /\ Cardinality(Of(bench, d)) \in acked[d] - refusals..acked[d]
        /\ Cardinality(Of(anomalies, d)) - Cardinality(Kinds(timeline, d, "anomaly")) \in 0..refusals
        /\ acked[d] \in Nat
    BY DEF TablesInv, Counted, OfKind, Kinds
  <2>2. refusals \in Nat /\ refusals' \in {refusals, refusals + 1}
    BY <1>1, <1>13
  <2>3. 0..refusals \subseteq 0..refusals'
    BY <2>2
  <2>4. acked[d] - refusals..acked[d] \subseteq acked[d] - refusals'..acked[d]
    BY <2>1, <2>2
  <2>5. CASE d # c
    <3>1. Of(bench', d) = Of(bench, d) /\ Of(anomalies', d) = Of(anomalies, d)
          /\ Kinds(timeline', d, "anomaly") = Kinds(timeline, d, "anomaly") /\ acked'[d] = acked[d]
      BY <1>7, <1>8, <1>9, <1>11, <2>5
    <3>2. QED
      BY <2>1, <2>3, <2>4, <3>1
  <2>6. CASE d = c
    <3>1. \A x \in Nat : x \in acked[d] - refusals..acked[d] => x + 1 \in (acked[d] + 1) - refusals'..acked[d] + 1
      BY <2>1, <2>2
    <3>2. Cardinality(Of(bench', d)) \in acked'[d] - refusals'..acked'[d]
      BY <1>9, <1>11, <2>1, <2>6, <3>1, Zenon
    <3> DEFINE p == (later + 1) \div 2
               q == later \div 2
    <3>3. p - q \in 0..1 /\ p \in Nat /\ q \in Nat /\ (refusals' # refusals + 1 => p = q)
      BY <1>1, <1>12, <1>13
    <3>4. Cardinality(Of(anomalies', d)) = Cardinality(Of(anomalies, d)) + p
          /\ Cardinality(Kinds(timeline', d, "anomaly")) = Cardinality(Kinds(timeline, d, "anomaly")) + q
      BY <1>7, <1>8, <2>6
    <3> HIDE DEF p, q
    <3>5. \A x, y \in Nat : x - y \in 0..refusals => (x + p) - (y + q) \in 0..refusals'
      BY <2>2, <3>3
    <3>6. Cardinality(Of(anomalies', d)) - Cardinality(Kinds(timeline', d, "anomaly")) \in 0..refusals'
      BY <1>7, <1>8, <2>1, <2>6, <3>4, <3>5, Zenon
    <3>7. QED
      BY <3>2, <3>6
  <2>7. QED
    BY <2>5, <2>6
<1>15. \A d \in Craft : Counted(d)'
  BY <1>14 DEF Counted, OfKind, Kinds
<1>16. QED
  BY <1>7, <1>9, <1>10, <1>11, <1>15 DEF TablesInv

\* The rows of a log line are none of an anomaly.
LEMMA LogRowsFacts ==
  ASSUME clock \in Nat, NEW c \in Craft, NEW type, NEW taken \in 0..Len(LogRows(c, type))
  PROVE  LET s == SubSeq(LogRows(c, type), 1, taken)
         IN  /\ s \in Seq(TimelineRows)
             /\ \A i \in 1..Len(s) : s[i].craft = c
             /\ \A i \in 1..Len(s) : s[i].kind # "anomaly"
             /\ \A i \in 1..Len(s) : s[i].receivedAt = clock
<1> DEFINE log == TimelineRow(c, "log", clock)
           mode == TimelineRow(c, "mode", clock)
           q == LogRows(c, type)
           s == SubSeq(q, 1, taken)
<1>1. /\ log \in TimelineRows /\ log.craft = c /\ log.kind # "anomaly" /\ log.receivedAt = clock
      /\ mode \in TimelineRows /\ mode.craft = c /\ mode.kind # "anomaly" /\ mode.receivedAt = clock
  BY DEF TimelineRow, TimelineRows
<1>2. q = <<log>> \o (IF type = "StateChange" THEN <<mode>> ELSE <<>>)
  BY DEF LogRows
<1>3. taken \in 0..Len(q)
  OBVIOUS
<1> HIDE DEF log, mode, q
<1>4. \A x, y \in TimelineRows :
          /\ <<x>> \o <<y>> \in Seq(TimelineRows) /\ Len(<<x>> \o <<y>>) = 2
          /\ (<<x>> \o <<y>>)[1] = x /\ (<<x>> \o <<y>>)[2] = y
          /\ <<x>> \o <<>> \in Seq(TimelineRows) /\ Len(<<x>> \o <<>>) = 1
          /\ (<<x>> \o <<>>)[1] = x
  OBVIOUS
<1>5. q \in Seq(TimelineRows) /\ \A i \in 1..Len(q) : q[i] = log \/ q[i] = mode
  <2>1. CASE type = "StateChange"
    <3>1. q = <<log>> \o <<mode>>
      BY <1>2, <2>1
    <3>2. q \in Seq(TimelineRows) /\ Len(q) = 2 /\ q[1] = log /\ q[2] = mode
      BY <1>1, <1>4, <3>1
    <3>3. QED
      BY <3>2
  <2>2. CASE type # "StateChange"
    <3>1. q = <<log>> \o <<>>
      BY <1>2, <2>2
    <3>2. q \in Seq(TimelineRows) /\ Len(q) = 1 /\ q[1] = log
      BY <1>1, <1>4, <3>1
    <3>3. QED
      BY <3>2
  <2>3. QED
    BY <2>1, <2>2
<1>6. s \in Seq(TimelineRows) /\ Len(s) = taken /\ \A i \in 1..taken : s[i] = q[i]
  BY <1>3, <1>5
<1> HIDE DEF s
<1>7. \A i \in 1..Len(s) : s[i] = log \/ s[i] = mode
  BY <1>3, <1>5, <1>6
<1>8. QED
  BY <1>1, <1>6, <1>7 DEF s, q

\* A step that leaves the tables as they are keeps the counts.
LEMMA TablesKept ==
  ASSUME FeedInv, TablesInv, UNCHANGED <<anomalies, timeline, bench>>,
         \/ acked' = acked /\ refusals' \in {refusals, refusals + 1}
         \/ refusals' = refusals + 1 /\ \E c \in Craft : acked' = [acked EXCEPT ![c] = @ + 1]
  PROVE  TablesInv'
<1>1. refusals \in Nat /\ refusals' \in {refusals, refusals + 1}
  BY DEF FeedInv
<1>2. /\ acked' \in [Craft -> Nat] /\ acked \in [Craft -> Nat]
      /\ \A d \in Craft : acked'[d] = acked[d] \/ (acked'[d] = acked[d] + 1 /\ refusals' = refusals + 1)
  BY <1>1 DEF TablesInv
<1>3. ASSUME NEW d \in Craft
      PROVE  Counted(d)'
  <2>1. /\ Cardinality(Of(bench, d)) \in acked[d] - refusals..acked[d]
        /\ Cardinality(Of(anomalies, d)) - Cardinality(OfKind(d, "anomaly")) \in 0..refusals
        /\ acked[d] \in Nat
    BY <1>2 DEF TablesInv, Counted
  <2>2. 0..refusals \subseteq 0..refusals'
    BY <1>1
  <2>3. acked[d] - refusals..acked[d] \subseteq acked'[d] - refusals'..acked'[d]
    BY <1>1, <1>2, <2>1
  <2>4. Of(bench, d)' = Of(bench, d) /\ Of(anomalies, d)' = Of(anomalies, d)
        /\ OfKind(d, "anomaly")' = OfKind(d, "anomaly")
    BY DEF Of, OfKind
  <2>5. QED
    BY <2>1, <2>2, <2>3, <2>4 DEF Counted
<1>4. QED
  BY <1>2, <1>3 DEF TablesInv

\* A log line keeps the counts.
LEMMA LogKeeps ==
  ASSUME FeedInv, TablesInv, NEW c \in Craft, NEW type, LogArrives(c, type)
  PROVE  TablesInv'
<1>1. /\ refusals' = refusals \/ refusals' = refusals + 1
      /\ UNCHANGED <<acked, anomalies, bench>>
      /\ \/ timeline' = timeline
         \/ \E taken \in 0..Len(LogRows(c, type)) :
               timeline' = timeline \o SubSeq(LogRows(c, type), 1, taken)
  BY LogFacts
<1>2. CASE timeline' = timeline
  BY <1>1, <1>2, TablesKept
<1>3. ASSUME NEW taken \in 0..Len(LogRows(c, type)),
             timeline' = timeline \o SubSeq(LogRows(c, type), 1, taken)
      PROVE  TablesInv'
  <2> DEFINE s == SubSeq(LogRows(c, type), 1, taken)
  <2>1. /\ s \in Seq(TimelineRows)
        /\ \A i \in 1..Len(s) : s[i].craft = c
        /\ \A i \in 1..Len(s) : s[i].kind # "anomaly"
    BY LogRowsFacts DEF FeedInv
  <2>2. timeline' = timeline \o s
    BY <1>3
  <2> HIDE DEF s
  <2>3. timeline \in Seq(TimelineRows)
    BY DEF TablesInv
  <2>4. KindMore(timeline, s, c)
    BY <2>1, <2>3, KindGrows, Zenon
  <2>5. \A d : Kinds(timeline', d, "anomaly") = Kinds(timeline, d, "anomaly")
    BY <2>1, <2>2, <2>4, Zenon DEF KindMore
  <2>6. timeline' \in Seq(TimelineRows)
    BY <2>1, <2>2, <2>3
  <2>7. refusals \in Nat /\ refusals' \in {refusals, refusals + 1}
    BY <1>1 DEF FeedInv
  <2>8. ASSUME NEW d \in Craft
        PROVE  Counted(d)'
    <3>1. /\ Cardinality(Of(bench, d)) \in acked[d] - refusals..acked[d]
          /\ Cardinality(Of(anomalies, d)) - Cardinality(Kinds(timeline, d, "anomaly")) \in 0..refusals
          /\ acked[d] \in Nat
      BY DEF TablesInv, Counted, OfKind, Kinds
    <3>2. 0..refusals \subseteq 0..refusals'
      BY <2>7
    <3>3. acked[d] - refusals..acked[d] \subseteq acked[d] - refusals'..acked[d]
      BY <2>7, <3>1
    <3>4. /\ Cardinality(Of(bench', d)) \in acked'[d] - refusals'..acked'[d]
          /\ Cardinality(Of(anomalies', d)) - Cardinality(Kinds(timeline', d, "anomaly")) \in 0..refusals'
      BY <1>1, <2>5, <3>1, <3>2, <3>3
    <3>5. QED
      BY <3>4 DEF Counted, OfKind, Kinds
  <2>9. QED
    BY <1>1, <2>6, <2>8 DEF TablesInv
<1>4. QED
  BY <1>1, <1>2, <1>3

\* Every step keeps the counts.
LEMMA StepTables == FeedInv /\ TablesInv /\ [Next]_vars => TablesInv'
<1> SUFFICES ASSUME FeedInv, TablesInv, [Next]_vars PROVE TablesInv'
  OBVIOUS
<1>1. ASSUME NEW c \in Craft, NEW f \in Frames, FrameArrives(c, f)
      PROVE  TablesInv'
  <2>1. PICK head \in 1..2 : \E later \in -head..2 * Len(Found(c, f)) :
            /\ FrameOutcome(c, f, head, later)
            /\ refusals' = IF later = 2 * Len(Found(c, f)) THEN refusals ELSE refusals + 1
    BY <1>1, FrameFacts
  <2>2. PICK later \in -head..2 * Len(Found(c, f)) :
            /\ FrameOutcome(c, f, head, later)
            /\ refusals' = IF later = 2 * Len(Found(c, f)) THEN refusals ELSE refusals + 1
    BY <2>1
  <2>3. Len(Found(c, f)) \in Nat /\ ticks' = [ticks EXCEPT ![c] = @ + 1]
    BY <1>1, FrameFacts
  <2>4. acked' = IF later >= -1 THEN [acked EXCEPT ![c] = @ + 1] ELSE acked
    BY <2>2 DEF FrameOutcome
  <2>5. CASE later < 0
    <3>1. UNCHANGED <<anomalies, timeline, bench>>
      BY <2>2, <2>5 DEF FrameOutcome
    <3>2. refusals' = refusals + 1
      BY <2>2, <2>3, <2>5
    <3>3. QED
      BY <2>4, <3>1, <3>2, TablesKept
  <2>6. CASE ~(later < 0)
    <3>1. later \in 0..2 * Len(Found(c, f)) /\ later >= -1
      BY <2>3, <2>6
    <3>2. FrameRecords(c, f, later)
      BY <2>2, <2>3, <2>4, <2>6, <3>1 DEF FrameOutcome, FrameRecords
    <3>3. QED
      BY <3>1, <3>2, FrameRecorded
  <2>7. QED
    BY <2>5, <2>6
<1>2. ASSUME NEW c \in Craft, NEW type, LogArrives(c, type)
      PROVE  TablesInv'
  BY <1>2, LogKeeps
<1>3. CASE Tick
  BY <1>3, TablesKept DEF Tick, tables
<1>4. ASSUME NEW c \in Craft, CraftRestarts(c)
      PROVE  TablesInv'
  BY <1>4, TablesKept DEF CraftRestarts, tables
<1>5. CASE UNCHANGED vars
  BY <1>5, TablesKept DEF vars, tables, feed
<1>6. QED
  BY <1>1, <1>2, <1>3, <1>4, <1>5 DEF Next

\* The tables are empty at start.
LEMMA InitTables == Init => TablesInv
<1> SUFFICES ASSUME Init PROVE TablesInv
  OBVIOUS
<1>1. /\ anomalies = <<>> /\ timeline = <<>> /\ bench = <<>>
      /\ acked = [c \in Craft |-> 0] /\ refusals = 0
  BY DEF Init, DatabaseInit
<1>2. \A c \in Craft : Of(bench, c) = {} /\ Of(anomalies, c) = {} /\ OfKind(c, "anomaly") = {}
  BY <1>1 DEF Of, OfKind
<1>3. Cardinality({}) = 0
  BY FS_EmptySet
<1>4. ASSUME NEW c \in Craft PROVE Counted(c)
  <2>1. acked[c] = 0 /\ 0 \in 0 - 0..0 /\ 0 - 0 \in 0..0
    BY <1>1
  <2>2. Cardinality(Of(bench, c)) = 0 /\ Cardinality(Of(anomalies, c)) = 0 /\ Cardinality(OfKind(c, "anomaly")) = 0
    BY <1>2, <1>3
  <2>3. QED
    BY <1>1, <2>1, <2>2 DEF Counted
<1>5. QED
  BY <1>1, <1>4 DEF TablesInv

-----------------------------------------------------------------------------
(* The bus *)

\* The last two conjuncts of OnRecord.
BusInv ==
    /\ \A i \in DOMAIN bus : AnomalyRow(bus[i], clock) \in ToSet(anomalies)
    /\ \A l \in lines : l.tag = "ALERT" =>
           \E i \in DOMAIN bus : bus[i].craft = l.craft /\ bus[i].metric = l.about

\* What a frame puts on the bus is recorded.
LEMMA OutRecorded ==
  ASSUME FeedInv, TablesInv, NEW c \in Craft, NEW f, NEW later \in 0..2 * Len(Found(c, f)),
         RecordAnomalies(c, Found(c, f), later)
  PROVE  \A i \in DOMAIN OnBus(Found(c, f), later) :
            AnomalyRow(OnBus(Found(c, f), later)[i], clock) \in ToSet(anomalies')
<1> DEFINE found == Found(c, f)
           rows == Rows(found, later)
<1>1. found \in Seq(Entries) /\ Len(found) \in Nat
  BY FoundFacts
<1>2. CASE later = 2 * Len(found)
  <2>1. OnBus(found, later) = found /\ (later + 1) \div 2 = Len(found)
    BY <1>1, <1>2, Halves DEF OnBus
  <2>2. rows = [i \in 1..Len(found) |-> AnomalyRow(found[i], clock)]
    BY <2>1 DEF Rows
  <2>3. rows \in Seq(AnomalyRows)
    <3>1. RowsOf(c, rows, Marks(c, later), later)
      BY RowsFacts, Zenon DEF FeedInv
    <3>2. QED
      BY <3>1 DEF RowsOf
  <2>4. anomalies' = anomalies \o rows /\ anomalies \in Seq(AnomalyRows)
    BY DEF RecordAnomalies, Rows, TablesInv
  <2> HIDE DEF rows, found
  <2>5. Len(rows) = Len(found) /\ \A i \in 1..Len(found) : rows[i] = AnomalyRow(found[i], clock)
    BY <1>1, <2>2
  <2>6. ASSUME NEW i \in 1..Len(found)
        PROVE  AnomalyRow(found[i], clock) \in ToSet(anomalies')
    <3>1. Len(anomalies) \in Nat /\ DOMAIN anomalies' = 1..Len(anomalies) + Len(rows)
      <4>1. \A s, t \in Seq(AnomalyRows) : Len(s) \in Nat /\ DOMAIN (s \o t) = 1..Len(s) + Len(t)
        OBVIOUS
      <4>2. QED
        BY <2>3, <2>4, <4>1, Zenon
    <3>2. Len(anomalies) + i \in DOMAIN anomalies' /\ anomalies'[Len(anomalies) + i] = rows[i]
      BY <1>1, <2>3, <2>4, <2>5, <3>1
    <3>3. QED
      BY <2>5, <3>2, Zenon DEF ToSet
  <2>7. DOMAIN found = 1..Len(found)
    BY <1>1
  <2>8. QED
    BY <2>1, <2>6, <2>7 DEF found
<1>3. CASE later # 2 * Len(found)
  BY <1>3 DEF OnBus
<1>4. QED
  BY <1>2, <1>3

\* An alert is about an anomaly on the bus.
LEMMA AlertsAreOut ==
  ASSUME NEW c \in Craft, NEW f, NEW out, out = Found(c, f) \/ out = <<>>, NarrateFrame(c, f, out, clock)
  PROVE  \A l \in lines' : l.tag = "ALERT" =>
            \E i \in DOMAIN out : out[i].craft = l.craft /\ out[i].metric = l.about
<1> SUFFICES ASSUME NEW l \in lines', l.tag = "ALERT"
             PROVE  \E i \in DOMAIN out : out[i].craft = l.craft /\ out[i].metric = l.about
  OBVIOUS
<1>1. lines' = FrameLines(c, f) \cup {Line("ALERT", c, m) : m \in Alerts(c, out, clock)}
  BY DEF NarrateFrame
<1>2. l \notin FrameLines(c, f)
  <2>1. \A mode : ModeTag(mode) # "ALERT"
    BY DEF ModeTag
  <2>2. QED
    BY <2>1 DEF FrameLines, Line
<1>3. PICK m \in Alerts(c, out, clock) : l = Line("ALERT", c, m)
  BY <1>1, <1>2
<1>4. PICK a \in ToSet(out) : m = a.metric
  BY <1>3 DEF Alerts
<1>5. PICK i \in DOMAIN out : out[i] = a
  BY <1>4 DEF ToSet
<1>6. out[i].craft = c
  <2>1. out = Found(c, f)
    OBVIOUS
  <2>2. DOMAIN Found(c, f) = 1..Len(Found(c, f)) /\ \A k \in 1..Len(Found(c, f)) : Found(c, f)[k].craft = c
    BY FoundFacts
  <2>3. QED
    BY <2>1, <2>2
<1>7. l.craft = c /\ l.about = m
  BY <1>3 DEF Line
<1>8. QED
  BY <1>4, <1>5, <1>6, <1>7

\* Every step leaves on the bus, and prints as an alert, only what is on record.
LEMMA StepBus == FeedInv /\ TablesInv /\ BusInv /\ [Next]_vars => BusInv'
<1> SUFFICES ASSUME FeedInv, TablesInv, BusInv, [Next]_vars PROVE BusInv'
  OBVIOUS
<1>1. ASSUME NEW c \in Craft, NEW f \in Frames, FrameArrives(c, f)
      PROVE  BusInv'
  <2>1. PICK head \in 1..2 : \E later \in -head..2 * Len(Found(c, f)) : FrameOutcome(c, f, head, later)
    BY <1>1, FrameFacts
  <2>2. PICK later \in -head..2 * Len(Found(c, f)) : FrameOutcome(c, f, head, later)
    BY <2>1
  <2>3. Len(Found(c, f)) \in Nat /\ clock' = clock
    BY <1>1, FrameFacts
  <2> DEFINE out == IF later < 0 THEN <<>> ELSE OnBus(Found(c, f), later)
  <2>4. bus' = out /\ NarrateFrame(c, f, out, clock)
    BY <2>2 DEF FrameOutcome
  <2>5. out = Found(c, f) \/ out = <<>>
    BY DEF OnBus
  <2>6. \A i \in DOMAIN out : AnomalyRow(out[i], clock) \in ToSet(anomalies')
    <3>1. CASE later < 0
      BY <3>1
    <3>2. CASE ~(later < 0)
      <4>1. later \in 0..2 * Len(Found(c, f)) /\ RecordAnomalies(c, Found(c, f), later)
        BY <2>2, <2>3, <3>2 DEF FrameOutcome
      <4>2. out = OnBus(Found(c, f), later)
        BY <3>2
      <4> HIDE DEF out
      <4>3. QED
        BY <4>1, <4>2, OutRecorded
    <3>3. QED
      BY <3>1, <3>2
  <2> HIDE DEF out
  <2>7. \A l \in lines' : l.tag = "ALERT" =>
            \E i \in DOMAIN out : out[i].craft = l.craft /\ out[i].metric = l.about
    BY <2>4, <2>5, AlertsAreOut
  <2>8. QED
    BY <2>3, <2>4, <2>6, <2>7 DEF BusInv
<1>2. ASSUME NEW c \in Craft, NEW type, LogArrives(c, type)
      PROVE  BusInv'
  <2>1. bus' = <<>> /\ \A l \in lines' : l.tag # "ALERT"
    BY <1>2, LogFacts
  <2>2. QED
    BY <2>1 DEF BusInv
<1>3. CASE Tick
  BY <1>3 DEF Tick, BusInv
<1>4. CASE UNCHANGED <<bus, lines, anomalies, clock>>
  BY <1>4 DEF BusInv
<1>5. ASSUME NEW c \in Craft, CraftRestarts(c)
      PROVE  BusInv'
  BY <1>4, <1>5 DEF CraftRestarts, tables, narrator
<1>6. CASE UNCHANGED vars
  BY <1>4, <1>6 DEF vars, tables, narrator, feed
<1>7. QED
  BY <1>1, <1>2, <1>3, <1>5, <1>6 DEF Next

\* Nothing is on the bus at start.
LEMMA InitBus == Init => BusInv
  BY DEF Init, NarratorInit, BusInv

-----------------------------------------------------------------------------
(* Queries *)

\* The place of a row in the answer to a query.
Rank(t, c, key, i) == Cardinality(UpTo(t, c, key, i))

\* The rows of a craft have different places, the first ones that there are.
Ranked(t, c, key) ==
    /\ Cardinality(Of(t, c)) \in Nat
    /\ \A i \in Of(t, c) : Rank(t, c, key, i) \in 1..Cardinality(Of(t, c))
    /\ \A i \in Of(t, c) : \A j \in UpTo(t, c, key, i) : j # i => Rank(t, c, key, j) < Rank(t, c, key, i)
    /\ \A k \in 1..Cardinality(Of(t, c)) : \E i \in Of(t, c) : Rank(t, c, key, i) = k

LEMMA RanksFacts ==
  ASSUME NEW t, NEW n \in Nat, DOMAIN t = 1..n, NEW c, NEW key,
         \A i \in Of(t, c) : t[i][key] \in Nat
  PROVE  Ranked(t, c, key)
<1> DEFINE O == Of(t, c)
           U(i) == UpTo(t, c, key, i)
           R(i) == Cardinality(U(i))
           N == Cardinality(O)
<1>1. IsFiniteSet(O) /\ N \in Nat /\ O \subseteq Nat
  <2>1. O \in SUBSET (1..n) /\ IsFiniteSet(1..n)
    BY FS_Interval DEF Of
  <2>2. IsFiniteSet(O)
    BY <2>1, FS_Subset, Zenon
  <2>3. QED
    BY <2>1, <2>2, FS_CardinalityType
<1>2. \A i \in O : U(i) \in SUBSET O /\ i \in U(i)
  BY <1>1 DEF UpTo
<1>3. \A i \in O : \A j \in U(i) : j # i => i \notin U(j) /\ U(j) \subseteq U(i)
  <2> SUFFICES ASSUME NEW i \in O, NEW j \in U(i), j # i
               PROVE  i \notin U(j) /\ U(j) \subseteq U(i)
    OBVIOUS
  <2>1. j \in O /\ (t[j][key] > t[i][key] \/ (t[j][key] = t[i][key] /\ j >= i))
    BY DEF UpTo
  <2>2. t[i][key] \in Nat /\ t[j][key] \in Nat /\ i \in Nat /\ j \in Nat
    BY <1>1, <2>1
  <2>3. i \notin U(j)
    BY <2>1, <2>2 DEF UpTo
  <2>4. ASSUME NEW k \in U(j) PROVE k \in U(i)
    <3>1. k \in O /\ (t[k][key] > t[j][key] \/ (t[k][key] = t[j][key] /\ k >= j))
      BY DEF UpTo
    <3>2. t[k][key] \in Nat /\ k \in Nat
      BY <1>1, <3>1
    <3>3. t[k][key] > t[i][key] \/ (t[k][key] = t[i][key] /\ k >= i)
      BY <2>1, <2>2, <3>1, <3>2
    <3>4. QED
      BY <3>1, <3>3 DEF UpTo
  <2>5. QED
    BY <2>3, <2>4
<1>4. \A i, j \in O : i = j \/ i \in U(j) \/ j \in U(i)
  BY <1>1 DEF UpTo
<1> HIDE DEF O, U
<1>5. ASSUME NEW i \in O
      PROVE  IsFiniteSet(U(i)) /\ R(i) \in 1..N
  <2>1. IsFiniteSet(U(i)) /\ R(i) <= N
    BY <1>1, <1>2, FS_Subset
  <2>2. IsFiniteSet(U(i) \ {i}) /\ Cardinality(U(i) \ {i}) = R(i) - 1
    BY <1>2, <2>1, FS_RemoveElement
  <2>3. R(i) \in Nat /\ Cardinality(U(i) \ {i}) \in Nat
    BY <2>1, <2>2, FS_CardinalityType
  <2>4. R(i) # 0
    BY <2>2, <2>3
  <2>5. QED
    BY <1>1, <2>1, <2>3, <2>4
<1>6. ASSUME NEW i \in O, NEW j \in U(i), j # i
      PROVE  R(j) < R(i)
  <2>1. U(j) \in SUBSET (U(i) \ {i})
    BY <1>3, <1>6
  <2>2. IsFiniteSet(U(i) \ {i}) /\ Cardinality(U(i) \ {i}) = R(i) - 1
    BY <1>2, <1>5, FS_RemoveElement
  <2>3. R(j) <= Cardinality(U(i) \ {i})
    BY <2>1, <2>2, FS_Subset
  <2>4. j \in O
    BY <1>2
  <2>5. R(i) \in Nat /\ R(j) \in Nat
    BY <1>1, <1>5, <2>4
  <2>6. QED
    BY <2>2, <2>3, <2>5
<1>7. \A k \in 1..N : \E i \in O : R(i) = k
  <2> DEFINE rank == [i \in O |-> R(i)]
  <2>1. rank \in [O -> 1..N]
    BY <1>5
  <2>2. ASSUME NEW i \in O, NEW j \in O, R(i) = R(j) PROVE i = j
    <3>1. R(i) \in Nat
      BY <1>1, <1>5
    <3>2. ~(R(i) < R(j)) /\ ~(R(j) < R(i))
      BY <2>2, <3>1
    <3>3. QED
      BY <1>4, <1>6, <3>2
  <2>3. rank \in Injection(O, 1..N)
    BY <2>1, <2>2 DEF Injection, IsInjective
  <2>4. IsFiniteSet(1..N) /\ Cardinality(1..N) = N
    <3> HIDE DEF N
    <3>1. IsFiniteSet(1..N) /\ Cardinality(1..N) = IF 1 > N THEN 0 ELSE N - 1 + 1
      BY <1>1, FS_Interval
    <3>2. QED
      BY <1>1, <3>1
  <2>5. rank \in Surjection(O, 1..N)
    BY <2>3, <2>4, FS_Injection
  <2>6. QED
    BY <2>5 DEF Surjection
<1>8. QED
  BY <1>1, <1>5, <1>6, <1>7 DEF Ranked, Rank, O, U

\* The answer to a query leaves out no row whose key is larger than one it shows.
LEMMA NoneLeftOut ==
  ASSUME NEW t, NEW n \in Nat, DOMAIN t = 1..n, NEW c, NEW key,
         \A i \in Of(t, c) : t[i][key] \in Nat, NEW limit \in Nat,
         NEW i \in Of(t, c), t[i] \notin ToSet(Newest(t, c, key, limit)),
         NEW shown \in ToSet(Newest(t, c, key, limit))
  PROVE  shown[key] >= t[i][key]
<1> DEFINE N == Cardinality(Of(t, c))
           size == IF N < limit THEN N ELSE limit
           At(k) == CHOOSE j \in Of(t, c) : Rank(t, c, key, j) = k
           answer == [k \in 1..size |-> t[At(k)]]
<1>1. Ranked(t, c, key)
  BY RanksFacts, Zenon
<1>2. Newest(t, c, key, limit) = answer
  BY DEF Newest, Rank
<1>3. N \in Nat /\ size \in 0..N
  BY <1>1 DEF Ranked
<1> HIDE DEF size, N
<1>4. \A k \in 1..size : At(k) \in Of(t, c) /\ Rank(t, c, key, At(k)) = k
  <2>1. \A k \in 1..N : \E j \in Of(t, c) : Rank(t, c, key, j) = k
    BY <1>1 DEF Ranked, N
  <2>2. QED
    BY <1>3, <2>1
<1> HIDE DEF At
<1>5. ToSet(answer) = {t[At(k)] : k \in 1..size}
  BY DEF ToSet
<1> HIDE DEF answer
<1>6. PICK k \in 1..size : shown = t[At(k)]
  BY <1>2, <1>5
<1> DEFINE j == At(k)
<1>7. j \in Of(t, c) /\ Rank(t, c, key, j) = k
  BY <1>4
<1>8. SUFFICES ASSUME i \in UpTo(t, c, key, j)
               PROVE  FALSE
  <2>1. i \notin UpTo(t, c, key, j)
    BY <1>8
  <2>2. ~(t[i][key] > t[j][key])
    BY <2>1 DEF UpTo
  <2>3. QED
    BY <1>6, <1>7, <2>2
<1>9. i # j
  BY <1>2, <1>5, <1>6
<1>10. Rank(t, c, key, i) < k /\ Rank(t, c, key, i) \in 1..N
  BY <1>1, <1>7, <1>8, <1>9 DEF Ranked, N
<1> DEFINE r == Rank(t, c, key, i)
           l == At(r)
<1>11. r \in 1..size
  BY <1>3, <1>10
<1>12. l \in Of(t, c) /\ Rank(t, c, key, l) = r
  BY <1>4, <1>11
<1>13. l = i
  <2>1. i \in Nat /\ l \in Nat /\ t[i][key] \in Nat /\ t[l][key] \in Nat
    BY <1>12 DEF Of
  <2>2. l = i \/ l \in UpTo(t, c, key, i) \/ i \in UpTo(t, c, key, l)
    BY <1>12, <2>1 DEF UpTo
  <2>3. ~(r < r)
    BY <1>11
  <2>4. QED
    BY <1>1, <1>12, <2>2, <2>3 DEF Ranked
<1>14. QED
  BY <1>2, <1>5, <1>11, <1>13

\* The rows of a craft are in the order of a key that is not larger than top.
Ordered(t, c, key, top) ==
    \A i \in Of(t, c) :
        /\ t[i][key] \in Nat /\ t[i][key] <= top
        /\ \A j \in Of(t, c) : i <= j => t[i][key] <= t[j][key]

\* The answer to a query then begins with the last row.
LEMMA LastComesFirst ==
  ASSUME NEW t, NEW n \in Nat, DOMAIN t = 1..n, NEW c, NEW key, NEW top \in Nat,
         Ordered(t, c, key, top), Of(t, c) # {}, NEW limit \in Nat, limit # 0
  PROVE  Newest(t, c, key, limit)[1] = t[Max(Of(t, c))]
<1> DEFINE O == Of(t, c)
           m == Max(O)
           N == Cardinality(O)
<1>1. O \subseteq 1..n
  BY DEF Of
<1>2. m \in O /\ \A i \in O : m >= i
  <2> DEFINE S == {n - i : i \in O}
  <2>1. S \in SUBSET Nat /\ S # {}
    BY <1>1
  <2>2. PICK s \in S : \A x \in S : s <= x
    BY <2>1, LeastElement
  <2>3. PICK i \in O : s = n - i
    OBVIOUS
  <2>4. \A k \in O : i >= k
    <3> SUFFICES ASSUME NEW k \in O PROVE i >= k
      OBVIOUS
    <3>1. n - i <= n - k
      BY <2>2, <2>3
    <3>2. QED
      BY <1>1, <3>1
  <2> HIDE DEF O
  <2>5. \E x \in O : \A y \in O : x >= y
    BY <2>4
  <2>6. QED
    BY <2>5 DEF Max
<1>3. Ranked(t, c, key) /\ \A i \in O : t[i][key] \in Nat
  <2>1. \A i \in Of(t, c) : t[i][key] \in Nat
    BY DEF Ordered
  <2>2. QED
    BY <2>1, RanksFacts, Zenon
<1> HIDE DEF m
<1>4. UpTo(t, c, key, m) = {m}
  <2>1. m \in UpTo(t, c, key, m)
    BY <1>1, <1>2 DEF UpTo
  <2>2. ASSUME NEW j \in UpTo(t, c, key, m) PROVE j = m
    <3>1. j \in O /\ (t[j][key] > t[m][key] \/ (t[j][key] = t[m][key] /\ j >= m))
      BY DEF UpTo
    <3>2. m >= j /\ j \in Nat /\ m \in Nat
      BY <1>1, <1>2, <3>1
    <3>3. t[j][key] <= t[m][key]
      BY <1>2, <3>1, <3>2 DEF Ordered
    <3>4. QED
      BY <1>2, <1>3, <3>1, <3>2, <3>3
  <2>3. QED
    BY <2>1, <2>2
<1>5. Rank(t, c, key, m) = 1
  BY <1>4, FS_Singleton DEF Rank
<1>6. N \in Nat /\ 1 <= N
  BY <1>2, <1>3, <1>5 DEF Ranked
<1> DEFINE first == CHOOSE i \in Of(t, c) : Rank(t, c, key, i) = 1
<1>7. Newest(t, c, key, limit)[1] = t[first]
  <2> DEFINE size == IF N < limit THEN N ELSE limit
  <2>1. Newest(t, c, key, limit) = [k \in 1..size |-> t[CHOOSE i \in Of(t, c) : Rank(t, c, key, i) = k]]
    BY DEF Newest, Rank
  <2>2. 1 \in 1..size
    BY <1>6
  <2> HIDE DEF size
  <2>3. QED
    BY <2>1, <2>2
<1>8. first \in O /\ Rank(t, c, key, first) = 1
  BY <1>2, <1>5
<1> HIDE DEF first
<1>9. first = m
  <2>1. first \in UpTo(t, c, key, m) \/ m \in UpTo(t, c, key, first)
    <3>1. first \in Nat /\ m \in Nat /\ t[first][key] \in Nat /\ t[m][key] \in Nat
      BY <1>1, <1>2, <1>3, <1>8
    <3>2. QED
      BY <1>2, <1>8, <3>1 DEF UpTo
  <2>2. QED
    BY <1>2, <1>3, <1>5, <1>8, <2>1 DEF Ranked
<1>10. QED
  BY <1>7, <1>9 DEF m

\* Rows that come later keep the order.
LEMMA OrderGrows ==
  ASSUME NEW T, NEW t \in Seq(T), NEW s \in Seq(T), NEW c, NEW key,
         NEW top \in Nat, NEW now \in Nat, top <= now, Ordered(t, c, key, top),
         \A i \in 1..Len(s) : s[i].craft = c => s[i][key] = now
  PROVE  Ordered(t \o s, c, key, now)
<1> DEFINE n == Len(t)
           k == Len(s)
           u == t \o s
<1>1. /\ n \in Nat /\ k \in Nat /\ DOMAIN t = 1..n /\ DOMAIN u = 1..n + k
      /\ \A i \in 1..n : u[i] = t[i]
      /\ \A i \in n + 1..n + k : u[i] = s[i - n]
  OBVIOUS
<1> HIDE DEF n, k, u
<1>2. \A i \in n + 1..n + k : u[i].craft = c => u[i][key] = now
  <2>1. \A i \in n + 1..n + k : i - n \in 1..Len(s)
    BY <1>1 DEF k
  <2>2. QED
    BY <1>1, <2>1
<1>3. \A i \in Of(u, c) : \/ i \in Of(t, c) /\ u[i] = t[i] /\ i \in 1..n
                          \/ i \in n + 1..n + k /\ u[i][key] = now
  <2> SUFFICES ASSUME NEW i \in Of(u, c)
               PROVE  \/ i \in Of(t, c) /\ u[i] = t[i] /\ i \in 1..n
                      \/ i \in n + 1..n + k /\ u[i][key] = now
    OBVIOUS
  <2>1. i \in 1..n + k /\ u[i].craft = c
    BY <1>1 DEF Of
  <2>2. CASE i \in 1..n
    <3>1. u[i] = t[i] /\ i \in DOMAIN t
      BY <1>1, <2>2
    <3>2. i \in Of(t, c)
      BY <2>1, <3>1 DEF Of
    <3>3. QED
      BY <2>2, <3>1, <3>2
  <2>3. CASE i \in n + 1..n + k
    BY <1>2, <2>1, <2>3
  <2>4. QED
    BY <1>1, <2>1, <2>2, <2>3
<1>4. \A i \in Of(u, c) : u[i][key] \in Nat /\ u[i][key] <= now
  BY <1>3 DEF Ordered
<1>5. ASSUME NEW i \in Of(u, c), NEW j \in Of(u, c), i <= j
      PROVE  u[i][key] <= u[j][key]
  <2>1. CASE j \in n + 1..n + k /\ u[j][key] = now
    BY <1>4, <2>1
  <2>2. CASE j \in Of(t, c) /\ u[j] = t[j] /\ j \in 1..n
    <3>1. i \in Of(t, c) /\ u[i] = t[i]
      <4>1. ~(i \in n + 1..n + k)
        BY <1>1, <1>5, <2>2
      <4>2. QED
        BY <1>3, <4>1
    <3>2. QED
      BY <1>5, <2>2, <3>1 DEF Ordered
  <2>3. QED
    BY <1>3, <2>1, <2>2
<1>6. QED
  BY <1>4, <1>5 DEF Ordered, u

\* The rows of a craft come in the order of the clock, and the benchmarks in that of its
\* ticks until they begin again.
TimesInv ==
    /\ restarts \in [Craft -> Nat]
    /\ \A c \in Craft : Ordered(timeline, c, "receivedAt", clock)
    /\ \A c \in Craft : restarts[c] = 0 => Ordered(bench, c, "ts", ticks[c])

\* A frame keeps the order.
LEMMA FrameOrdered ==
  ASSUME FeedInv, TablesInv, TimesInv, NEW c \in Craft, NEW f \in Frames, FrameArrives(c, f)
  PROVE  TimesInv'
<1>1. PICK head \in 1..2 : \E later \in -head..2 * Len(Found(c, f)) :
          /\ FrameOutcome(c, f, head, later)
          /\ refusals' = IF later = 2 * Len(Found(c, f)) THEN refusals ELSE refusals + 1
  BY FrameFacts
<1>2. PICK later \in -head..2 * Len(Found(c, f)) : FrameOutcome(c, f, head, later)
  BY <1>1
<1>3. /\ UNCHANGED <<clock, restarts>> /\ ticks' = [ticks EXCEPT ![c] = @ + 1]
      /\ Len(Found(c, f)) \in Nat
  BY FrameFacts
<1>4. /\ clock \in Nat /\ ticks \in [Craft -> Nat] /\ ticks'[c] = ticks[c] + 1
      /\ \A d \in Craft : d # c => ticks'[d] = ticks[d]
      /\ \A d \in Craft : ticks[d] \in Nat /\ ticks'[d] \in Nat /\ ticks[d] <= ticks'[d]
  BY <1>3 DEF FeedInv
<1>5. timeline \in Seq(TimelineRows) /\ bench \in Seq(BenchRows)
  BY DEF TablesInv
<1>6. CASE later < 0
  <2>1. UNCHANGED <<timeline, bench>>
    BY <1>2, <1>6 DEF FrameOutcome
  <2>2. ASSUME NEW d \in Craft, restarts[d] = 0
        PROVE  Ordered(bench, d, "ts", ticks'[d])
    <3>1. Ordered(bench, d, "ts", ticks[d])
      BY <2>2 DEF TimesInv
    <3>2. bench \o <<>> = bench /\ <<>> \in Seq(BenchRows) /\ Len(<<>>) = 0
      BY <1>5
    <3>3. Ordered(bench \o <<>>, d, "ts", ticks'[d])
      <4>1. \A i \in 1..Len(<<>>) : <<>>[i].craft = d => <<>>[i]["ts"] = ticks'[d]
        BY <3>2
      <4>2. QED
        BY <1>4, <1>5, <3>1, <3>2, <4>1, OrderGrows
    <3>4. QED
      BY <3>2, <3>3
  <2>3. QED
    BY <1>3, <2>1, <2>2 DEF TimesInv
<1>7. CASE ~(later < 0)
  <2> DEFINE marks == Marks(c, later)
             row == <<BenchRow(c, ticks'[c])>>
  <2>1. later \in 0..2 * Len(Found(c, f))
    BY <1>3, <1>7
  <2>2. marks \in Seq(TimelineRows) /\ \A i \in 1..Len(marks) : marks[i]["receivedAt"] = clock
    <3>1. RowsOf(c, Rows(Found(c, f), later), marks, later)
      BY <1>4, <2>1, RowsFacts, Zenon
    <3>2. QED
      BY <3>1 DEF RowsOf
  <2>3. timeline' = timeline \o marks
    BY <1>2, <1>7 DEF FrameOutcome, RecordAnomalies, Marks
  <2>4. row \in Seq(BenchRows) /\ Len(row) = 1 /\ row[1].craft = c /\ row[1]["ts"] = ticks'[c]
    BY <1>4 DEF BenchRow, BenchRows
  <2>5. bench' = bench \o row
    <3> DEFINE r == BenchRow(c, ticks'[c])
    <3>1. r \in BenchRows
      BY <1>4 DEF BenchRow, BenchRows
    <3> HIDE DEF r
    <3>2. Append(bench, r) = bench \o <<r>>
      BY <1>5, <3>1
    <3>3. QED
      BY <1>2, <1>7, <3>2 DEF FrameOutcome, r
  <2> HIDE DEF marks, row
  <2>6. ASSUME NEW d \in Craft
        PROVE  Ordered(timeline', d, "receivedAt", clock')
    <3>1. Ordered(timeline, d, "receivedAt", clock)
      BY DEF TimesInv
    <3>2. \A i \in 1..Len(marks) : marks[i].craft = d => marks[i]["receivedAt"] = clock
      BY <2>2
    <3>3. clock <= clock
      BY <1>4
    <3>4. Ordered(timeline \o marks, d, "receivedAt", clock)
      BY <1>4, <1>5, <2>2, <3>1, <3>2, <3>3, OrderGrows
    <3>5. QED
      BY <1>3, <2>3, <3>4
  <2>7. ASSUME NEW d \in Craft, restarts[d] = 0
        PROVE  Ordered(bench', d, "ts", ticks'[d])
    <3>1. Ordered(bench, d, "ts", ticks[d])
      BY <2>7 DEF TimesInv
    <3>2. \A i \in 1..Len(row) : row[i].craft = d => row[i]["ts"] = ticks'[d]
      BY <2>4
    <3>3. ticks[d] \in Nat /\ ticks'[d] \in Nat /\ ticks[d] <= ticks'[d]
      BY <1>4
    <3>4. Ordered(bench \o row, d, "ts", ticks'[d])
      BY <1>5, <2>4, <3>1, <3>2, <3>3, OrderGrows
    <3>5. QED
      BY <2>5, <3>4
  <2>8. QED
    BY <1>3, <2>6, <2>7 DEF TimesInv
<1>8. QED
  BY <1>6, <1>7

\* A log line keeps the order.
LEMMA LogOrdered ==
  ASSUME FeedInv, TablesInv, TimesInv, NEW c \in Craft, NEW type, LogArrives(c, type)
  PROVE  TimesInv'
<1>1. /\ UNCHANGED <<clock, ticks, bench>>
      /\ \/ timeline' = timeline
         \/ \E taken \in 0..Len(LogRows(c, type)) :
               timeline' = timeline \o SubSeq(LogRows(c, type), 1, taken)
  BY LogFacts
<1>2. restarts' = restarts
  BY DEF LogArrives
<1>3. CASE timeline' = timeline
  BY <1>1, <1>2, <1>3 DEF TimesInv
<1>4. ASSUME NEW taken \in 0..Len(LogRows(c, type)),
             timeline' = timeline \o SubSeq(LogRows(c, type), 1, taken)
      PROVE  TimesInv'
  <2> DEFINE s == SubSeq(LogRows(c, type), 1, taken)
  <2>1. clock \in Nat /\ clock <= clock /\ timeline \in Seq(TimelineRows)
    BY DEF FeedInv, TablesInv
  <2>2. s \in Seq(TimelineRows) /\ \A i \in 1..Len(s) : s[i]["receivedAt"] = clock
    BY <2>1, LogRowsFacts
  <2>3. timeline' = timeline \o s
    BY <1>4
  <2> HIDE DEF s
  <2>4. ASSUME NEW d \in Craft
        PROVE  Ordered(timeline', d, "receivedAt", clock')
    <3>1. Ordered(timeline, d, "receivedAt", clock)
      BY DEF TimesInv
    <3>2. \A i \in 1..Len(s) : s[i].craft = d => s[i]["receivedAt"] = clock
      BY <2>2
    <3>3. Ordered(timeline \o s, d, "receivedAt", clock)
      BY <2>1, <2>2, <3>1, <3>2, OrderGrows
    <3>4. QED
      BY <1>1, <2>3, <3>3
  <2>5. QED
    BY <1>1, <1>2, <2>4 DEF TimesInv
<1>5. QED
  BY <1>1, <1>3, <1>4

\* Every step keeps the order.
LEMMA StepTimes == FeedInv /\ TablesInv /\ TimesInv /\ [Next]_vars => TimesInv'
<1> SUFFICES ASSUME FeedInv, TablesInv, TimesInv, [Next]_vars PROVE TimesInv'
  OBVIOUS
<1>1. ASSUME NEW c \in Craft, NEW f \in Frames, FrameArrives(c, f)
      PROVE  TimesInv'
  BY <1>1, FrameOrdered
<1>2. ASSUME NEW c \in Craft, NEW type, LogArrives(c, type)
      PROVE  TimesInv'
  BY <1>2, LogOrdered
<1>3. CASE Tick
  <2>1. clock \in Nat /\ clock' = clock + 1 /\ UNCHANGED <<timeline, bench, ticks, restarts>>
    BY <1>3 DEF Tick, FeedInv, tables
  <2>2. ASSUME NEW d \in Craft PROVE Ordered(timeline, d, "receivedAt", clock')
    <3>1. Ordered(timeline, d, "receivedAt", clock)
      BY DEF TimesInv
    <3>2. QED
      BY <2>1, <3>1 DEF Ordered
  <2>3. QED
    BY <2>1, <2>2 DEF TimesInv
<1>4. ASSUME NEW c \in Craft, CraftRestarts(c)
      PROVE  TimesInv'
  <2>1. /\ UNCHANGED <<timeline, bench, clock>>
        /\ restarts' = [restarts EXCEPT ![c] = @ + 1] /\ ticks' = [ticks EXCEPT ![c] = 0]
    BY <1>4 DEF CraftRestarts, tables
  <2>2. restarts' \in [Craft -> Nat] /\ restarts'[c] # 0
        /\ \A d \in Craft : d # c => restarts'[d] = restarts[d] /\ ticks'[d] = ticks[d]
    BY <2>1 DEF TimesInv, FeedInv
  <2>3. ASSUME NEW d \in Craft, restarts'[d] = 0 PROVE Ordered(bench, d, "ts", ticks'[d])
    <3>1. d # c
      BY <2>2, <2>3
    <3>2. restarts[d] = 0 /\ ticks'[d] = ticks[d]
      BY <2>2, <2>3, <3>1
    <3>3. QED
      BY <3>2 DEF TimesInv
  <2>4. QED
    BY <2>1, <2>2, <2>3 DEF TimesInv
<1>5. CASE UNCHANGED vars
  BY <1>5 DEF vars, tables, feed, TimesInv
<1>6. QED
  BY <1>1, <1>2, <1>3, <1>4, <1>5 DEF Next

\* No row is there at start.
LEMMA InitTimes == Init => TimesInv
<1> SUFFICES ASSUME Init PROVE TimesInv
  OBVIOUS
<1>1. timeline = <<>> /\ bench = <<>> /\ restarts = [c \in Craft |-> 0]
  BY DEF Init, DatabaseInit
<1>2. \A c \in Craft : Of(timeline, c) = {} /\ Of(bench, c) = {}
  BY <1>1 DEF Of
<1>3. QED
  BY <1>1, <1>2 DEF TimesInv, Ordered

-----------------------------------------------------------------------------
(* Theorems *)

IngestInv == FeedInv /\ WindowInv /\ TablesInv /\ BusInv /\ TimesInv

LEMMA Inductive == Spec => []IngestInv
<1>1. Init => IngestInv
  BY InitWindows, InitTables, InitBus, InitTimes DEF IngestInv
<1>2. IngestInv /\ [Next]_vars => IngestInv'
  BY StepFeed, StepWindows, StepTables, StepBus, StepTimes DEF IngestInv
<1>3. QED
  BY <1>1, <1>2, PTL DEF Spec

\* The windows, the ages of the narrator and the rows of the benchmark are those the code
\* takes them for: no window is longer than its limit, those of a craft are in step with
\* one another, and a craft has a row for every frame it has counted, but for what the
\* database has refused (analyzeFrame of anomaly.ts and recordFrameAck of db.ts).
THEOREM TypeCorrect == Spec => []TypeOK
<1>1. IngestInv => TypeOK
  BY DEF IngestInv, FeedInv, WindowInv, InStep, TablesInv, Counted, TypeOK
<1>2. QED
  BY <1>1, Inductive, PTL

\* An anomaly is on record before the bus, the dashboard or an alert tells of it, and the
\* anomalies and the timeline differ by no more than the handlers that were stopped
\* (analyzeFrame of anomaly.ts and index.ts of the backend).
THEOREM ToldIsOnRecord == Spec => []OnRecord
<1>1. IngestInv => OnRecord
  BY DEF IngestInv, TablesInv, Counted, BusInv, OnRecord
<1>2. QED
  BY <1>1, Inductive, PTL

\* For any limits, the report of a craft begins with its last event, and leaves out no
\* anomaly that is newer and no benchmark with a higher tick than one it shows.  Until
\* the craft restarts, and with tables that start empty, it begins with the last benchmark
\* too; after a restart, or over rows of an earlier run, it need not (buildReport of
\* report.ts, queries of db.ts).
THEOREM ReportsAreFresh == Spec => []ReportIsFresh
<1>1. IngestInv => ReportIsFresh
  <2> SUFFICES ASSUME IngestInv, NEW c \in Craft
               PROVE  LET r == Report(c)
                          events == Of(timeline, c)
                          runs == Of(bench, c)
                      IN  /\ events # {} => r.events[1].receivedAt = timeline[Max(events)].receivedAt
                          /\ \A i \in Of(anomalies, c) : anomalies[i] \notin ToSet(r.anomalies) =>
                                \A shown \in ToSet(r.anomalies) : shown.observedAt >= anomalies[i].observedAt
                          /\ \A i \in runs : bench[i] \notin ToSet(r.bench) =>
                                \A shown \in ToSet(r.bench) : shown.ts >= bench[i].ts
                          /\ runs # {} /\ restarts[c] = 0 => r.bench[1] = bench[Max(runs)]
    BY Zenon DEF ReportIsFresh
  <2>1. /\ timeline \in Seq(TimelineRows) /\ anomalies \in Seq(AnomalyRows) /\ bench \in Seq(BenchRows)
        /\ clock \in Nat /\ ticks[c] \in Nat
        /\ Ordered(timeline, c, "receivedAt", clock)
        /\ restarts[c] = 0 => Ordered(bench, c, "ts", ticks[c])
    BY DEF IngestInv, FeedInv, TablesInv, TimesInv
  <2>2. /\ ReportAnomalies \in Nat /\ ReportEvents \in Nat /\ ReportEvents # 0
        /\ ReportBench \in Nat /\ ReportBench # 0
    BY DatabaseAssumption
  <2>3. /\ Report(c).events = Newest(timeline, c, "receivedAt", ReportEvents)
        /\ Report(c).anomalies = Newest(anomalies, c, "observedAt", ReportAnomalies)
        /\ Report(c).bench = Newest(bench, c, "ts", ReportBench)
    BY DEF Report, QueryTimeline, QueryAnomalies, QueryBenchmarkSeries
  <2>4. /\ DOMAIN timeline = 1..Len(timeline) /\ Len(timeline) \in Nat
        /\ DOMAIN anomalies = 1..Len(anomalies) /\ Len(anomalies) \in Nat
        /\ DOMAIN bench = 1..Len(bench) /\ Len(bench) \in Nat
    BY <2>1
  <2>5. ASSUME Of(timeline, c) # {}
        PROVE  Newest(timeline, c, "receivedAt", ReportEvents)[1] = timeline[Max(Of(timeline, c))]
    BY <2>1, <2>2, <2>4, <2>5, LastComesFirst
  <2>6. ASSUME NEW i \in Of(anomalies, c), anomalies[i] \notin ToSet(Report(c).anomalies),
               NEW shown \in ToSet(Report(c).anomalies)
        PROVE  shown.observedAt >= anomalies[i].observedAt
    <3>1. \A j \in Of(anomalies, c) : anomalies[j]["observedAt"] \in Nat
      <4>1. \A j \in DOMAIN anomalies : anomalies[j] \in AnomalyRows
        BY <2>1
      <4>2. QED
        BY <4>1 DEF AnomalyRows, Of
    <3>2. shown["observedAt"] >= anomalies[i]["observedAt"]
      BY <2>2, <2>3, <2>4, <2>6, <3>1, NoneLeftOut
    <3>3. QED
      BY <3>2
  <2>7. ASSUME Of(bench, c) # {}, restarts[c] = 0
        PROVE  Newest(bench, c, "ts", ReportBench)[1] = bench[Max(Of(bench, c))]
    BY <2>1, <2>2, <2>4, <2>7, LastComesFirst
  <2>8. ASSUME NEW i \in Of(bench, c), bench[i] \notin ToSet(Report(c).bench),
               NEW shown \in ToSet(Report(c).bench)
        PROVE  shown.ts >= bench[i].ts
    <3>1. \A j \in Of(bench, c) : bench[j]["ts"] \in Nat
      <4>1. \A j \in DOMAIN bench : bench[j] \in BenchRows
        BY <2>1
      <4>2. QED
        BY <4>1 DEF BenchRows, Of
    <3>2. shown["ts"] >= bench[i]["ts"]
      BY <2>2, <2>3, <2>4, <2>8, <3>1, NoneLeftOut
    <3>3. QED
      BY <3>2
  <2>9. QED
    BY <2>3, <2>5, <2>6, <2>7, <2>8
<1>2. QED
  BY <1>1, Inductive, PTL

\* The first move of a flat signal is on the bus, unless the handler is stopped.
LEMMA StepFirstMove == IngestInv /\ [Next]_vars =>
    \A c \in Craft, m \in Metric :
        LET w == window[c][m]
            v == window'[c][m][Len(window'[c][m])]
        IN  /\ received' # received /\ ticks'[c] # ticks[c] /\ refusals' = refusals
            /\ Len(w) >= Warmup /\ Flat(w) /\ v # w[1]
            => \E i \in DOMAIN bus' : bus'[i].metric = m /\ bus'[i].severity = "high"
<1> SUFFICES ASSUME IngestInv, [Next]_vars, NEW c \in Craft, NEW m \in Metric,
                    received' # received, ticks'[c] # ticks[c], refusals' = refusals,
                    Len(window[c][m]) >= Warmup, Flat(window[c][m]),
                    window'[c][m][Len(window'[c][m])] # window[c][m][1]
             PROVE  \E i \in DOMAIN bus' : bus'[i].metric = m /\ bus'[i].severity = "high"
  BY Zenon
<1> USE DEF IngestInv
<1>1. PICK f \in Frames : FrameArrives(c, f)
  <2>1. ASSUME NEW d \in Craft, NEW type, LogArrives(d, type) PROVE FALSE
    BY <2>1, LogFacts
  <2>2. ~Tick /\ ~UNCHANGED vars /\ ~ \E d \in Craft : CraftRestarts(d)
    BY DEF Tick, vars, feed, CraftRestarts
  <2>3. PICK d \in Craft, f \in Frames : FrameArrives(d, f)
    BY <2>1, <2>2 DEF Next
  <2>4. ticks' = [ticks EXCEPT ![d] = @ + 1]
    BY <2>3, FrameFacts
  <2>5. d = c
    BY <2>4 DEF FeedInv
  <2>6. QED
    BY <2>3, <2>5
<1> DEFINE found == Found(c, f)
           w == window[c][m]
<1>2. PICK head \in 1..2 : \E later \in -head..2 * Len(found) :
          /\ FrameOutcome(c, f, head, later)
          /\ refusals' = IF later = 2 * Len(found) THEN refusals ELSE refusals + 1
  BY <1>1, FrameFacts
<1>3. PICK later \in -head..2 * Len(found) :
          /\ FrameOutcome(c, f, head, later)
          /\ refusals' = IF later = 2 * Len(found) THEN refusals ELSE refusals + 1
  BY <1>2
<1>4. found \in Seq(Entries) /\ Len(found) \in Nat
  BY FoundFacts
<1>5. later = 2 * Len(found)
  BY <1>3 DEF FeedInv
<1>6. later \in 0..2 * Len(found) /\ ~(later < 0)
  BY <1>4, <1>5
<1>7. bus' = found /\ Sampled(c, f, LastMetric(found, later))
  BY <1>3, <1>5, <1>6 DEF FrameOutcome, OnBus
<1>8. LastMetric(found, later) = Len(METRICS)
  BY <1>5, <1>6, LastMetricFacts
<1>9. w \in Seq(Int) /\ Len(w) <= WindowSize /\ f[m] \in Int
  BY IngestAssumption DEF WindowInv
<1>10. window'[c][m] = Pushed(w, f[m])
  <2>1. PICK i \in 1..Len(METRICS) : METRICS[i] = m
    BY MetricFacts
  <2>2. Len(METRICS) \in 0..Len(METRICS) /\ i <= Len(METRICS)
    BY MetricFacts
  <2>3. QED
    BY <1>7, <1>8, <2>1, <2>2, SampledFacts
<1>11. f[m] # w[1]
  <2> DEFINE p == Pushed(w, f[m])
             n == IF Len(w) < WindowSize THEN Len(w) + 1 ELSE WindowSize
  <2>1. Len(p) = n /\ p[n] = f[m]
    BY <1>9, PushedFacts
  <2>2. QED
    BY <1>10, <2>1
<1>12. Judged(c, m, f[m]) = "high"
  <2>1. SeverityFor(Pushed(w, f[m]), f[m]) = "high"
    BY <1>9, <1>11, FirstMoveJudged
  <2>2. ~(Len(w) < Warmup)
    BY <1>9, AnomalyAssumption
  <2>3. QED
    BY <2>1, <2>2 DEF Judged
<1>13. PICK i \in 1..Len(found) : found[i] = Entry(c, f, m)
  BY <1>12, FoundFacts
<1>14. i \in DOMAIN found /\ found[i].metric = m /\ found[i].severity = "high"
  BY <1>4, <1>12, <1>13 DEF Entry
<1>15. QED
  BY <1>7, <1>14

\* For every limit that 3.0, 12 and 60 are an example of: a signal that has not moved for
\* the warm-up and then moves, by however little, puts a high anomaly on the bus
\* (severityFor of anomaly.ts).
THEOREM FirstMoveCaught == Spec => FirstMoveIsHigh
<1>1. IngestInv /\ [Next]_vars => [\A c \in Craft, m \in Metric :
        LET w == window[c][m]
            v == window'[c][m][Len(window'[c][m])]
        IN  /\ received' # received /\ ticks'[c] # ticks[c] /\ refusals' = refusals
            /\ Len(w) >= Warmup /\ Flat(w) /\ v # w[1]
            => \E i \in DOMAIN bus' : bus'[i].metric = m /\ bus'[i].severity = "high"]_vars
  BY StepFirstMove, Zenon
<1>2. QED
  BY <1>1, Inductive, PTL DEF Spec, FirstMoveIsHigh
================================================================================
