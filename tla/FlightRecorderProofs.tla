------------------------- MODULE FlightRecorderProofs -------------------------
(***************************************************************************)
(* The black box for any number of writers, any capacity and any width of    *)
(* the counters: its variables keep their types, the mutex keeps everybody   *)
(* apart although tasks are deleted while they hold it, and a dump copies    *)
(* the newest records across every wrap.                                     *)
(***************************************************************************)
EXTENDS FlightRecorder, SequenceTheorems, TLAPS

-----------------------------------------------------------------------------
(* Indices into the ring *)

\* Division with remainder.
LEMMA DivMod ==
  ASSUME NEW n \in Nat, NEW r \in Nat \ {0}
  PROVE  /\ n \div r \in Int
         /\ n % r \in 0..(r - 1)
         /\ n = r * (n \div r) + (n % r)
  OBVIOUS

\* There is no multiple of r strictly between 0 and r.
LEMMA NoMultiple ==
  ASSUME NEW d \in Int, NEW r \in Nat \ {0}, r * d < r, 0 < r * d
  PROVE  FALSE
  <1>1. CASE d <= 0
    BY <1>1
  <1>2. CASE d >= 1
    BY <1>2
  <1> QED BY <1>1, <1>2

\* Positions less than one round apart are different places of the ring.
LEMMA PlacesDiffer ==
  ASSUME NEW r \in Nat \ {0}, NEW m \in Nat, NEW n \in Nat, n < m, m - n < r
  PROVE  n % r # m % r
  <1> SUFFICES ASSUME n % r = m % r PROVE FALSE
    OBVIOUS
  <1> DEFINE a == n \div r
             b == m \div r
  <1>1. /\ a \in Int /\ b \in Int /\ n % r \in Int
        /\ n = r * a + (n % r)
        /\ m = r * b + (n % r)
    BY DivMod
  <1> HIDE DEF a, b
  <1>2. r * (b - a) = r * b - r * a
    BY <1>1
  <1>3. r * a \in Int /\ r * b \in Int /\ b - a \in Int
    BY <1>1
  <1>4. m - n = r * (b - a)
    BY <1>1, <1>2, <1>3
  <1>5. r * (b - a) < r /\ 0 < r * (b - a)
    BY <1>4
  <1> QED BY <1>3, <1>5, NoMultiple

\* The remainder is the only number of its range that differs by a multiple of r.
LEMMA ModUnique ==
  ASSUME NEW r \in Nat \ {0}, NEW q \in Int, NEW x \in 0..(r - 1)
  PROVE  (r * q + x) % r = x
  <1> DEFINE n == r * q + x
             a == n \div r
             y == n % r
  <1>1. n \in Int /\ r * q \in Int
    OBVIOUS
  <1>2. a \in Int /\ y \in 0..(r - 1) /\ n = r * a + y
    BY <1>1
  <1> HIDE DEF a, y
  <1>3. r * (q - a) = r * q - r * a /\ r * (a - q) = r * a - r * q
    BY <1>2
  <1>4. r * a \in Int /\ q - a \in Int /\ a - q \in Int
    BY <1>2
  <1>5. CASE x < y
    <2>1. r * (q - a) < r /\ 0 < r * (q - a)
      BY <1>1, <1>2, <1>3, <1>4, <1>5
    <2>2. QED
      BY <1>4, <2>1, NoMultiple
  <1>6. CASE y < x
    <2>1. r * (a - q) < r /\ 0 < r * (a - q)
      BY <1>1, <1>2, <1>3, <1>4, <1>6
    <2>2. QED
      BY <1>4, <2>1, NoMultiple
  <1> QED BY <1>2, <1>5, <1>6 DEF y

\* A counter of width w, a multiple of the ring's length r, points to the same place as
\* the number of all steps n, also j steps back and past zero.
LEMMA WrappedPlace ==
  ASSUME NEW r \in Nat \ {0}, NEW w \in Nat \ {0}, w % r = 0, NEW n \in Nat, NEW j \in Nat, j <= n
  PROVE  (((n % w) - j) % w) % r = (n - j) % r
  <1> DEFINE m == w \div r
             a == n \div w
             h == n % w
             b == (h - j) \div w
             s == (h - j) % w
             d == s \div r
             t == s % r
  <1>1. m \in Int /\ w = r * m
    BY DivMod
  <1>2. a \in Int /\ h \in 0..(w - 1) /\ n = w * a + h
    BY DivMod
  <1>3. b \in Int /\ s \in 0..(w - 1) /\ h - j = w * b + s
    BY <1>2
  <1>4. d \in Int /\ t \in 0..(r - 1) /\ s = r * d + t
    BY <1>3, DivMod
  <1>5. n - j = w * (a + b) + r * d + t
    <2> HIDE DEF m, a, h, b, s, d, t
    <2>1. w * (a + b) = w * a + w * b
      BY <1>2, <1>3
    <2>2. w * a \in Int /\ w * b \in Int /\ r * d \in Int
      BY <1>2, <1>3, <1>4
    <2>3. QED
      BY <1>2, <1>3, <1>4, <2>1, <2>2
  <1>6. n - j = r * (m * (a + b) + d) + t
    <2> HIDE DEF m, a, h, b, s, d, t
    <2>1. w * (a + b) = r * (m * (a + b))
      <3> DEFINE c == a + b
      <3>1. c \in Int
        BY <1>2, <1>3
      <3> HIDE DEF c
      <3>2. w * c = r * (m * c)
        BY <1>1, <3>1
      <3>3. QED
        BY <3>2 DEF c
    <2>2. m * (a + b) \in Int
      BY <1>1, <1>2, <1>3
    <2> DEFINE e == m * (a + b)
    <2> HIDE DEF e
    <2>3. r * (e + d) = r * e + r * d
      BY <1>4, <2>2 DEF e
    <2>4. QED
      BY <1>5, <2>1, <2>3 DEF e
  <1>7. m * (a + b) + d \in Int
    <2> HIDE DEF m, a, b, d
    <2>1. QED
      BY <1>1, <1>2, <1>3, <1>4
  <1> HIDE DEF m, a, h, b, s, d, t
  <1>8. (n - j) % r = t
    BY <1>4, <1>6, <1>7, ModUnique
  <1> QED BY <1>8 DEF t, s, h

\* One step on: the counter wraps as the number of all steps does.
LEMMA WrappedNext ==
  ASSUME NEW w \in Nat \ {0}, NEW n \in Nat
  PROVE  ((n % w) + 1) % w = (n + 1) % w
  <1> DEFINE a == n \div w
             h == n % w
             b == (h + 1) \div w
             s == (h + 1) % w
  <1>1. a \in Int /\ h \in 0..(w - 1) /\ n = w * a + h
    BY DivMod
  <1>2. b \in Int /\ s \in 0..(w - 1) /\ h + 1 = w * b + s
    BY <1>1, DivMod
  <1> HIDE DEF a, h, b, s
  <1>3. w * (a + b) = w * a + w * b
    BY <1>1, <1>2
  <1>4. w * a \in Int /\ w * b \in Int /\ a + b \in Int /\ w * (a + b) \in Int
    BY <1>1, <1>2
  <1>5. n + 1 = w * (a + b) + s
    BY <1>1, <1>2, <1>3, <1>4
  <1>6. (n + 1) % w = s
    BY <1>2, <1>4, <1>5, ModUnique
  <1> QED BY <1>6 DEF s, h

\* A remainder is at most the number itself, and is the number below the divisor.
LEMMA ModAtMost ==
  ASSUME NEW n \in Nat, NEW w \in Nat \ {0}
  PROVE  n % w \in Nat /\ n % w <= n /\ (n < w => n % w = n)
  <1> DEFINE a == n \div w
             h == n % w
  <1>1. a \in Int /\ h \in 0..(w - 1) /\ n = w * a + h
    BY DivMod
  <1>2. n < w => h = n
    OBVIOUS
  <1> HIDE DEF a, h
  <1>3. CASE a >= 0
    <2>1. w * a >= 0 /\ w * a \in Int
      BY <1>1, <1>3
    <2>2. QED
      BY <1>1, <1>2, <2>1 DEF h
  <1>4. CASE a < 0
    <2>1. w * a <= 0 - w /\ w * a \in Int
      BY <1>1, <1>4
    <2>2. QED
      BY <1>1, <2>1
  <1> QED BY <1>1, <1>3, <1>4

-----------------------------------------------------------------------------
(* Types and the mutex *)

Busy == {"tag", "text", "count"}

\* A writer that has entered will not write more records than the bound.
Bounded ==
    /\ Len(written) <= MaxRecords
    /\ \A w \in Writers : wpc[w] \in Busy => Len(written) < MaxRecords

IInv == TypeOK /\ OneInside /\ Bounded

\* What a writer writes has the type of a field.
LEMMA ContentType ==
    ASSUME IInv, NEW w \in Writers
    PROVE  Content(w) \in Contents
  BY RecorderAssumption DEF IInv, Bounded, TypeOK, Content, Contents

\* The index of the write and of the copy is a slot of the ring.
LEMMA SlotType ==
    ASSUME IInv
    PROVE  head % Capacity \in Slots /\ \A i \in Nat : SlotOf(i) \in Slots
<1>1. \A x \in Int : x % Capacity \in Slots
  BY RecorderAssumption DEF Slots
<1>2. \A i \in Nat : (head - 1 - i) % Wrap \in Int
  BY RecorderAssumption DEF IInv, TypeOK
<1>3. head \in Int
  BY RecorderAssumption DEF IInv, TypeOK
<1>4. QED
  BY <1>1, <1>2, <1>3 DEF SlotOf

\* The recorder starts empty and unlocked.
LEMMA InitInv == Init => IInv
  BY RecorderAssumption
     DEF Init, IInv, TypeOK, OneInside, Bounded, Busy, Slots, Contents

\* A step of a writer keeps the invariant.
LEMMA RecordInv ==
    ASSUME IInv, NEW w \in Writers, Record(w)
    PROVE  IInv'
<1> USE RecorderAssumption DEF IInv, Busy
<1>1. CASE RecordTake(w)
  <2>1. TypeOK'
    BY <1>1 DEF TypeOK, RecordTake
  <2>2. OneInside'
    BY <1>1 DEF TypeOK, OneInside, RecordTake
  <2>3. Bounded'
    BY <1>1 DEF TypeOK, Bounded, RecordTake
  <2>4. QED
    BY <2>1, <2>2, <2>3
<1>2. CASE RecordTag(w)
  <2>1. TypeOK'
    BY <1>2, ContentType, SlotType DEF TypeOK, RecordTag
  <2>2. OneInside' /\ Bounded'
    BY <1>2 DEF TypeOK, OneInside, Bounded, RecordTag
  <2>3. QED
    BY <2>1, <2>2
<1>3. CASE RecordText(w)
  <2>1. TypeOK'
    BY <1>3, ContentType, SlotType DEF TypeOK, RecordText
  <2>2. OneInside' /\ Bounded'
    BY <1>3 DEF TypeOK, OneInside, Bounded, RecordText
  <2>3. QED
    BY <2>1, <2>2
<1>4. CASE RecordCount(w)
  <2>1. /\ written' \in Seq(Contents)
        /\ Len(written') = Len(written) + 1
    BY <1>4, ContentType DEF TypeOK, RecordCount
  <2>2. head' \in 0..(Wrap - 1) /\ total' \in 0..(Wrap - 1)
    BY <1>4 DEF TypeOK, RecordCount
  <2>3. TypeOK'
    BY <1>4, <2>1, <2>2 DEF TypeOK, RecordCount
  <2>4. OneInside'
    BY <1>4 DEF TypeOK, OneInside, RecordCount
  <2>5. \A v \in Writers : wpc'[v] \notin Busy
    BY <1>4 DEF TypeOK, OneInside, RecordCount
  <2>6. Bounded'
    BY <1>4, <2>1, <2>5 DEF TypeOK, Bounded, RecordCount
  <2>7. QED
    BY <2>3, <2>4, <2>6
<1>5. CASE RecordGive(w)
  BY <1>5 DEF TypeOK, OneInside, Bounded, RecordGive
<1>6. QED
  BY <1>1, <1>2, <1>3, <1>4, <1>5 DEF Record

\* The deletion of a task keeps the invariant.
LEMMA DeleteInv ==
    ASSUME IInv, NEW w \in Writers, Delete(w)
    PROVE  IInv'
  BY RecorderAssumption DEF IInv, Busy, TypeOK, OneInside, Bounded, Delete

\* A step of the reader keeps the invariant.
LEMMA DumpInv ==
    ASSUME IInv, Dump
    PROVE  IInv'
<1> USE RecorderAssumption DEF IInv, Busy
<1>1. CASE DumpTake
  BY <1>1 DEF TypeOK, OneInside, Bounded, DumpTake
<1>2. CASE DumpTimeout
  BY <1>2 DEF TypeOK, OneInside, Bounded, DumpTimeout
<1>3. CASE DumpCopy
  <2> DEFINE Rec == [tag : Contents \cup {Empty}, text : Contents \cup {Empty}]
  <2>1. out \in Seq(Rec) /\ ring \in [Slots -> Rec] /\ Len(out) \in Nat
    BY DEF TypeOK
  <2>2. ring[SlotOf(Len(out))] \in Rec
    BY <2>1, SlotType
  <2>3. out' = Append(out, ring[SlotOf(Len(out))]) \/ out' = out
    BY <1>3 DEF DumpCopy
  <2>4. out' \in Seq(Rec)
    <3> HIDE DEF Rec
    <3>1. QED
      BY <2>1, <2>2, <2>3
  <2>5. QED
    BY <1>3, <2>4 DEF TypeOK, OneInside, Bounded, DumpCopy
<1>4. CASE DumpGive
  BY <1>4 DEF TypeOK, OneInside, Bounded, DumpGive
<1>5. QED
  BY <1>1, <1>2, <1>3, <1>4 DEF Dump

\* No step of a writer, of the reader or of the watchdog breaks the invariant.
LEMMA StepInv == IInv /\ [Next]_vars => IInv'
<1> SUFFICES ASSUME IInv, [Next]_vars PROVE IInv'
  OBVIOUS
<1>1. CASE UNCHANGED vars
  BY <1>1 DEF vars, IInv, TypeOK, OneInside, Bounded
<1>2. CASE Next
  BY <1>2, RecordInv, DeleteInv, DumpInv DEF Next
<1>3. QED
  BY <1>1, <1>2

\* The invariant holds in every state.
THEOREM Invariance == Spec => []IInv
  BY InitInv, StepInv, PTL DEF Spec

\* Every index stays inside the ring and every counter inside its width.
THEOREM TypeCorrect == Spec => []TypeOK
<1>1. IInv => TypeOK
  BY DEF IInv
<1>2. QED
  BY <1>1, Invariance, PTL

\* Two writers never fill a record together, and none does during a dump.
THEOREM MutexSafe == Spec => []OneInside
<1>1. IInv => OneInside
  BY DEF IInv
<1>2. QED
  BY <1>1, Invariance, PTL

-----------------------------------------------------------------------------
(* The content of the ring and of a dump *)

\* Nobody is filling the slot of the next record.
Clean == owner \in {Reader, Nobody} \/ (owner \in Writers /\ wpc[owner] \in {"tag", "give"})

\* The two counters count the records, and the ring holds the newest ones, each as its
\* writer meant it; the oldest of them only until its slot is filled again.
Counters == head = Len(written) % Wrap /\ total = Len(written) % Wrap

Intact ==
    \A k \in 1..Len(written) :
        \/ Len(written) - k < Capacity - 1
        \/ Len(written) - k = Capacity - 1 /\ Clean
        => ring[(k - 1) % Capacity] = Whole(written[k])

\* A writer that is not deleted leaves no field of its record out.
Half ==
    \A w \in Writers :
        LET slot == ring[Len(written) % Capacity]
        IN  /\ wpc[w] = "text" => slot.tag = Content(w)
            /\ wpc[w] = "count" => slot = Whole(Content(w))

\* The dump has got the newest records so far.
Copied ==
    rpc # "out" =>
        /\ count = IF total < Capacity THEN total ELSE Capacity
        /\ Len(out) <= count
        /\ rpc = "give" => Len(out) = count
        /\ \A i \in 1..Len(out) : out[i] = Whole(written[Len(written) + 1 - i])

RingInv == Counters /\ Intact /\ Half /\ Copied

\* The wrapping head leads to the same slot as the number of records.
LEMMA HeadPlace ==
    \A n \in Nat : \A j \in 0..n :
        (((n % Wrap) - j) % Wrap) % Capacity = (n - j) % Capacity
<1>1. Capacity \in Nat \ {0} /\ Wrap \in Nat \ {0} /\ Wrap % Capacity = 0
  BY RecorderAssumption
<1>2. ASSUME NEW n \in Nat, NEW j \in 0..n
      PROVE  (((n % Wrap) - j) % Wrap) % Capacity = (n - j) % Capacity
  <2>1. j \in Nat /\ j <= n
    OBVIOUS
  <2>2. \A m \in Nat : \A i \in Nat :
            i <= m => (((m % Wrap) - i) % Wrap) % Capacity = (m - i) % Capacity
    BY <1>1, WrappedPlace, Zenon
  <2>3. QED
    BY <2>1, <2>2, Zenon
<1>3. QED
  BY <1>2

\* The record that is being written is the only one that is damaged, and the counters
\* lead to all others.
LEMMA Places ==
    ASSUME IInv, Counters
    PROVE  /\ Len(written) \in Nat
           /\ head % Capacity = Len(written) % Capacity
           /\ \A k \in Nat : k % Capacity \in Slots
           /\ \A i \in 0..(Len(written) - 1) : SlotOf(i) = (Len(written) - 1 - i) % Capacity
<1>1. Len(written) \in Nat
  BY DEF IInv, TypeOK
<1>2. head % Capacity = Len(written) % Capacity
  <2>1. head \in Nat /\ head < Wrap
    BY RecorderAssumption DEF IInv, TypeOK
  <2>2. head % Wrap = head
    BY <2>1, RecorderAssumption, ModAtMost
  <2>3. (((Len(written) % Wrap) - 0) % Wrap) % Capacity = (Len(written) - 0) % Capacity
    <3>1. 0 \in 0..Len(written)
      BY <1>1
    <3>2. QED
      BY <1>1, <3>1, HeadPlace, Zenon
  <2>4. head - 0 = head /\ Len(written) - 0 = Len(written)
    BY <1>1, <2>1
  <2>5. QED
    BY <2>2, <2>3, <2>4 DEF Counters
<1>3. \A k \in Nat : k % Capacity \in Slots
  BY RecorderAssumption DEF Slots
<1>4. ASSUME NEW i \in 0..(Len(written) - 1)
      PROVE  SlotOf(i) = (Len(written) - 1 - i) % Capacity
  <2>1. i + 1 \in 0..Len(written)
    BY <1>1
  <2>2. (((Len(written) % Wrap) - (i + 1)) % Wrap) % Capacity
            = (Len(written) - (i + 1)) % Capacity
    BY <1>1, <2>1, HeadPlace, Zenon
  <2>3. head \in Int /\ head - 1 - i = head - (i + 1)
        /\ Len(written) - 1 - i = Len(written) - (i + 1)
    BY <1>1, RecorderAssumption DEF IInv, TypeOK
  <2>4. QED
    BY <2>2, <2>3 DEF Counters, SlotOf
<1>5. QED
  BY <1>1, <1>2, <1>3, <1>4

\* An empty recorder has all its records.
LEMMA InitRing == Init => RingInv
  BY RecorderAssumption DEF Init, RingInv, Counters, Intact, Half, Copied

\* Only the owner fills a field, so that nobody reads meanwhile.
LEMMA RecordRing ==
    ASSUME IInv, RingInv, NEW w \in Writers, Record(w)
    PROVE  RingInv'
<1> DEFINE n == Len(written)
           p == n % Capacity
<1>1. n \in Nat /\ head % Capacity = p /\ p \in Slots
  BY Places DEF RingInv
<1>2. wpc[w] # "out" => owner = w /\ rpc = "out"
  BY RecorderAssumption DEF IInv, OneInside, Record, RecordTake, RecordTag, RecordText,
                            RecordCount, RecordGive
<1>3. CASE RecordTake(w)
  <2>1. UNCHANGED <<ring, head, total, rpc, count, out, written>> /\ Clean
    BY <1>3 DEF RecordTake, Clean
  <2>2. Half'
    BY <1>3, <2>1 DEF RecordTake, RingInv, Half, IInv, TypeOK, Content
  <2>3. QED
    BY <2>1, <2>2 DEF RingInv, Counters, Intact, Copied
<1>4. ASSUME NEW r, RecordTag(w) \/ RecordText(w),
             ring' = [ring EXCEPT ![p] = r]
      PROVE  Intact'
  <2>1. written' = written /\ owner' = w /\ wpc'[w] \in {"text", "count"}
    BY <1>2, <1>4 DEF RecordTag, RecordText, IInv, TypeOK
  <2>2. ~Clean'
    BY <2>1, RecorderAssumption DEF Clean
  <2>3. ASSUME NEW k \in 1..n, n - k < Capacity - 1
        PROVE  ring'[(k - 1) % Capacity] = Whole(written[k])
    <3>1. k - 1 \in Nat /\ k - 1 < n /\ n - (k - 1) < Capacity
      BY <1>1, <2>3, RecorderAssumption
    <3>2. (k - 1) % Capacity # p
      BY <1>1, <3>1, RecorderAssumption, PlacesDiffer
    <3>3. (k - 1) % Capacity \in Slots
      BY <3>1, Places DEF RingInv
    <3>4. ring'[(k - 1) % Capacity] = ring[(k - 1) % Capacity]
      BY <1>4, <3>2, <3>3 DEF IInv, TypeOK
    <3>5. QED
      BY <2>3, <3>4 DEF RingInv, Intact
  <2>4. QED
    BY <2>1, <2>2, <2>3 DEF Intact
<1>5. ASSUME RecordTag(w) \/ RecordText(w)
      PROVE  Counters' /\ Copied' /\ \A v \in Writers \ {w} : wpc'[v] \in {"out", "dead"}
  <2>1. \A v \in Writers \ {w} : wpc'[v] = wpc[v]
    BY <1>5 DEF RecordTag, RecordText, IInv, TypeOK
  <2>2. owner = w
    BY <1>2, <1>5 DEF RecordTag, RecordText
  <2>3. QED
    BY <1>2, <1>5, <2>1, <2>2 DEF RecordTag, RecordText, RingInv, Counters, Copied, IInv, OneInside
<1>6. CASE RecordTag(w)
  <2>1. ring' = [ring EXCEPT ![p].tag = Content(w)] /\ wpc'[w] = "text" /\ written' = written
    BY <1>1, <1>6 DEF RecordTag, IInv, TypeOK
  <2>2. PICK r : ring' = [ring EXCEPT ![p] = r]
    BY <2>1
  <2>3. ring'[p].tag = Content(w)
    BY <1>1, <2>1 DEF IInv, TypeOK
  <2>4. Half'
    BY <1>5, <1>6, <2>1, <2>3 DEF Half, Content
  <2>5. QED
    BY <1>4, <1>5, <1>6, <2>2, <2>4 DEF RingInv
<1>7. CASE RecordText(w)
  <2>1. /\ ring' = [ring EXCEPT ![p].text = Content(w)]
        /\ wpc'[w] = "count" /\ written' = written /\ wpc[w] = "text"
    BY <1>1, <1>7 DEF RecordText, IInv, TypeOK
  <2>2. PICK r : ring' = [ring EXCEPT ![p] = r]
    BY <2>1
  <2>3. ring[p].tag = Content(w) /\ ring[p] \in [tag : Contents \cup {Empty}, text : Contents \cup {Empty}]
    BY <1>1, <2>1 DEF RingInv, Half, IInv, TypeOK
  <2>4. ring'[p] = Whole(Content(w))
    BY <1>1, <2>1, <2>3 DEF IInv, TypeOK, Whole
  <2>5. Half'
    BY <1>5, <1>7, <2>1, <2>4 DEF Half, Content
  <2>6. QED
    BY <1>4, <1>5, <1>7, <2>2, <2>5 DEF RingInv
<1>8. CASE RecordCount(w)
  <2>1. /\ Len(written') = n + 1
        /\ \A k \in 1..n : written'[k] = written[k]
        /\ written'[n + 1] = Content(w)
        /\ ring' = ring /\ owner' = w /\ wpc'[w] = "give" /\ rpc' = "out"
        /\ wpc[w] = "count"
    BY <1>2, <1>8, ContentType DEF RecordCount, IInv, TypeOK
  <2>2. Counters'
    <3>1. ((n % Wrap) + 1) % Wrap = (n + 1) % Wrap
      BY <1>1, RecorderAssumption, WrappedNext, Zenon
    <3>2. QED
      BY <1>8, <2>1, <3>1, Zenon DEF RecordCount, RingInv, Counters
  <2>3. Half' /\ Copied'
    <3>1. \A v \in Writers : wpc'[v] \notin {"text", "count"}
      BY <1>2, <1>8 DEF RecordCount, IInv, TypeOK, OneInside
    <3>2. QED
      BY <2>1, <3>1 DEF Half, Copied
  <2>4. ASSUME NEW k \in 1..(n + 1), n + 1 - k < Capacity
        PROVE  ring'[(k - 1) % Capacity] = Whole(written'[k])
    <3>1. CASE k = n + 1
      <4>1. ring[p] = Whole(Content(w))
        BY <2>1 DEF RingInv, Half
      <4>2. k - 1 = n
        BY <1>1, <3>1
      <4>3. QED
        BY <2>1, <3>1, <4>1, <4>2
    <3>2. CASE k # n + 1
      <4>1. k \in 1..n /\ n - k < Capacity - 1
        BY <1>1, <2>4, <3>2, RecorderAssumption
      <4>2. QED
        BY <2>1, <4>1 DEF RingInv, Intact
    <3>3. QED
      BY <3>1, <3>2
  <2>5. Intact'
    BY <1>1, <2>1, <2>4, RecorderAssumption DEF Intact
  <2>6. QED
    BY <2>2, <2>3, <2>5 DEF RingInv
<1>9. CASE RecordGive(w)
  <2>1. UNCHANGED <<ring, head, total, rpc, count, out, written>> /\ Clean
    BY <1>2, <1>9 DEF RecordGive, Clean
  <2>2. Half'
    BY <1>9, <2>1 DEF RecordGive, RingInv, Half, IInv, TypeOK, Content
  <2>3. QED
    BY <2>1, <2>2 DEF RingInv, Counters, Intact, Copied
<1>10. QED
  BY <1>3, <1>6, <1>7, <1>8, <1>9 DEF Record

\* A deleted writer leaves the slot as it is, and the mutex taken.
LEMMA DeleteRing ==
    ASSUME IInv, RingInv, NEW w \in Writers, Delete(w)
    PROVE  RingInv'
<1>1. UNCHANGED <<ring, head, total, owner, rpc, count, out, written>>
  BY DEF Delete
<1>2. \A v \in Writers : wpc'[v] = IF v = w THEN "dead" ELSE wpc[v]
  BY DEF Delete, IInv, TypeOK
<1>3. Clean' => Clean
  BY <1>1, <1>2 DEF Clean
<1>4. Intact'
  BY <1>1, <1>3 DEF RingInv, Intact
<1>5. Half'
  BY <1>1, <1>2 DEF RingInv, Half, Content
<1>6. QED
  BY <1>1, <1>4, <1>5 DEF RingInv, Counters, Copied

\* A dump starts when nobody writes, and takes the slots from the newest backward.
LEMMA DumpRing ==
    ASSUME IInv, RingInv, Dump
    PROVE  RingInv'
<1> DEFINE n == Len(written)
<1>1. UNCHANGED <<ring, head, total, wpc, written>>
  BY DEF Dump, DumpTake, DumpTimeout, DumpCopy, DumpGive
<1>2. n \in Nat /\ total \in Nat /\ total <= n /\ count \in Nat
  <2>1. total = n % Wrap /\ n \in Nat
    BY Places DEF RingInv, Counters
  <2>2. n % Wrap \in Nat /\ n % Wrap <= n
    BY <2>1, ModAtMost, RecorderAssumption, Zenon
  <2>3. QED
    BY <2>1, <2>2, RecorderAssumption DEF IInv, TypeOK
<1>4. (rpc = "out" /\ Clean' => Clean) /\ (rpc # "out" => Clean)
  BY <1>1 DEF Dump, DumpTake, DumpTimeout, DumpCopy, DumpGive, Clean, IInv, OneInside
<1>5. Counters' /\ Half'
  BY <1>1 DEF RingInv, Counters, Half, Content
<1>6. Intact'
  BY <1>1, <1>4 DEF RingInv, Intact
<1>7. Copied'
  <2>1. CASE DumpTake
    BY <1>1, <1>2, <2>1, RecorderAssumption DEF DumpTake, Copied
  <2>2. CASE DumpTimeout
    BY <2>2 DEF DumpTimeout, Copied
  <2>3. CASE DumpGive
    BY <2>3 DEF DumpGive, Copied
  <2>4. CASE DumpCopy /\ Len(out) < count
    <3> DEFINE L == Len(out)
               r == ring[SlotOf(L)]
    <3>1. /\ rpc = "copy" /\ rpc' = "copy" /\ out' = Append(out, r) /\ count' = count
          /\ count = IF total < Capacity THEN total ELSE Capacity
          /\ L \in Nat
          /\ \A i \in 1..L : out[i] = Whole(written[n + 1 - i])
      BY <2>4 DEF DumpCopy, RingInv, Copied, IInv, TypeOK
    <3>2. L < n /\ L < Capacity
      BY <1>2, <2>4, <3>1, RecorderAssumption
    <3>3. SlotOf(L) = (n - 1 - L) % Capacity
      BY <1>2, <3>1, <3>2, Places DEF RingInv
    <3>4. n - L \in 1..n /\ n - (n - L) = L /\ (n - L) - 1 = n - 1 - L
      BY <1>2, <3>1, <3>2
    <3>5. L < Capacity - 1 \/ L = Capacity - 1
      BY <3>1, <3>2, RecorderAssumption
    <3>6. r = Whole(written[n - L])
      BY <1>4, <3>1, <3>3, <3>4, <3>5 DEF RingInv, Intact
    <3> HIDE DEF r
    <3>7. /\ Len(out') = L + 1
          /\ \A i \in 1..L : out'[i] = out[i]
          /\ out'[L + 1] = r
      BY <3>1 DEF IInv, TypeOK
    <3>8. \A i \in 1..(L + 1) : out'[i] = Whole(written[n + 1 - i])
      <4>1. n + 1 - (L + 1) = n - L
        BY <1>2, <3>1
      <4>2. QED
        BY <3>1, <3>6, <3>7, <4>1
    <3>9. Len(out') <= count'
      BY <1>2, <2>4, <3>1, <3>7
    <3>10. QED
      BY <1>1, <3>1, <3>7, <3>8, <3>9 DEF Copied
  <2>5. CASE DumpCopy /\ ~(Len(out) < count)
    BY <1>1, <1>2, <2>5 DEF DumpCopy, RingInv, Copied, IInv, TypeOK
  <2>6. QED
    BY <2>1, <2>2, <2>3, <2>4, <2>5 DEF Dump
<1>8. QED
  BY <1>5, <1>6, <1>7 DEF RingInv

\* The content of the ring and of a dump is kept by every step.
LEMMA StepRing == IInv /\ RingInv /\ [Next]_vars => RingInv'
<1> SUFFICES ASSUME IInv, RingInv, [Next]_vars PROVE RingInv'
  OBVIOUS
<1>1. CASE UNCHANGED vars
  BY <1>1 DEF vars, RingInv, Counters, Intact, Clean, Half, Content, Copied
<1>2. CASE Next
  BY <1>2, RecordRing, DeleteRing, DumpRing DEF Next
<1>3. QED
  BY <1>1, <1>2

\* What a dump copies are the newest records, whole and in order, for any capacity and
\* across any number of wraps of the ring and of the counters.
THEOREM DumpsNewest == Spec => []DumpIsNewest
<1>1. IInv /\ RingInv => DumpIsNewest
  <2> SUFFICES ASSUME IInv, RingInv, rpc # "out" PROVE DumpIsNewest
    BY DEF DumpIsNewest
  <2>1. Len(written) \in Nat /\ total = Len(written) % Wrap /\ Len(out) \in Nat
    BY Places DEF RingInv, Counters, IInv, TypeOK
  <2>2. total <= Len(written) /\ total \in Nat /\ (Len(written) < Wrap => total = Len(written))
    BY <2>1, ModAtMost, RecorderAssumption
  <2>3. QED
    BY <2>1, <2>2, RecorderAssumption DEF DumpIsNewest, RingInv, Copied
<1>2. Spec => []RingInv
  BY InitRing, StepRing, Invariance, PTL DEF Spec
<1>3. QED
  BY <1>1, <1>2, Invariance, PTL
=============================================================================
