---------------------------- MODULE FlightRecorder ----------------------------
(***************************************************************************)
(* The black box of one craft (src/flight_recorder/flight_recorder.c): a    *)
(* ring of records that every task writes from Log_Event and that the        *)
(* telemetry server dumps.                                                 *)
(*                                                                         *)
(* A record has two fields here, tag and text, filled one after the other,   *)
(* so that a record read half way shows.  A Record that finds the mutex      *)
(* taken returns at once and changes nothing; it is not an action.          *)
(***************************************************************************)
EXTENDS Integers, Sequences

CONSTANTS
    Writers,     \* tasks that log at WARN or above
    Reader,      \* TelemSrv, the one caller of FlightRecorder_Dump
    Nobody,      \* owner of a free s_mutex
    Capacity,    \* FR_CAPACITY
    Wrap,        \* 2^32, the width of s_head and s_total
    MaxRecords,  \* bound: records written
    Empty        \* a slot as memset leaves it

ASSUME RecorderAssumption ==
    /\ Reader \notin Writers
    /\ Nobody \notin Writers \cup {Reader}
    /\ Capacity \in Nat \ {0}
    /\ Wrap \in Nat \ {0}
    /\ Wrap % Capacity = 0
    /\ MaxRecords \in Nat

Slots == 0..(Capacity - 1)

VARIABLES
    ring,     \* s_ring
    head,     \* s_head
    total,    \* s_total
    owner,    \* who holds s_mutex
    wpc,      \* where each writer stands: "out", "tag", "text", "count", "give", "dead"
    rpc,      \* where the reader stands: "out", "copy", "give"
    count,    \* the reader's number of records to copy
    out,      \* the records copied so far, newest first
    written   \* history: every record that was completed, oldest first

vars == <<ring, head, total, owner, wpc, rpc, count, out, written>>

Init ==
    /\ ring = [s \in Slots |-> [tag |-> Empty, text |-> Empty]]
    /\ head = 0
    /\ total = 0
    /\ owner = Nobody
    /\ wpc = [w \in Writers |-> "out"]
    /\ rpc = "out"
    /\ count = 0
    /\ out = <<>>
    /\ written = <<>>

-----------------------------------------------------------------------------
(* FlightRecorder_Record *)

\* What w is writing; the number of records so far makes it unique.
Content(w) == <<w, Len(written)>>

\* Variant of RecordTake: without the mutex.
RecordNoTake(w) ==
    /\ wpc[w] = "out"
    /\ Len(written) < MaxRecords
    /\ wpc' = [wpc EXCEPT ![w] = "tag"]
    /\ UNCHANGED <<ring, head, total, owner, rpc, count, out, written>>

\* The take with a timeout of 0 succeeds.
RecordTake(w) ==
    /\ wpc[w] = "out"
    /\ Len(written) < MaxRecords
    /\ owner = Nobody
    /\ owner' = w
    /\ wpc' = [wpc EXCEPT ![w] = "tag"]
    /\ UNCHANGED <<ring, head, total, rpc, count, out, written>>

RecordTag(w) ==
    /\ wpc[w] = "tag"
    /\ ring' = [ring EXCEPT ![head % Capacity].tag = Content(w)]
    /\ wpc' = [wpc EXCEPT ![w] = "text"]
    /\ UNCHANGED <<head, total, owner, rpc, count, out, written>>

RecordText(w) ==
    /\ wpc[w] = "text"
    /\ ring' = [ring EXCEPT ![head % Capacity].text = Content(w)]
    /\ wpc' = [wpc EXCEPT ![w] = "count"]
    /\ UNCHANGED <<head, total, owner, rpc, count, out, written>>

\* s_head++ and s_total++; nobody looks between the two.
RecordCount(w) ==
    /\ wpc[w] = "count"
    /\ head' = (head + 1) % Wrap
    /\ total' = (total + 1) % Wrap
    /\ written' = Append(written, Content(w))
    /\ wpc' = [wpc EXCEPT ![w] = "give"]
    /\ UNCHANGED <<ring, owner, rpc, count, out>>

RecordGive(w) ==
    /\ wpc[w] = "give"
    /\ owner' = Nobody
    /\ wpc' = [wpc EXCEPT ![w] = "out"]
    /\ UNCHANGED <<ring, head, total, rpc, count, out, written>>

Record(w) ==
    RecordTake(w) \/ RecordTag(w) \/ RecordText(w) \/ RecordCount(w) \/ RecordGive(w)

\* The watchdog deletes a task wherever it stands; a mutex it holds stays taken.
Delete(w) ==
    /\ wpc[w] # "dead"
    /\ wpc' = [wpc EXCEPT ![w] = "dead"]
    /\ UNCHANGED <<ring, head, total, owner, rpc, count, out, written>>

-----------------------------------------------------------------------------
(* FlightRecorder_Dump *)

\* Variant of DumpTake: not limited to what the ring and the caller's array hold.
DumpTakeAll ==
    /\ rpc = "out"
    /\ owner = Nobody
    /\ owner' = Reader
    /\ rpc' = "copy"
    /\ count' = total
    /\ out' = <<>>
    /\ UNCHANGED <<ring, head, total, wpc, written>>

\* The take succeeds within its 20 ms; count is the smaller of s_total and the
\* capacity, which is also maxOut.
DumpTake ==
    /\ rpc = "out"
    /\ owner = Nobody
    /\ owner' = Reader
    /\ rpc' = "copy"
    /\ count' = IF total < Capacity THEN total ELSE Capacity
    /\ out' = <<>>
    /\ UNCHANGED <<ring, head, total, wpc, written>>

\* The take fails: a dump of no records.
DumpTimeout ==
    /\ rpc = "out"
    /\ owner # Nobody
    /\ out' = <<>>
    /\ UNCHANGED <<ring, head, total, owner, wpc, rpc, count, written>>

\* Variant of SlotOf: off by one.
SlotOfNext(i) == ((head - i) % Wrap) % Capacity

\* Slot of the i-th newest record, from 0; the subtraction is unsigned.
SlotOf(i) == ((head - 1 - i) % Wrap) % Capacity

DumpCopy ==
    /\ rpc = "copy"
    /\ IF Len(out) < count
       THEN out' = Append(out, ring[SlotOf(Len(out))]) /\ UNCHANGED rpc
       ELSE rpc' = "give" /\ UNCHANGED out
    /\ UNCHANGED <<ring, head, total, owner, wpc, count, written>>

DumpGive ==
    /\ rpc = "give"
    /\ owner' = Nobody
    /\ rpc' = "out"
    /\ UNCHANGED <<ring, head, total, wpc, count, out, written>>

Dump == DumpTake \/ DumpTimeout \/ DumpCopy \/ DumpGive

Next ==
    \/ \E w \in Writers : Record(w) \/ Delete(w)
    \/ Dump

Spec == Init /\ [][Next]_vars

-----------------------------------------------------------------------------
(* Properties *)

Contents == Writers \X (0..MaxRecords)

\* Every variable holds a value of its type.
TypeOK ==
    /\ ring \in [Slots -> [tag : Contents \cup {Empty}, text : Contents \cup {Empty}]]
    /\ head \in 0..(Wrap - 1)
    /\ total \in 0..(Wrap - 1)
    /\ owner \in Writers \cup {Reader, Nobody}
    /\ wpc \in [Writers -> {"out", "tag", "text", "count", "give", "dead"}]
    /\ rpc \in {"out", "copy", "give"}
    /\ count \in 0..Capacity
    /\ out \in Seq([tag : Contents \cup {Empty}, text : Contents \cup {Empty}])
    /\ written \in Seq(Contents)

\* The mutex keeps writers and the reader apart, also when a writer is deleted.
OneInside ==
    /\ \A w \in Writers : wpc[w] \notin {"out", "dead"} => owner = w
    /\ rpc # "out" => owner = Reader

\* A record as its writer meant it.
Whole(c) == [tag |-> c, text |-> c]

\* flight_recorder.c:49 "newest first": what a dump copies are whole records, the
\* newest ones in order, across the wrap of the ring and of the counters; and all
\* that the ring holds, until s_total itself has wrapped.
DumpIsNewest ==
    rpc # "out" =>
        /\ Len(out) <= Len(written)
        /\ \A i \in 1..Len(out) : out[i] = Whole(written[Len(written) + 1 - i])
        /\ rpc = "give" /\ Len(written) < Wrap =>
             \/ Len(out) = Capacity
             \/ Len(out) = Len(written)
=============================================================================
