------------------------ MODULE TelemetryServerProofs ------------------------
(***************************************************************************)
(* What holds of the command path and of the client slots of a craft for   *)
(* any writers, any room in the buffer and any number of clients and slots. *)
(***************************************************************************)
EXTENDS TelemetryServer, SequenceTheorems, TLAPS

-----------------------------------------------------------------------------
(* Places of the buffer *)

\* Division with remainder.
LEMMA DivMod ==
  ASSUME NEW n \in Nat, NEW r \in Nat \ {0}
  PROVE  /\ n \div r \in Int
         /\ n % r \in 0..(r - 1)
         /\ n = r * (n \div r) + (n % r)
  OBVIOUS

\* There is no multiple of r strictly between 0 and r.
LEMMA NoMultiple ==
  ASSUME NEW d \in Int, NEW r \in Nat \ {0}, r * d < r, 0 < r * d
  PROVE  FALSE
  <1>1. CASE d <= 0
    BY <1>1
  <1>2. CASE d >= 1
    BY <1>2
  <1> QED BY <1>1, <1>2

\* Positions less than one round apart are different places of the ring.
LEMMA PlacesDiffer ==
  ASSUME NEW r \in Nat \ {0}, NEW m \in Nat, NEW n \in Nat, n < m, m - n < r
  PROVE  n % r # m % r
  <1> SUFFICES ASSUME n % r = m % r PROVE FALSE
    OBVIOUS
  <1> DEFINE a == n \div r
             b == m \div r
  <1>1. /\ a \in Int /\ b \in Int /\ n % r \in Int
        /\ n = r * a + (n % r)
        /\ m = r * b + (n % r)
    BY DivMod
  <1> HIDE DEF a, b
  <1>2. r * (b - a) = r * b - r * a
    BY <1>1
  <1>3. r * a \in Int /\ r * b \in Int /\ b - a \in Int
    BY <1>1
  <1>4. m - n = r * (b - a)
    BY <1>1, <1>2, <1>3
  <1>5. r * (b - a) < r /\ 0 < r * (b - a)
    BY <1>4
  <1> QED BY <1>3, <1>5, NoMultiple

-----------------------------------------------------------------------------
(* Types *)

\* The buffer is not overfilled: the sends under way have read one head, the
\* current one or, when one of them has been overtaken, the one before, and each
\* still has the room it has seen.
BufferBounded ==
    /\ head - tail \in 0..Room
    /\ \A w \in Sending :
         /\ seen[w] \in {head, head - 1}
         /\ seen[w] + 1 - tail <= Room
         /\ \A v \in Sending : seen[v] = seen[w]

\* The entries of the slots and of the backlog are connections.
SlotsTypeOK ==
    /\ clients \in [Clients -> {"away", "asking", "streaming", "backoff"}]
    /\ backlog \in Seq(Connections)
    /\ slot \in [SlotNumbers -> Connections \cup {Free}]
    /\ logs \in 0..LogQueueLength
    /\ leaves \in 0..MaxLeaves

Phases == {"accept", "clean", "broadcast", "logs"}

Types == CommandTypeOK /\ BufferBounded /\ SlotsTypeOK /\ phase \in Phases

\* An index into the buffer is one of its places.
LEMMA Place ==
  ASSUME NEW n \in Nat
  PROVE  n % Room \in 0..(Room - 1)
  BY CommandAssumption DEF CommandAssumption

\* Two commands that fit in the buffer together have places of their own.
LEMMA Apart ==
  \A m, n \in Nat : n < m /\ m - n < Room => n % Room # m % Room
  <1>1. Room \in Nat \ {0}
    BY CommandAssumption DEF CommandAssumption
  <1> QED BY <1>1, PlacesDiffer

\* What a send leaves in the buffer is a command or a mixture.
LEMMA ResultType ==
  ASSUME CommandTypeOK, NEW w \in Writers, NEW c \in Result(w)
  PROVE  c \in (Writers \X Nat) \cup {Torn}
  <1>1. seen[w] % Room \in 0..(Room - 1)
    BY Place DEF CommandTypeOK
  <1>2. store[seen[w] % Room] \in (Writers \X Nat) \cup {Torn}
    BY <1>1 DEF CommandTypeOK
  <1>3. \A v \in Writers : <<v, submitted[v]>> \in Writers \X Nat
    BY DEF CommandTypeOK
  <1> QED BY <1>2, <1>3 DEF Result, Sending

\* Submit keeps the types of the command path and the bound of the buffer.
LEMMA SubmitType ==
  ASSUME CommandTypeOK, BufferBounded, NEW w \in Writers,
         SubmitBegin(w) \/ SubmitEnd(w) \/ SubmitNotify(w)
  PROVE  CommandTypeOK' /\ BufferBounded'
  <1> USE CommandAssumption DEF CommandAssumption
  <1>1. CASE SubmitBegin(w)
    <2>1. CommandTypeOK'
      <3>1. overlapped' \in BOOLEAN
        BY <1>1 DEF SubmitBegin, CommandTypeOK
      <3>2. /\ UNCHANGED <<store, head, tail, notified, cpc, asleep, accepted, executed>>
            /\ submitted' = [submitted EXCEPT ![w] = @ + 1]
            /\ rejected' = rejected \/ rejected' = rejected + 1
        BY <1>1 DEF SubmitBegin, buffer, receiver
      <3>3. rejected' \in Nat
        BY <3>2 DEF CommandTypeOK
      <3>8. seen' \in [Writers -> Nat] /\ wpc' \in [Writers -> {"idle", "send", "sent"}]
        <4>1. CASE HasRoom
          BY <1>1, <4>1 DEF SubmitBegin, CommandTypeOK
        <4>2. CASE ~HasRoom
          BY <1>1, <4>2 DEF SubmitBegin, CommandTypeOK
        <4> QED BY <4>1, <4>2
      <3>7. submitted' \in [Writers -> Nat]
        BY <3>2 DEF CommandTypeOK
      <3>4. /\ store' \in [0..(Room - 1) -> (Writers \X Nat) \cup {Torn}]
            /\ head' \in Nat /\ tail' \in Nat
            /\ accepted' \in Seq(Writers \X Nat)
            /\ executed' \in Seq((Writers \X Nat) \cup {Torn})
        BY <3>2 DEF CommandTypeOK
      <3>5. cpc' \in {"take", "receive", "log"}
        BY <3>2 DEF CommandTypeOK
      <3>6. notified' \in BOOLEAN /\ asleep' \in SUBSET Tasks
        BY <3>2 DEF CommandTypeOK
      <3> QED BY <3>1, <3>3, <3>4, <3>5, <3>6, <3>7, <3>8 DEF CommandTypeOK
    <2>2. BufferBounded'
      <3>1. CASE HasRoom
        <4>1. /\ seen' = [seen EXCEPT ![w] = head] /\ wpc' = [wpc EXCEPT ![w] = "send"]
              /\ UNCHANGED <<head, tail>>
              /\ \A v \in Sending : seen[v] = head
          BY <1>1, <3>1 DEF SubmitBegin, OvertakenOnce, buffer
        <4>2. Sending' = Sending \cup {w}
          BY <4>1 DEF Sending, CommandTypeOK
        <4>3. \A v \in Sending' : seen'[v] = head
          BY <4>1, <4>2 DEF CommandTypeOK, Sending
        <4>4. head + 1 - tail <= Room
          BY <3>1 DEF HasRoom, CommandTypeOK
        <4> QED BY <4>1, <4>3, <4>4 DEF BufferBounded
      <3>2. CASE ~HasRoom
        BY <1>1, <3>2 DEF SubmitBegin, BufferBounded, Sending, buffer
      <3> QED BY <3>1, <3>2
    <2> QED BY <2>1, <2>2
  <1>2. CASE SubmitEnd(w)
    <2>1. PICK c \in Result(w) : store' = [store EXCEPT ![seen[w] % Room] = c]
      BY <1>2 DEF SubmitEnd
    <2>2. store' \in [0..(Room - 1) -> (Writers \X Nat) \cup {Torn}]
      BY <2>1, ResultType DEF CommandTypeOK
    <2>3. <<w, submitted[w]>> \in Writers \X Nat
      BY DEF CommandTypeOK
    <2>4. accepted' \in Seq(Writers \X Nat)
      BY <1>2, <2>3 DEF SubmitEnd, CommandTypeOK
    <2>5. CommandTypeOK'
      <3>1. /\ UNCHANGED <<tail, seen, submitted, rejected, notified, cpc, asleep>>
            /\ UNCHANGED <<executed, overlapped>>
            /\ head' = seen[w] + 1
            /\ wpc' = [wpc EXCEPT ![w] = "sent"]
        BY <1>2 DEF SubmitEnd, receiver
      <3>2. head' \in Nat /\ wpc' \in [Writers -> {"idle", "send", "sent"}]
        BY <3>1 DEF CommandTypeOK
      <3> QED BY <2>2, <2>4, <3>1, <3>2 DEF CommandTypeOK
    <2>6. /\ Sending' = Sending \ {w} /\ w \in Sending
          /\ head' = seen[w] + 1 /\ UNCHANGED <<tail, seen>>
      BY <1>2 DEF SubmitEnd, Sending, CommandTypeOK
    <2>7. head \in Nat /\ tail \in Nat /\ seen[w] \in Nat
      BY DEF CommandTypeOK
    <2>8. BufferBounded'
      BY <2>6, <2>7 DEF BufferBounded
    <2> QED BY <2>5, <2>8
  <1>3. CASE SubmitNotify(w)
    <2>1. Sending' = Sending
      BY <1>3 DEF SubmitNotify, Sending, CommandTypeOK
    <2>2. CommandTypeOK'
      BY <1>3 DEF SubmitNotify, CommandTypeOK, buffer, record
    <2> QED BY <1>3, <2>1, <2>2 DEF SubmitNotify, BufferBounded, buffer
  <1> QED BY <1>1, <1>2, <1>3

\* So does CmdProc, whoever is suspended.
LEMMA CmdProcType ==
  ASSUME CommandTypeOK, BufferBounded,
         CmdProc \/ \E t \in Tasks : Suspend(t) \/ Resume(t)
  PROVE  CommandTypeOK' /\ BufferBounded'
  <1>1. CASE CmdExecute
    <2>1. store[tail % Room] \in (Writers \X Nat) \cup {Torn}
      BY Place DEF CommandTypeOK
    <2>2. executed' \in Seq((Writers \X Nat) \cup {Torn})
      BY <1>1, <2>1 DEF CmdExecute, CommandTypeOK
    <2>3. CommandTypeOK'
      BY <1>1, <2>2 DEF CmdExecute, CommandTypeOK, sending
    <2>4. /\ tail' = tail + 1 /\ head # tail
          /\ UNCHANGED <<head, seen>> /\ Sending' = Sending
      BY <1>1 DEF CmdExecute, sending, Sending
    <2>5. head \in Nat /\ tail \in Nat /\ \A w \in Sending : seen[w] \in Nat
      BY DEF CommandTypeOK, Sending
    <2> QED BY <2>3, <2>4, <2>5, CommandAssumption DEF BufferBounded, CommandAssumption
  <1>2. CASE CmdTake
    BY <1>2 DEF CmdTake, CommandTypeOK, BufferBounded, Sending, buffer, sending, record
  <1>3. CASE CmdLogged
    BY <1>3 DEF CmdLogged, CommandTypeOK, BufferBounded, Sending, buffer, sending, record
  <1>4. CASE CmdTimeout
    BY <1>4 DEF CmdTimeout, CommandTypeOK, BufferBounded, Sending, buffer, sending, record
  <1>5. ASSUME NEW t \in Tasks, Suspend(t) \/ Resume(t)
        PROVE  CommandTypeOK' /\ BufferBounded'
    <2>1. /\ UNCHANGED <<store, head, tail, seen, wpc, submitted, rejected>>
          /\ UNCHANGED <<accepted, executed, overlapped>>
          /\ asleep' \in SUBSET Tasks
      BY <1>5 DEF Suspend, Resume, CommandTypeOK, buffer, sending, record
    <2>2. cpc' \in {"take", "receive", "log"} /\ notified' \in BOOLEAN
      BY <1>5 DEF Suspend, Resume, CommandTypeOK
    <2> QED BY <2>1, <2>2 DEF CommandTypeOK, BufferBounded, Sending
  <1> QED BY <1>1, <1>2, <1>3, <1>4, <1>5 DEF CmdProc

\* Steps that leave the command path alone keep its types.
LEMMA CommandUnchanged ==
  ASSUME CommandTypeOK, BufferBounded, UNCHANGED command
  PROVE  CommandTypeOK' /\ BufferBounded'
  BY DEF CommandTypeOK, BufferBounded, Sending, command, buffer, sending, receiver, record

\* The queue of log lines holds no more than it can.
LEMMA QueueLogsType ==
  ASSUME NEW lines \in Nat, NEW n, QueueLogs(lines, n)
  PROVE  logs' \in 0..LogQueueLength
  BY SlotsAssumption DEF QueueLogs, SlotsAssumption

\* No step of a client or of the server leaves the types of the streams.
LEMMA SlotsType ==
  ASSUME SlotsTypeOK,
         \/ Accept
         \/ CleanUp
         \/ \E queued \in Nat : Broadcast(queued)
         \/ LogLine
         \/ \E c \in Clients : Ask(c) \/ Leave(c)
  PROVE  SlotsTypeOK'
  <1> USE SlotsAssumption DEF SlotsAssumption, SlotsTypeOK
  <1>1. CASE Accept
    <2>1. /\ Head(backlog) \in Connections
          /\ backlog' \in Seq(Connections)
      BY <1>1 DEF Accept
    <2>2. logs' \in 0..LogQueueLength /\ leaves' = leaves
      BY <1>1, QueueLogsType DEF Accept
    <2>3. ASSUME Register(Head(backlog))
          PROVE  /\ slot' \in [SlotNumbers -> Connections \cup {Free}]
                 /\ clients' \in [Clients -> {"away", "asking", "streaming", "backoff"}]
      <3>1. slot' \in [SlotNumbers -> Connections \cup {Free}]
        BY <2>1, <2>3 DEF Register
      <3>2. Head(backlog).who \in Clients
        BY <2>1 DEF Connections
      <3>3. \/ clients' = clients
            \/ clients' = [clients EXCEPT ![Head(backlog).who] = "streaming"]
        BY <2>3 DEF Register
      <3>4. clients' \in [Clients -> {"away", "asking", "streaming", "backoff"}]
        BY <3>2, <3>3
      <3> QED BY <3>1, <3>4
    <2>4. ASSUME Refuse(Head(backlog))
          PROVE  /\ slot' \in [SlotNumbers -> Connections \cup {Free}]
                 /\ clients' \in [Clients -> {"away", "asking", "streaming", "backoff"}]
      BY <2>1, <2>4 DEF Refuse, Connections
    <2> QED BY <1>1, <2>1, <2>2, <2>3, <2>4 DEF Accept
  <1>2. CASE CleanUp
    BY <1>2, QueueLogsType DEF CleanUp
  <1>3. ASSUME NEW queued \in Nat, Broadcast(queued) PROVE SlotsTypeOK'
    BY <1>3, QueueLogsType DEF Broadcast
  <1>4. CASE LogLine
    BY <1>4, QueueLogsType DEF LogLine
  <1>5. ASSUME NEW c \in Clients, Ask(c) PROVE SlotsTypeOK'
    <2>1. [who |-> c, open |-> TRUE] \in Connections
      BY DEF Connections
    <2> QED BY <1>5, <2>1 DEF Ask
  <1>6. ASSUME NEW c \in Clients, Leave(c) PROVE SlotsTypeOK'
    <2>1. \A k \in Connections : Gone(k) \in Connections
      BY DEF Gone, Connections
    <2>2. backlog' \in Seq(Connections)
      BY <1>6, <2>1 DEF Leave
    <2>3. slot' \in [SlotNumbers -> Connections \cup {Free}]
      <3>1. Free.who # c
        BY DEF Free
      <3>2. \A i \in SlotNumbers : slot[i].who = c => slot[i] \in Connections
        BY <3>1
      <3> QED BY <1>6, <2>1, <3>2 DEF Leave
    <2> QED BY <1>6, <2>2, <2>3 DEF Leave
  <1> QED BY <1>1, <1>2, <1>3, <1>4, <1>5, <1>6

\* No step of the craft leaves the types.
LEMMA NextType == Types /\ [Next]_vars => Types'
  <1> SUFFICES ASSUME Types, [Next]_vars PROVE Types'
    OBVIOUS
  <1> USE DEF Types, Phases
  <1>1. CASE AcceptStream
    BY <1>1, CommandUnchanged, SlotsType DEF AcceptStream
  <1>2. CASE AcceptNone
    BY <1>2, CommandUnchanged DEF AcceptNone, SlotsTypeOK, streams
  <1>3. CASE CleanSlots
    BY <1>3, CommandUnchanged, SlotsType DEF CleanSlots
  <1>4. CASE BroadcastFrame
    <2>1. logs \in Nat
      BY DEF SlotsTypeOK
    <2> QED BY <1>4, <2>1, CommandUnchanged, SlotsType DEF BroadcastFrame
  <1>5. CASE BroadcastLog
    <2>1. logs - 1 \in Nat
      BY <1>5 DEF BroadcastLog, SlotsTypeOK
    <2> QED BY <1>5, <2>1, CommandUnchanged, SlotsType DEF BroadcastLog
  <1>6. CASE EndCycle
    <2>1. SlotsTypeOK'
      BY <1>6 DEF EndCycle, Retry, SlotsTypeOK
    <2>2. UNCHANGED command /\ phase' = "accept"
      BY <1>6 DEF EndCycle
    <2> QED BY <2>1, <2>2, CommandUnchanged
  <1>7. ASSUME NEW w \in Writers, Submitting(w) PROVE Types'
    BY <1>7, SubmitType DEF Submitting, SlotsTypeOK, streams
  <1>8. ASSUME LogsRequest PROVE SlotsTypeOK'
    <2>1. logs' \in 0..LogQueueLength
      BY <1>8, QueueLogsType DEF LogsRequest, SlotsTypeOK
    <2> QED BY <1>8, <2>1 DEF LogsRequest, SlotsTypeOK
  <1>9. TelemSrv \in Writers /\ FaultInj \in Writers
    BY ServerAssumption
  <1>10. CASE AcceptFault
    BY <1>8, <1>9, <1>10, SubmitType DEF AcceptFault
  <1>11. CASE AcceptSuspend
    BY <1>8, <1>11, CmdProcType DEF AcceptSuspend
  <1>12. CASE AcceptOther
    BY <1>8, <1>12, CommandUnchanged DEF AcceptOther
  <1>13. CASE Inject
    BY <1>9, <1>13, SubmitType DEF Inject, SlotsTypeOK, streams
  <1>14. CASE Execute
    BY <1>14, CmdProcType DEF Execute, SlotsTypeOK, streams
  <1>15. ASSUME NEW c \in Clients, Visit(c) PROVE Types'
    BY <1>15, CommandUnchanged, SlotsType DEF Visit
  <1>16. CASE Log
    BY <1>16, CommandUnchanged, SlotsType DEF Log
  <1>17. CASE UNCHANGED vars
    BY <1>17, CommandUnchanged DEF vars, SlotsTypeOK, streams
  <1> QED
    BY <1>1, <1>2, <1>3, <1>4, <1>5, <1>6, <1>7, <1>9, <1>10, <1>11, <1>12, <1>13, <1>14,
       <1>15, <1>16, <1>17
    DEF Next, Serve

\* Start-up gives every variable a value of its type.
LEMMA InitType == Init => Types
  <1> SUFFICES ASSUME Init PROVE Types
    OBVIOUS
  <1> USE CommandAssumption, SlotsAssumption DEF CommandAssumption, SlotsAssumption
  <1>1. CommandTypeOK
    <2>1. overlapped \in BOOLEAN /\ asleep \in SUBSET Tasks /\ notified \in BOOLEAN
      BY DEF Init, CommandInit
    <2> QED BY <2>1 DEF Init, CommandInit, CommandTypeOK
  <1>2. BufferBounded
    BY DEF Init, CommandInit, BufferBounded, Sending
  <1>3. SlotsTypeOK
    BY DEF Init, SlotsInit, SlotsTypeOK
  <1> QED BY <1>1, <1>2, <1>3 DEF Init, Types, Phases

\* Every reachable state of the command path and of the client slots is well typed,
\* and the buffer never holds more than fits.
THEOREM TypeCorrect == Spec => []TypeOK
  <1>1. Types => TypeOK
    BY DEF Types, TypeOK, BufferBounded, SlotsTypeOK, Phases
  <1> QED BY InitType, NextType, <1>1, PTL DEF Spec

-----------------------------------------------------------------------------
(* Wake-ups *)

\* CmdProc never sleeps on a command: whoever is suspended and resumed, a command in the
\* buffer comes with its notification, or with a sender that has still to give it.
THEOREM WakeupSafe == Spec => []NoLostWakeup
  <1>1. Init => NoLostWakeup
    BY DEF Init, CommandInit, NoLostWakeup
  <1>2. Types /\ NoLostWakeup /\ [Next]_vars => NoLostWakeup'
    <2> SUFFICES ASSUME Types, NoLostWakeup, [Next]_vars PROVE NoLostWakeup'
      OBVIOUS
    <2> USE DEF NoLostWakeup, Types, CommandTypeOK
    <2>1. ASSUME NEW w \in Writers, SubmitBegin(w) PROVE NoLostWakeup'
      BY <2>1 DEF SubmitBegin, buffer, receiver
    <2>2. ASSUME NEW w \in Writers, SubmitEnd(w) PROVE NoLostWakeup'
      BY <2>2 DEF SubmitEnd
    <2>3. ASSUME NEW w \in Writers, SubmitNotify(w) PROVE NoLostWakeup'
      BY <2>3 DEF SubmitNotify
    <2>4. CASE CmdProc
      BY <2>4 DEF CmdProc, CmdTake, CmdExecute, CmdLogged, CmdTimeout, buffer, sending
    <2>5. ASSUME NEW t \in Tasks, Suspend(t) \/ Resume(t) PROVE NoLostWakeup'
      BY <2>5 DEF Suspend, Resume, buffer, sending
    <2>6. CASE UNCHANGED command
      BY <2>6 DEF command, buffer, sending, receiver
    <2>7. TelemSrv \in Writers /\ FaultInj \in Writers
      BY ServerAssumption
    <2> QED
      BY <2>1, <2>2, <2>3, <2>4, <2>5, <2>6, <2>7
      DEF Next, Serve, AcceptStream, AcceptNone, CleanSlots, BroadcastFrame, BroadcastLog,
          EndCycle, Submitting, AcceptFault, AcceptSuspend, AcceptOther, Inject, Execute,
          Visit, Log, vars
  <1> QED BY InitType, NextType, <1>1, <1>2, PTL DEF Spec

-----------------------------------------------------------------------------
(* Order *)

\* As long as no two sends have overlapped, the one under way writes at the head,
\* and position n of the buffer holds the command that was accepted as number n + 1.
Ordered ==
    ~overlapped =>
        /\ \A w \in Sending : seen[w] = head /\ \A v \in Sending : v = w
        /\ Len(accepted) = head
        /\ Len(executed) = tail
        /\ \A n \in 1..tail : executed[n] = accepted[n]
        /\ \A n \in tail..(head - 1) : store[n % Room] = accepted[n + 1]

\* The commands in the buffer follow those executed.
LEMMA OrderedIsInOrder ==
  ASSUME Types, Ordered
  PROVE  ExecutedInOrder
  <1> SUFFICES ASSUME ~overlapped PROVE accepted = executed \o Pending
    BY DEF ExecutedInOrder
  <1> DEFINE Commands == (Writers \X Nat) \cup {Torn}
  <1>1. /\ head \in Nat /\ tail \in Nat /\ head - tail \in Nat
        /\ accepted \in Seq(Commands) /\ executed \in Seq(Commands)
    BY DEF Types, CommandTypeOK, BufferBounded
  <1>2. /\ Pending \in Seq(Commands)
        /\ Len(Pending) = head - tail
        /\ \A i \in 1..(head - tail) : Pending[i] = store[(tail + i - 1) % Room]
    <2>1. ASSUME NEW i \in 1..(head - tail)
          PROVE  store[(tail + i - 1) % Room] \in Commands
      <3>1. tail + i - 1 \in Nat
        BY <1>1
      <3>2. (tail + i - 1) % Room \in 0..(Room - 1)
        BY <3>1, Place
      <3> QED BY <3>2 DEF Types, CommandTypeOK
    <2> HIDE DEF Commands
    <2> QED BY <1>1, <2>1 DEF Pending
  <1>3. /\ executed \o Pending \in Seq(Commands)
        /\ Len(executed \o Pending) = head
        /\ Len(accepted) = head
    <2> HIDE DEF Commands
    <2> QED BY <1>1, <1>2 DEF Ordered
  <1>4. ASSUME NEW n \in 1..head
        PROVE  accepted[n] = (executed \o Pending)[n]
    <2> HIDE DEF Commands
    <2>1. CASE n <= tail
      <3>1. n \in 1..Len(executed)
        BY <1>1, <2>1 DEF Ordered
      <3>2. (executed \o Pending)[n] = executed[n]
        BY <1>1, <1>2, <3>1, ConcatProperties
      <3> QED BY <1>1, <2>1, <3>2 DEF Ordered
    <2>2. CASE n > tail
      <3>1. n - tail \in 1..(head - tail) /\ n - 1 \in tail..(head - 1)
        BY <1>1, <2>2
      <3>2. (executed \o Pending)[n] = Pending[n - tail]
        BY <1>1, <1>2, <2>2, ConcatProperties DEF Ordered
      <3>3. Pending[n - tail] = store[(n - 1) % Room]
        <4>1. tail + (n - tail) - 1 = n - 1
          BY <1>1
        <4> QED BY <1>2, <3>1, <4>1
      <3>4. store[(n - 1) % Room] = accepted[n]
        <4>1. (n - 1) + 1 = n
          OBVIOUS
        <4> QED BY <3>1, <4>1 DEF Ordered
      <3> QED BY <3>2, <3>3, <3>4
    <2>3. n <= tail \/ n > tail
      BY <1>1
    <2> QED BY <2>1, <2>2, <2>3
  <1> HIDE DEF Commands
  <1> QED BY <1>1, <1>3, <1>4, SeqEqual

\* Submit keeps the order: the send writes behind the newest command, to a place that
\* holds none of those that are still to be executed.
LEMMA SubmitOrdered ==
  ASSUME Types, Ordered, NEW w \in Writers,
         SubmitBegin(w) \/ SubmitEnd(w) \/ SubmitNotify(w)
  PROVE  Ordered'
  <1> USE DEF Types, CommandTypeOK
  <1>1. CASE SubmitBegin(w) /\ HasRoom
    <2> SUFFICES ASSUME ~overlapped' PROVE Ordered'
      BY DEF Ordered
    <2>1. /\ ~overlapped /\ Sending = {}
          /\ seen' = [seen EXCEPT ![w] = head]
          /\ wpc' = [wpc EXCEPT ![w] = "send"]
          /\ UNCHANGED <<store, head, tail, accepted, executed>>
      BY <1>1 DEF SubmitBegin, buffer
    <2>2. Sending' = {w}
      BY <2>1 DEF Sending
    <2>3. \A v \in Sending' : seen'[v] = head /\ \A u \in Sending' : u = v
      BY <2>1, <2>2
    <2> QED BY <2>1, <2>3 DEF Ordered
  <1>2. CASE SubmitBegin(w) /\ ~HasRoom
    BY <1>2 DEF SubmitBegin, Ordered, Sending, buffer
  <1>3. CASE SubmitEnd(w)
    <2> SUFFICES ASSUME ~overlapped' PROVE Ordered'
      BY DEF Ordered
    <2>1. /\ ~overlapped /\ w \in Sending /\ UNCHANGED <<tail, seen, executed>>
          /\ head' = seen[w] + 1
          /\ accepted' = Append(accepted, <<w, submitted[w]>>)
          /\ wpc' = [wpc EXCEPT ![w] = "sent"]
      BY <1>3 DEF SubmitEnd, Sending
    <2>2. Sending = {w} /\ seen[w] = head
      BY <2>1 DEF Ordered
    <2>3. store' = [store EXCEPT ![head % Room] = <<w, submitted[w]>>]
      BY <1>3, <2>2 DEF SubmitEnd, Result
    <2>4. Sending' = {}
      BY <2>1, <2>2 DEF Sending
    <2>5. /\ Len(accepted) = head /\ Len(accepted') = head + 1
          /\ accepted'[head + 1] = <<w, submitted[w]>>
          /\ \A n \in 1..head : accepted'[n] = accepted[n]
      BY <2>1 DEF Ordered
    <2>6. head - tail \in Nat /\ head + 1 - tail <= Room
      BY <2>1, <2>2 DEF BufferBounded
    <2>7. ASSUME NEW n \in tail..(head' - 1)
          PROVE  store'[n % Room] = accepted'[n + 1]
      <3>0. n \in Nat /\ head \in Nat /\ tail <= n /\ n <= head
        BY <2>1, <2>2
      <3>1. n % Room \in 0..(Room - 1) /\ head % Room \in 0..(Room - 1)
        BY <3>0, Place
      <3>2. CASE n = head
        BY <2>3, <2>5, <3>1, <3>2
      <3>3. CASE n < head
        <4>1. n % Room # head % Room
          <5>1. head - n < Room
            BY <2>6, <3>0, CommandAssumption DEF CommandAssumption
          <5> QED BY <3>0, <3>3, <5>1, Apart
        <4>2. store'[n % Room] = store[n % Room]
          BY <2>3, <3>1, <4>1
        <4>3. store[n % Room] = accepted[n + 1]
          <5>1. n \in tail..(head - 1)
            BY <3>0, <3>3
          <5> QED BY ONLY <2>1, <5>1, Ordered DEF Ordered
        <4>4. n + 1 \in 1..head
          BY <3>0, <3>3
        <4> QED BY <2>5, <4>2, <4>3, <4>4
      <3> QED BY <3>0, <3>2, <3>3
    <2>8. \A n \in 1..tail : executed'[n] = accepted'[n]
      <3>1. \A n \in 1..tail : n \in 1..head
        BY <2>6
      <3> QED BY <2>1, <2>5, <3>1 DEF Ordered
    <2> QED BY <2>1, <2>2, <2>4, <2>5, <2>7, <2>8 DEF Ordered
  <1>4. CASE SubmitNotify(w)
    <2>1. Sending' = Sending
      BY <1>4 DEF SubmitNotify, Sending
    <2> QED BY <1>4, <2>1 DEF SubmitNotify, Ordered, buffer, record
  <1> QED BY <1>1, <1>2, <1>3, <1>4

\* CmdProc keeps it: the command it takes is the oldest one that is not executed.
LEMMA CmdProcOrdered ==
  ASSUME Types, Ordered, CmdProc \/ \E t \in Tasks : Suspend(t) \/ Resume(t)
  PROVE  Ordered'
  <1> USE DEF Types, CommandTypeOK
  <1>1. CASE CmdExecute
    <2> SUFFICES ASSUME ~overlapped' PROVE Ordered'
      BY DEF Ordered
    <2>1. /\ ~overlapped /\ head # tail /\ tail' = tail + 1
          /\ UNCHANGED <<store, head, accepted, seen, wpc>> /\ Sending' = Sending
          /\ executed' = Append(executed, store[tail % Room])
      BY <1>1 DEF CmdExecute, sending, Sending
    <2>2. tail \in tail..(head - 1)
      BY <2>1 DEF BufferBounded
    <2>3. store[tail % Room] = accepted[tail + 1]
      BY <2>1, <2>2 DEF Ordered
    <2>4. /\ Len(executed) = tail /\ Len(executed') = tail + 1
          /\ executed'[tail + 1] = store[tail % Room]
          /\ \A n \in 1..tail : executed'[n] = executed[n]
      <3>1. Len(executed) = tail
        BY <2>1 DEF Ordered
      <3>2. executed \in Seq((Writers \X Nat) \cup {Torn})
        OBVIOUS
      <3> QED BY ONLY <2>1, <3>1, <3>2
    <2>5. ASSUME NEW n \in 1..tail' PROVE executed'[n] = accepted'[n]
      <3>1. n \in 1..tail \/ n = tail + 1
        BY <2>1
      <3> QED BY <2>1, <2>3, <2>4, <3>1 DEF Ordered
    <2>6. ASSUME NEW n \in tail'..(head' - 1) PROVE n \in tail..(head - 1)
      BY <2>1
    <2>7. /\ \A v \in Sending : seen[v] = head /\ \A u \in Sending : u = v
          /\ Len(accepted) = head
          /\ \A n \in tail..(head - 1) : store[n % Room] = accepted[n + 1]
      BY <2>1 DEF Ordered
    <2>8. \A n \in tail'..(head' - 1) : store'[n % Room] = accepted'[n + 1]
      BY ONLY <2>1, <2>6, <2>7
    <2>9. \A v \in Sending' : seen'[v] = head' /\ \A u \in Sending' : u = v
      BY ONLY <2>1, <2>7
    <2> QED BY ONLY <2>1, <2>4, <2>5, <2>7, <2>8, <2>9 DEF Ordered
  <1>2. CASE CmdTake
    BY <1>2 DEF CmdTake, Ordered, Sending, buffer, sending, record
  <1>3. CASE CmdLogged
    BY <1>3 DEF CmdLogged, Ordered, Sending, buffer, sending, record
  <1>4. CASE CmdTimeout
    BY <1>4 DEF CmdTimeout, Ordered, Sending, buffer, sending, record
  <1>5. ASSUME NEW t \in Tasks, Suspend(t) \/ Resume(t) PROVE Ordered'
    BY <1>5 DEF Suspend, Resume, Ordered, Sending, buffer, sending, record
  <1> QED BY <1>1, <1>2, <1>3, <1>4, <1>5 DEF CmdProc

\* While no two sends overlap, no command is lost, doubled, mixed up or overtaken,
\* however many times the buffer has wrapped around.
THEOREM InOrder == Spec => []ExecutedInOrder
  <1>1. Init => Ordered
    BY DEF Init, CommandInit, Ordered, Sending
  <1>2. Types /\ Ordered /\ [Next]_vars => Ordered'
    <2> SUFFICES ASSUME Types, Ordered, [Next]_vars PROVE Ordered'
      OBVIOUS
    <2>1. CASE UNCHANGED command
      BY <2>1 DEF Ordered, Sending, command, buffer, sending, record
    <2>2. TelemSrv \in Writers /\ FaultInj \in Writers
      BY ServerAssumption
    <2> QED
      BY <2>1, <2>2, SubmitOrdered, CmdProcOrdered
      DEF Next, Serve, AcceptStream, AcceptNone, CleanSlots, BroadcastFrame, BroadcastLog,
          EndCycle, Submitting, AcceptFault, AcceptSuspend, AcceptOther, Inject, Execute,
          Visit, Log, vars
  <1> QED BY InitType, NextType, OrderedIsInOrder, <1>1, <1>2, PTL DEF Spec

-----------------------------------------------------------------------------
(* Clients and slots *)

\* The connection of a client that is still there.
Open(c) == [who |-> c, open |-> TRUE]

\* A client asks exactly when one entry of the backlog is its open connection.
BacklogConsistent ==
    /\ \A c \in Clients :
         clients[c] = "asking" <=> \E n \in 1..Len(backlog) : backlog[n] = Open(c)
    /\ \A m, n \in 1..Len(backlog) : backlog[m].open /\ backlog[m] = backlog[n] => m = n

Consistent == BacklogConsistent /\ SlotsConsistent

\* A connection that is open is the open connection of a client.
LEMMA OpenConnections ==
  /\ \A c \in Clients : Open(c) \in Connections /\ Open(c).open /\ Open(c).who = c
  /\ \A c, d \in Clients : Open(c) = Open(d) => c = d
  /\ \A k \in Connections : k.open => k = Open(k.who) /\ k.who \in Clients
  /\ \A c \in Clients : Free # Open(c)
  BY SlotsAssumption DEF Open, Connections, Free, SlotsAssumption

\* A new connection is the only open one of its client.
LEMMA AskConsistent ==
  ASSUME SlotsTypeOK, Consistent, NEW c \in Clients, Ask(c)
  PROVE  Consistent'
  <1> USE DEF SlotsTypeOK
  <1>1. /\ backlog' = Append(backlog, Open(c)) /\ slot' = slot
        /\ clients[c] = "away" /\ clients' = [clients EXCEPT ![c] = "asking"]
    BY DEF Ask, Open
  <1>2. /\ Len(backlog') = Len(backlog) + 1 /\ Len(backlog) \in Nat
        /\ backlog'[Len(backlog) + 1] = Open(c)
        /\ \A n \in 1..Len(backlog) : backlog'[n] = backlog[n]
    BY <1>1, OpenConnections
  <1>3. \A n \in 1..Len(backlog) : backlog[n] # Open(c)
    BY <1>1 DEF Consistent, BacklogConsistent
  <1>4. BacklogConsistent'
    <2>1. ASSUME NEW d \in Clients
          PROVE  clients'[d] = "asking" <=> \E n \in 1..Len(backlog') : backlog'[n] = Open(d)
      <3>1. CASE d = c
        BY <1>1, <1>2, <3>1
      <3>2. CASE d # c
        <4>1. clients'[d] = "asking" <=> \E n \in 1..Len(backlog) : backlog[n] = Open(d)
          BY <1>1, <3>2 DEF Consistent, BacklogConsistent
        <4>2. Open(c) # Open(d)
          BY <3>2, OpenConnections
        <4> QED BY <1>2, <4>1, <4>2
      <3> QED BY <3>1, <3>2
    <2>2. ASSUME NEW m \in 1..Len(backlog'), NEW n \in 1..Len(backlog'),
                 backlog'[m].open, backlog'[m] = backlog'[n]
          PROVE  m = n
      BY <1>2, <1>3, <2>2 DEF Consistent, BacklogConsistent
    <2> QED BY <2>1, <2>2 DEF BacklogConsistent
  <1>5. SlotsConsistent'
    BY <1>1 DEF Consistent, SlotsConsistent
  <1> QED BY <1>4, <1>5 DEF Consistent

\* A client that leaves takes its open connection with it, wherever it is.
LEMMA LeaveConsistent ==
  ASSUME SlotsTypeOK, Consistent, NEW c \in Clients, Leave(c)
  PROVE  Consistent'
  <1> USE DEF SlotsTypeOK
  <1> DEFINE After(k) == IF k.who = c THEN Gone(k) ELSE k
  <1>1. /\ clients' = [clients EXCEPT ![c] = "away"]
        /\ Len(backlog') = Len(backlog) /\ \A n \in 1..Len(backlog) : backlog'[n] = After(backlog[n])
        /\ \A i \in SlotNumbers : slot'[i] = After(slot[i])
    BY DEF Leave
  <1>2. ASSUME NEW k \in Connections \cup {Free}
        PROVE  /\ After(k).open <=> k.open /\ k.who # c
               /\ After(k).open => After(k) = k
               /\ \A d \in Clients : After(k) = Open(d) <=> k = Open(d) /\ d # c
    <2>1. k.open \in BOOLEAN
      <3>1. CASE k \in Connections
        BY <3>1 DEF Connections
      <3>2. CASE k = Free
        BY <3>2 DEF Free
      <3> QED BY <3>1, <3>2
    <2>2. Gone(k).who = k.who /\ Gone(k).open = FALSE
      <3>1. CASE k \in Connections
        BY <3>1 DEF Gone, Connections
      <3>2. CASE k = Free
        BY <3>2 DEF Gone, Free
      <3> QED BY <3>1, <3>2
    <2>3. CASE k.who = c
      <3>1. After(k) = Gone(k) /\ ~After(k).open
        BY <2>2, <2>3
      <3>2. \A d \in Clients : After(k) # Open(d) /\ (k = Open(d) => d = c)
        BY <2>3, <3>1, OpenConnections
      <3> HIDE DEF After
      <3> QED BY <2>3, <3>1, <3>2
    <2>4. CASE k.who # c
      <3>1. After(k) = k
        BY <2>4
      <3>2. \A d \in Clients : k = Open(d) => d # c
        BY <2>4, OpenConnections
      <3> HIDE DEF After
      <3> QED BY <2>1, <2>4, <3>1, <3>2
    <2> QED BY <2>3, <2>4
  <1>3. /\ \A n \in 1..Len(backlog) : backlog[n] \in Connections \cup {Free}
        /\ \A i \in SlotNumbers : slot[i] \in Connections \cup {Free}
    OBVIOUS
  <1> HIDE DEF After
  <1>4. BacklogConsistent'
    <2>1. ASSUME NEW d \in Clients
          PROVE  clients'[d] = "asking" <=> \E n \in 1..Len(backlog') : backlog'[n] = Open(d)
      <3>1. CASE d = c
        BY <1>1, <1>2, <1>3, <3>1
      <3>2. CASE d # c
        BY <1>1, <1>2, <1>3, <3>2 DEF Consistent, BacklogConsistent
      <3> QED BY <3>1, <3>2
    <2>2. ASSUME NEW m \in 1..Len(backlog'), NEW n \in 1..Len(backlog'),
                 backlog'[m].open, backlog'[m] = backlog'[n]
          PROVE  m = n
      <3>1. backlog[m].open /\ backlog[m] = backlog[n]
        BY <1>1, <1>2, <1>3, <2>2
      <3> QED BY <1>1, <3>1 DEF Consistent, BacklogConsistent
    <2> QED BY <2>1, <2>2 DEF BacklogConsistent
  <1>5. SlotsConsistent'
    <2>1. ASSUME NEW d \in Clients
          PROVE  clients'[d] = "streaming" <=> \E i \in SlotNumbers : slot'[i] = Open(d)
      <3>1. CASE d = c
        BY <1>1, <1>2, <1>3, <3>1
      <3>2. CASE d # c
        <4>1. clients[d] = "streaming" <=> \E i \in SlotNumbers : slot[i] = Open(d)
          BY DEF Consistent, SlotsConsistent, Open
        <4> QED BY <1>1, <1>2, <1>3, <3>2, <4>1
      <3> QED BY <3>1, <3>2
    <2>2. ASSUME NEW i \in SlotNumbers, NEW j \in SlotNumbers, slot'[i].open, slot'[i] = slot'[j]
          PROVE  i = j
      <3>1. slot[i].open /\ slot[i] = slot[j]
        BY <1>1, <1>2, <1>3, <2>2
      <3> QED BY <3>1 DEF Consistent, SlotsConsistent
    <2> QED BY <2>1, <2>2 DEF SlotsConsistent, Open
  <1> QED BY <1>4, <1>5 DEF Consistent

\* Freeing the slots of clients that have gone takes no open connection away.
LEMMA FreeConsistent ==
  ASSUME SlotsTypeOK, Consistent, NEW dead \in SUBSET DeadSlots,
         slot' = [i \in SlotNumbers |-> IF i \in dead THEN Free ELSE slot[i]],
         UNCHANGED <<clients, backlog>>
  PROVE  Consistent'
  <1> USE DEF SlotsTypeOK
  <1>1. ~Free.open /\ \A c \in Clients : Free # Open(c)
    BY OpenConnections DEF Free
  <1>2. \A i \in dead : ~slot[i].open
    BY DEF DeadSlots
  <1>3. \A i \in SlotNumbers :
          /\ slot'[i].open <=> slot[i].open
          /\ slot'[i].open => slot'[i] = slot[i]
          /\ \A c \in Clients : slot'[i] = Open(c) <=> slot[i] = Open(c)
    BY <1>1, <1>2, OpenConnections
  <1>4. SlotsConsistent'
    <2>1. ASSUME NEW d \in Clients
          PROVE  clients'[d] = "streaming" <=> \E i \in SlotNumbers : slot'[i] = Open(d)
      BY <1>3 DEF Consistent, SlotsConsistent, Open
    <2>2. ASSUME NEW i \in SlotNumbers, NEW j \in SlotNumbers, slot'[i].open, slot'[i] = slot'[j]
          PROVE  i = j
      BY <1>3, <2>2 DEF Consistent, SlotsConsistent
    <2> QED BY <2>1, <2>2 DEF SlotsConsistent, Open
  <1> QED BY <1>4 DEF Consistent, BacklogConsistent

\* An accepted connection moves from the backlog to a free slot, or its client is refused.
LEMMA AcceptConsistent ==
  ASSUME SlotsTypeOK, Consistent, Accept
  PROVE  Consistent'
  <1> USE DEF SlotsTypeOK
  <1> DEFINE k == Head(backlog)
  <1>1. /\ backlog # <<>> /\ backlog' = Tail(backlog)
        /\ \/ Register(k)
           \/ (FreeSlots = {} \/ ~k.open) /\ Refuse(k)
    BY DEF Accept
  <1>2. /\ Len(backlog) \in Nat \ {0} /\ Len(backlog') = Len(backlog) - 1
        /\ k = backlog[1] /\ k \in Connections
        /\ \A n \in 1..Len(backlog') : backlog'[n] = backlog[n + 1]
    BY <1>1
  <1>3. ASSUME NEW d \in Clients
        PROVE  /\ k # Open(d) =>
                    (clients[d] = "asking" <=> \E n \in 1..Len(backlog') : backlog'[n] = Open(d))
               /\ k = Open(d) =>
                    clients[d] = "asking" /\ \A n \in 1..Len(backlog') : backlog'[n] # Open(d)
    <2>1. clients[d] = "asking" <=> \E n \in 1..Len(backlog) : backlog[n] = Open(d)
      BY DEF Consistent, BacklogConsistent
    <2>2. CASE k # Open(d)
      <3>1. ASSUME NEW n \in 1..Len(backlog), backlog[n] = Open(d)
            PROVE  \E m \in 1..Len(backlog') : backlog'[m] = Open(d)
        <4>1. n # 1
          BY <1>2, <2>2, <3>1
        <4>2. n - 1 \in 1..Len(backlog') /\ backlog'[n - 1] = backlog[n]
          BY <1>2, <4>1
        <4> QED BY <3>1, <4>2
      <3>2. ASSUME NEW m \in 1..Len(backlog'), backlog'[m] = Open(d)
            PROVE  \E n \in 1..Len(backlog) : backlog[n] = Open(d)
        BY <1>2, <3>2
      <3> QED BY <2>1, <2>2, <3>1, <3>2
    <2>3. CASE k = Open(d)
      <3>1. 1 \in 1..Len(backlog) /\ backlog[1].open
        BY <1>2, <2>3, OpenConnections
      <3>2. \A n \in 1..Len(backlog') : n + 1 \in 1..Len(backlog) /\ n + 1 # 1
        BY <1>2
      <3>3. \A n \in 1..Len(backlog') : backlog'[n] # backlog[1]
        BY <1>2, <3>1, <3>2 DEF Consistent, BacklogConsistent
      <3> QED BY <1>2, <2>1, <2>3, <3>1, <3>3
    <2> QED BY <2>2, <2>3
  <1>4. \A m, n \in 1..Len(backlog') : backlog'[m].open /\ backlog'[m] = backlog'[n] => m = n
    <2> SUFFICES ASSUME NEW m \in 1..Len(backlog'), NEW n \in 1..Len(backlog'),
                        backlog'[m].open, backlog'[m] = backlog'[n]
                 PROVE  m = n
      OBVIOUS
    <2>1. m + 1 \in 1..Len(backlog) /\ n + 1 \in 1..Len(backlog)
      BY <1>2
    <2>2. m + 1 = n + 1
      BY <1>2, <2>1 DEF Consistent, BacklogConsistent
    <2> QED BY <2>2
  <1>5. ASSUME NEW d \in Clients
        PROVE  clients[d] = "streaming" <=> \E i \in SlotNumbers : slot[i] = Open(d)
    BY DEF Consistent, SlotsConsistent, Open
  <1> HIDE DEF k
  <1>6. CASE Register(k)
    <2>1. PICK first \in FreeSlots : slot' = [slot EXCEPT ![first] = k]
      BY <1>6 DEF Register
    <2>2. /\ first \in SlotNumbers /\ slot[first] = Free /\ slot'[first] = k
          /\ \A i \in SlotNumbers \ {first} : slot'[i] = slot[i]
      BY <2>1 DEF FreeSlots
    <2>3. CASE ~k.open
      <3>1. clients' = clients /\ \A d \in Clients : k # Open(d)
        BY <1>6, <2>3, OpenConnections DEF Register
      <3>2. ~slot[first].open /\ \A d \in Clients : slot[first] # Open(d)
        BY <2>2, OpenConnections DEF Free
      <3>3. BacklogConsistent'
        BY <1>3, <1>4, <3>1 DEF BacklogConsistent
      <3>4. \A d \in Clients :
              clients'[d] = "streaming" <=> \E i \in SlotNumbers : slot'[i] = Open(d)
        BY <1>5, <2>2, <3>1, <3>2
      <3>5. \A i, j \in SlotNumbers : slot'[i].open /\ slot'[i] = slot'[j] => i = j
        BY <2>2, <2>3, <3>2 DEF Consistent, SlotsConsistent
      <3> QED BY <3>3, <3>4, <3>5 DEF Consistent, SlotsConsistent, Open
    <2>4. CASE k.open
      <3>1. PICK c \in Clients : k = Open(c) /\ c = k.who
        BY <1>2, <2>4, OpenConnections
      <3>2. clients' = [clients EXCEPT ![c] = "streaming"]
        BY <1>6, <2>4, <3>1 DEF Register
      <3>3. \A i \in SlotNumbers : slot[i] # Open(c)
        BY <1>3, <1>5, <3>1
      <3>4. BacklogConsistent'
        <4>1. ASSUME NEW d \in Clients
              PROVE  clients'[d] = "asking" <=> \E n \in 1..Len(backlog') : backlog'[n] = Open(d)
          <5>1. CASE d = c
            BY <1>3, <3>1, <3>2, <5>1
          <5>2. CASE d # c
            BY <1>3, <3>1, <3>2, <5>2, OpenConnections
          <5> QED BY <5>1, <5>2
        <4> QED BY <1>4, <4>1 DEF BacklogConsistent
      <3>5. ASSUME NEW d \in Clients
            PROVE  clients'[d] = "streaming" <=> \E i \in SlotNumbers : slot'[i] = Open(d)
        <4>1. CASE d = c
          BY <2>2, <3>1, <3>2, <4>1
        <4>2. CASE d # c
          BY <1>5, <2>2, <3>1, <3>2, <4>2, OpenConnections
        <4> QED BY <4>1, <4>2
      <3>6. \A i, j \in SlotNumbers : slot'[i].open /\ slot'[i] = slot'[j] => i = j
        BY <2>2, <3>1, <3>3 DEF Consistent, SlotsConsistent
      <3> QED BY <3>4, <3>5, <3>6 DEF Consistent, SlotsConsistent, Open
    <2> QED BY <2>3, <2>4
  <1>7. CASE Refuse(k)
    <2>1. slot' = slot
      BY <1>7 DEF Refuse
    <2>2. CASE ~k.open
      <3>1. clients' = clients /\ \A d \in Clients : k # Open(d)
        BY <1>7, <2>2, OpenConnections DEF Refuse
      <3> QED BY <1>3, <1>4, <2>1, <3>1 DEF Consistent, BacklogConsistent, SlotsConsistent
    <2>3. CASE k.open
      <3>1. PICK c \in Clients : k = Open(c) /\ c = k.who
        BY <1>2, <2>3, OpenConnections
      <3>2. clients' = [clients EXCEPT ![c] = "backoff"]
        BY <1>7, <2>3, <3>1 DEF Refuse
      <3>3. BacklogConsistent'
        <4>1. ASSUME NEW d \in Clients
              PROVE  clients'[d] = "asking" <=> \E n \in 1..Len(backlog') : backlog'[n] = Open(d)
          <5>1. CASE d = c
            BY <1>3, <3>1, <3>2, <5>1
          <5>2. CASE d # c
            BY <1>3, <3>1, <3>2, <5>2, OpenConnections
          <5> QED BY <5>1, <5>2
        <4> QED BY <1>4, <4>1 DEF BacklogConsistent
      <3>4. \A d \in Clients : clients'[d] = "streaming" <=> clients[d] = "streaming"
        BY <1>3, <3>1, <3>2
      <3> QED BY <2>1, <3>3, <3>4 DEF Consistent, SlotsConsistent
    <2> QED BY <2>2, <2>3
  <1> QED BY <1>1, <1>6, <1>7

\* A client streams exactly when one slot holds its open connection, for any number of
\* clients and slots and whoever leaves when.
THEOREM SlotsSafe == Spec => []SlotsConsistent
  <1>1. Init => Consistent
    <2> SUFFICES ASSUME Init PROVE Consistent
      OBVIOUS
    <2>1. \A i \in SlotNumbers : slot[i] = Free
      BY DEF Init, SlotsInit
    <2>2. SlotsConsistent
      BY <2>1, OpenConnections DEF Init, SlotsInit, SlotsConsistent, Open, Free
    <2> QED BY <2>2 DEF Init, SlotsInit, Consistent, BacklogConsistent
  <1>2. Types /\ Consistent /\ [Next]_vars => Consistent'
    <2> SUFFICES ASSUME Types, Consistent, [Next]_vars PROVE Consistent'
      OBVIOUS
    <2>0. SlotsTypeOK
      BY DEF Types
    <2>1. CASE Accept
      BY <2>0, <2>1, AcceptConsistent
    <2>2. CASE CleanUp
      BY <2>0, <2>2, FreeConsistent DEF CleanUp
    <2>3. ASSUME NEW queued, Broadcast(queued) PROVE Consistent'
      BY <2>0, <2>3, FreeConsistent DEF Broadcast
    <2>4. ASSUME NEW c \in Clients, Ask(c) \/ Leave(c) PROVE Consistent'
      BY <2>0, <2>4, AskConsistent, LeaveConsistent
    <2>5. ASSUME UNCHANGED <<clients, backlog, slot>> PROVE Consistent'
      BY <2>5 DEF Consistent, BacklogConsistent, SlotsConsistent
    <2>6. ASSUME Retry, UNCHANGED <<backlog, slot>> PROVE Consistent'
      <3>1. \A c \in Clients : /\ clients'[c] = "asking" <=> clients[c] = "asking"
                               /\ clients'[c] = "streaming" <=> clients[c] = "streaming"
        BY <2>6 DEF Retry
      <3> QED BY <2>6, <3>1 DEF Consistent, BacklogConsistent, SlotsConsistent
    <2> QED
      BY <2>1, <2>2, <2>3, <2>4, <2>5, <2>6
      DEF Next, Serve, AcceptStream, AcceptNone, CleanSlots, BroadcastFrame, BroadcastLog,
          EndCycle, Submitting, AcceptFault, AcceptSuspend, AcceptOther, LogsRequest, Inject,
          Execute, Visit, Log, LogLine, vars, streams
  <1>3. Consistent => SlotsConsistent
    BY DEF Consistent
  <1> QED BY InitType, NextType, <1>1, <1>2, <1>3, PTL DEF Spec
=============================================================================
