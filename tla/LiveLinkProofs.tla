---------------------------- MODULE LiveLinkProofs ----------------------------
(***************************************************************************)
(* The live link for any craft, any frames and any number of broken          *)
(* connections: there is one connection, or one timer that makes it; the     *)
(* lists of the store keep their lengths; no "fixed" pill comes out of the   *)
(* blue; and the pages show the latest of what was sent, in order.  What was *)
(* sent last is the last of its kind in the queue of the socket, or on the   *)
(* screen; the figures of the fleet are sums over the craft.                *)
(***************************************************************************)
EXTENDS LiveLink, SequenceTheorems, FiniteSetTheorems, WellFoundedInduction, TLAPS

Frames ==
    {[mode |-> s.mode, faults |-> s.faults, strain |-> s.strain, sn |-> n] :
        s \in Shapes, n \in 1..MaxSends}

\* What may be in a queue.
Messages ==
    {[type |-> "frame", craft |-> c, frame |-> f, health |-> HealthScore(f)] :
        c \in Craft, f \in Frames}
    \cup [type : {"log", "anomaly"}, sn : Nat]
    \cup [type : {"relay"}, links : Links]
    \cup [type : {"hello", "craft"}, crafts : [Craft -> Nat]]

States == {"connecting", "failing", "open", "cut", "closed"}

Sockets == [state : States, served : BOOLEAN, from : Nat, queue : Seq(Messages)]

-----------------------------------------------------------------------------
(* The connection *)

LinkTypes ==
    /\ latest \in [Craft -> Frames \cup {NoFrame}]
    /\ framed \in Nat /\ others \in Nat
    /\ mounted \in 0..2
    /\ socks \in Seq(Sockets)
    /\ timers \in Nat
    /\ reconnectDelay \in 1000..6000

\* Before the page is loaded there is nothing, and until its effect has run for the second
\* time nobody answers.
Loading ==
    /\ mounted = 0 => socks = <<>> /\ ws = 0 /\ timers = 0
    /\ mounted = 1 => socks[1].state = "connecting" /\ Len(socks) = 1
    /\ mounted < 2 => \A k \in Sock : ~socks[k].served

\* Only the last socket lives; when it does not, there is the timer that replaces it.
OneLink ==
    /\ mounted > 0 => ws \in Sock /\ timers = IF Lives(ws) THEN 0 ELSE 1
    /\ \A k \in Sock : Lives(k) => k = ws
    /\ \A k \in Sock : socks[k].served => socks[k].state \in {"connecting", "open"}

LinkInv == LinkTypes /\ Loading /\ OneLink

\* The sockets that were opened and whose end the browser has not noticed.
Showing == {k \in Sock : socks[k].state \in {"open", "cut"}}

\* A message more, or one less, is a queue again.
LEMMA QueueFacts ==
    ASSUME NEW q \in Seq(Messages), NEW msg \in Messages
    PROVE  /\ Append(q, msg) \in Seq(Messages)
           /\ \A n \in 0..Len(q) : SubSeq(q, 1, n) \in Seq(Messages)
           /\ q # <<>> => Tail(q) \in Seq(Messages)
  BY DEF Messages

\* No socket at all before the page is loaded.
LEMMA InitLink == Init => LinkInv
<1> SUFFICES ASSUME Init PROVE LinkInv
  OBVIOUS
<1>1. LinkTypes
  <2>1. socks = <<>> /\ latest = [c \in Craft |-> NoFrame] /\ framed = 0 /\ others = 0
    BY DEF Init
  <2>2. mounted = 0 /\ timers = 0 /\ reconnectDelay = 1000
    BY DEF Init
  <2>3. socks \in Seq(Sockets)
    BY <2>1, EmptySeq
  <2>4. latest \in [Craft -> Frames \cup {NoFrame}] /\ framed \in Nat /\ others \in Nat
    BY <2>1
  <2>5. QED
    BY <2>2, <2>3, <2>4 DEF LinkTypes
<1>2. Sock = {} /\ mounted = 0
  BY DEF Init, Sock
<1>3. Loading /\ OneLink
  BY <1>2 DEF Init, Loading, OneLink
<1>4. QED
  BY <1>1, <1>3 DEF LinkInv

\* Socket k is replaced by one that serves as it says; every other keeps its state.
LEMMA ChangeOne ==
    ASSUME LinkTypes, NEW k \in Sock, NEW s \in Sockets, socks' = [socks EXCEPT ![k] = s]
    PROVE  /\ socks' \in Seq(Sockets) /\ Sock' = Sock /\ Len(socks') = Len(socks)
           /\ socks'[k] = s
           /\ \A j \in Sock : j # k => socks'[j] = socks[j]
  BY DEF LinkTypes, Sock

\* A socket that changes without dying or coming to life, and is not opened or cut either.
LEMMA SameState ==
    ASSUME LinkInv, NEW k \in Sock, NEW s \in Sockets,
           socks' = [socks EXCEPT ![k] = s],
           s.state = socks[k].state,
           s.served => mounted = 2 /\ s.state \in {"connecting", "open"},
           UNCHANGED <<latest, framed, others, mounted, ws, timers, reconnectDelay>>
    PROVE  LinkInv' /\ Showing' = Showing
<1> USE DEF LinkInv
<1>1. /\ socks' \in Seq(Sockets) /\ Sock' = Sock /\ Len(socks') = Len(socks)
      /\ socks'[k] = s
      /\ \A j \in Sock : j # k => socks'[j] = socks[j]
  BY ChangeOne
<1>2. \A j \in Sock : socks'[j].state = socks[j].state /\ (Lives(j)' <=> Lives(j))
  BY <1>1 DEF Lives
<1>3. LinkTypes'
  BY <1>1 DEF LinkTypes
<1>4. Loading'
  <2>1. mounted = 0 => socks' = <<>>
    BY <1>1 DEF Loading, LinkTypes, Sock
  <2>2. mounted = 1 => 1 \in Sock
    BY DEF Loading, LinkTypes, Sock
  <2>3. QED
    BY <1>1, <1>2, <2>1, <2>2 DEF Loading
<1>5. OneLink' /\ Showing' = Showing
  BY <1>1, <1>2 DEF OneLink, Showing
<1>6. QED
  BY <1>3, <1>4, <1>5

\* What connectLive leaves behind: a socket that lives, and that nobody serves yet.
LEMMA ConnectFacts ==
    ASSUME LinkInv, ConnectLive,
           \/ mounted < 2 /\ mounted' = mounted + 1 /\ timers' = timers
           \/ mounted' = mounted /\ timers > 0 /\ timers' = timers - 1,
           UNCHANGED <<latest, framed, others, reconnectDelay>>
    PROVE  LinkInv' /\ Showing' = Showing
<1> USE DEF LinkInv
<1> DEFINE fresh == [state |-> "connecting", served |-> FALSE, from |-> 0, queue |-> <<>>]
<1>1. CASE ws # 0 /\ Lives(ws)
  <2>1. UNCHANGED <<socks, ws>>
    BY <1>1 DEF ConnectLive
  <2>2. mounted > 0
    BY <1>1 DEF Loading, LinkTypes
  <2>3. ws \in Sock /\ timers = 0
    BY <1>1, <2>2 DEF OneLink
  <2>4. mounted' = 2 /\ mounted = 1 /\ timers' = timers
    BY <2>2, <2>3 DEF LinkTypes
  <2>5. LinkTypes'
    BY <2>1, <2>4 DEF LinkTypes
  <2>6. Loading' /\ OneLink' /\ Showing' = Showing
    BY <2>1, <2>2, <2>4 DEF Loading, OneLink, Lives, Sock, Showing
  <2>7. QED
    BY <2>5, <2>6
<1>2. CASE ~(ws # 0 /\ Lives(ws))
  <2>1. socks' = Append(socks, fresh) /\ ws' = Len(socks) + 1
    BY <1>2 DEF ConnectLive, NewSocket
  <2>2. fresh \in Sockets
    BY EmptySeq DEF Sockets, States
  <2> HIDE DEF fresh
  <2>3. /\ socks' \in Seq(Sockets) /\ Len(socks') = Len(socks) + 1
        /\ Sock' = Sock \cup {ws'} /\ ws' \in Sock'
        /\ socks'[ws'] = fresh
        /\ \A k \in Sock : socks'[k] = socks[k]
    BY <2>1, <2>2 DEF LinkTypes, Sock
  <2>4. fresh.state = "connecting" /\ ~fresh.served
    BY DEF fresh
  <2>5. \A k \in Sock : ~Lives(k)
    <3>1. CASE mounted = 0
      BY <3>1 DEF Loading, Sock
    <3>2. CASE mounted # 0
      BY <3>2, <1>2 DEF OneLink, LinkTypes, Sock
    <3>3. QED
      BY <3>1, <3>2
  <2>6. timers' = 0 /\ (mounted = 0 => socks = <<>>) /\ mounted # 1 /\ mounted' \in 1..2
    <3>1. CASE mounted = 0
      BY <3>1 DEF Loading, LinkTypes
    <3>2. CASE mounted # 0
      <4>1. ws \in Sock /\ timers = 1
        BY <3>2, <2>5 DEF OneLink, LinkTypes
      <4>2. mounted # 1
        BY <2>5, <4>1 DEF Loading, Lives, LinkTypes, Sock
      <4>3. QED
        BY <3>2, <4>1, <4>2 DEF LinkTypes
    <3>3. QED
      BY <3>1, <3>2
  <2>7. LinkTypes'
    BY <2>3, <2>6 DEF LinkTypes
  <2>8. \A k \in Sock : (Lives(k)' <=> Lives(k)) /\ Lives(ws)'
    BY <2>3, <2>4 DEF Lives
  <2>9. Loading'
    BY <2>3, <2>4, <2>6 DEF Loading, LinkTypes, Sock
  <2>10. OneLink'
    BY <2>3, <2>4, <2>5, <2>6, <2>8 DEF OneLink, Lives
  <2>11. Showing' = {} /\ Showing = {}
    BY <2>3, <2>4, <2>5 DEF Showing, Lives
  <2>12. QED
    BY <2>7, <2>9, <2>10, <2>11
<1>3. QED
  BY <1>1, <1>2

\* The statuses are numbers of broadcasts.
LEMMA StatusType ==
    ASSUME LinkTypes
    PROVE  Statuses \in [Craft -> Nat]
  BY DEF LinkTypes, Statuses, Frames

\* A message goes to the sockets that are served; it changes no state.
LEMMA BroadcastInv ==
    ASSUME LinkInv, NEW msg \in Messages, Broadcast(msg),
           latest' \in [Craft -> Frames \cup {NoFrame}], framed' \in Nat, others' \in Nat
    PROVE  LinkInv' /\ Showing' = Showing
<1> USE DEF LinkInv
<1>1. Sock = 1..Len(socks) /\ Len(socks) \in Nat /\ socks' = Sent(msg)
  BY DEF LinkTypes, Sock, Broadcast
<1>2. \A k \in Sock :
         /\ Sent(msg)[k] \in Sockets
         /\ Sent(msg)[k].state = socks[k].state
         /\ Sent(msg)[k].served = socks[k].served
  <2> SUFFICES ASSUME NEW k \in Sock
               PROVE  /\ Sent(msg)[k] \in Sockets
                      /\ Sent(msg)[k].state = socks[k].state
                      /\ Sent(msg)[k].served = socks[k].served
    OBVIOUS
  <2>1. socks[k] \in Sockets
    BY DEF LinkTypes, Sock
  <2>2. Append(socks[k].queue, msg) \in Seq(Messages)
    BY <2>1, QueueFacts DEF Sockets
  <2>3. Sent(msg)[k] = IF socks[k].served
                       THEN [socks[k] EXCEPT !.queue = Append(@, msg)] ELSE socks[k]
    BY DEF Sent, Sock
  <2>4. QED
    BY <2>1, <2>2, <2>3 DEF Sockets
<1>3. socks' \in Seq(Sockets) /\ Sock' = Sock /\ Len(socks') = Len(socks)
  <2>1. Sent(msg) = [k \in 1..Len(socks) |-> Sent(msg)[k]]
    BY <1>1 DEF Sent, Sock
  <2>2. Sent(msg) \in [1..Len(socks) -> Sockets]
    BY <1>1, <1>2, <2>1
  <2>3. QED
    BY <1>1, <2>2 DEF Sock
<1>4. \A k \in Sock : /\ socks'[k].state = socks[k].state /\ (Lives(k)' <=> Lives(k))
                      /\ socks'[k].served = socks[k].served
  BY <1>1, <1>2 DEF Lives
<1>5. UNCHANGED <<mounted, ws, timers, reconnectDelay>>
  BY DEF Broadcast
<1>6. LinkTypes'
  BY <1>3, <1>5 DEF LinkTypes
<1>7. Loading'
  <2>1. mounted = 0 => socks' = <<>>
    BY <1>3 DEF Loading, LinkTypes, Sock
  <2>2. mounted = 1 => 1 \in Sock
    BY DEF Loading, LinkTypes, Sock
  <2>3. QED
    BY <1>3, <1>4, <1>5, <2>1, <2>2 DEF Loading
<1>8. OneLink' /\ Showing' = Showing
  BY <1>3, <1>4, <1>5 DEF OneLink, Showing
<1>9. QED
  BY <1>6, <1>7, <1>8

\* All broadcasts are messages.
LEMMA FrameLink ==
    ASSUME LinkInv, NEW c \in Craft, BroadcastFrame(c)
    PROVE  LinkInv' /\ Showing' = Showing
<1>1. PICK s \in Shapes :
         LET f == [mode |-> s.mode, faults |-> s.faults, strain |-> s.strain, sn |-> sn]
         IN  /\ latest' = [latest EXCEPT ![c] = f]
             /\ Broadcast([type |-> "frame", craft |-> c, frame |-> f,
                           health |-> HealthScore(f)])
  BY DEF BroadcastFrame
<1> DEFINE f == [mode |-> s.mode, faults |-> s.faults, strain |-> s.strain, sn |-> sn]
           msg == [type |-> "frame", craft |-> c, frame |-> f, health |-> HealthScore(f)]
<1>2. sn \in 1..MaxSends
  BY LiveAssumption DEF LinkInv, LinkTypes, BroadcastFrame, sn
<1>3. f \in Frames
  BY <1>2 DEF Frames
<1>4. msg \in Messages
  <2> HIDE DEF f
  <2>1. QED
    BY <1>3 DEF Messages
<1>5. latest' \in [Craft -> Frames \cup {NoFrame}] /\ Broadcast(msg)
  <2>1. latest' = [latest EXCEPT ![c] = f] /\ Broadcast(msg)
    BY <1>1
  <2> HIDE DEF f, msg
  <2>2. QED
    BY <1>3, <2>1 DEF LinkInv, LinkTypes
<1>6. framed' \in Nat /\ others' \in Nat
  BY DEF BroadcastFrame, LinkInv, LinkTypes
<1> HIDE DEF f, msg
<1>7. QED
  BY <1>4, <1>5, <1>6, BroadcastInv

\* A broadcast other than a frame joins the queues of the sockets that are served.
LEMMA OtherLink ==
    ASSUME LinkInv, BroadcastOther
    PROVE  LinkInv' /\ Showing' = Showing
<1>1. sn \in Nat /\ Statuses \in [Craft -> Nat]
  BY StatusType DEF LinkInv, LinkTypes, sn
<1>2. \E msg \in Messages : Broadcast(msg)
  <2>1. CASE \E type \in {"log", "anomaly"} : Broadcast([type |-> type, sn |-> sn])
    <3>1. PICK type \in {"log", "anomaly"} : Broadcast([type |-> type, sn |-> sn])
      BY <2>1
    <3>2. [type |-> type, sn |-> sn] \in Messages
      BY <1>1 DEF Messages
    <3>3. QED
      BY <3>1, <3>2
  <2>2. CASE \E links \in Links : Broadcast([type |-> "relay", links |-> links])
    <3>1. PICK links \in Links : Broadcast([type |-> "relay", links |-> links])
      BY <2>2
    <3>2. [type |-> "relay", links |-> links] \in Messages
      BY DEF Messages
    <3>3. QED
      BY <3>1, <3>2
  <2>3. CASE Broadcast([type |-> "craft", crafts |-> Statuses])
    <3>1. [type |-> "craft", crafts |-> Statuses] \in Messages
      BY <1>1 DEF Messages
    <3>2. QED
      BY <2>3, <3>1
  <2>4. QED
    BY <2>1, <2>2, <2>3 DEF BroadcastOther
<1>3. latest' \in [Craft -> Frames \cup {NoFrame}] /\ framed' \in Nat /\ others' \in Nat
  BY DEF BroadcastOther, LinkInv, LinkTypes
<1>4. QED
  BY <1>2, <1>3, BroadcastInv

\* A served socket is one of a page that has been loaded.
LEMMA ServedFacts ==
    ASSUME LinkInv, NEW k \in Sock, socks[k].served
    PROVE  mounted = 2 /\ socks[k].state \in {"connecting", "open"}
  BY DEF LinkInv, LinkTypes, Loading, OneLink

\* A connection that is accepted is still the one that lives.
LEMMA AcceptLink ==
    ASSUME LinkInv, NEW k \in Sock, Accept(k)
    PROVE  LinkInv' /\ Showing' = Showing
<1> DEFINE hello == [type |-> "hello", crafts |-> Statuses]
           s == [state |-> "connecting", served |-> TRUE, from |-> framed + others,
                 queue |-> <<hello>>]
<1>1. hello \in Messages
  BY StatusType DEF LinkInv, Messages
<1>2. s \in Sockets
  <2>1. framed + others \in Nat
    BY DEF LinkInv, LinkTypes
  <2> HIDE DEF hello
  <2>2. <<hello>> \in Seq(Messages)
    BY <1>1
  <2>3. QED
    BY <2>1, <2>2 DEF Sockets, States
<1>3. /\ socks' = [socks EXCEPT ![k] = s] /\ s.state = socks[k].state /\ mounted = 2
      /\ UNCHANGED <<latest, framed, others, mounted, ws, timers, reconnectDelay>>
  BY DEF Accept, server
<1>4. s.state \in {"connecting", "open"}
  OBVIOUS
<1> HIDE DEF s
<1>5. QED
  BY <1>2, <1>3, <1>4, SameState

\* A message that is handled changes the queue of its socket only.
LEMMA ReceiveLink ==
    ASSUME LinkInv, NEW k \in Sock, Receive(k)
    PROVE  LinkInv' /\ Showing' = Showing /\ Head(socks[k].queue) \in Messages
<1>1. socks[k] \in Sockets
  BY DEF LinkInv, LinkTypes, Sock
<1>2. socks[k].queue \in Seq(Messages) /\ socks[k].queue # <<>>
  BY <1>1 DEF Receive, Sockets
<1>3. Head(socks[k].queue) \in Messages
  BY <1>2
<1> DEFINE s == [socks[k] EXCEPT !.queue = Tail(@)]
<1>4. Tail(socks[k].queue) \in Seq(Messages)
  BY <1>2, <1>3, QueueFacts
<1>5. s \in Sockets /\ s.state = socks[k].state /\ s.served = socks[k].served
  BY <1>1, <1>4 DEF Sockets
<1>6. /\ socks' = [socks EXCEPT ![k] = s]
      /\ UNCHANGED <<latest, framed, others, mounted, ws, timers, reconnectDelay>>
  BY DEF Receive, server
<1>7. s.served => mounted = 2 /\ s.state \in {"connecting", "open"}
  BY <1>5, ServedFacts
<1> HIDE DEF s
<1>8. LinkInv' /\ Showing' = Showing
  BY <1>5, <1>6, <1>7, SameState
<1>9. QED
  BY <1>3, <1>8

\* A socket is opened, cut, refused or closed.
Becomes(k, s) ==
    /\ socks' = [socks EXCEPT ![k] = s]
    /\ UNCHANGED <<latest, framed, others, mounted, ws>>
    /\ mounted = 2
    /\ Lives(k)
    /\ reconnectDelay' \in 1000..6000
    /\ s.state = "closed" => timers' = timers + 1
    /\ s.state # "closed" => timers' = timers
    /\ s.served => s.state \in {"connecting", "open"}

\* It is the only one that lives.
LEMMA StateLink ==
    ASSUME LinkInv, NEW k \in Sock, NEW s \in Sockets, Becomes(k, s)
    PROVE  LinkInv' /\ Showing' = IF s.state \in {"open", "cut"} THEN {k} ELSE {}
<1>0. LinkTypes
  BY DEF LinkInv
<1>1. /\ socks' \in Seq(Sockets) /\ Sock' = Sock /\ Len(socks') = Len(socks)
      /\ socks'[k] = s
      /\ \A j \in Sock : j # k => socks'[j] = socks[j]
  BY <1>0 DEF LinkTypes, Sock, Becomes
<1> USE DEF LinkInv, Becomes
<1>2. k = ws /\ \A j \in Sock : j # k => ~Lives(j)
  BY DEF OneLink
<1>3. \A j \in Sock : j # k => ~Lives(j)' /\ socks'[j].state \notin {"open", "cut"}
  BY <1>1, <1>2 DEF Lives
<1>4. s.state \in States
  BY DEF Sockets
<1>5. Lives(k)' <=> s.state # "closed"
  BY <1>1, <1>4 DEF Lives, States
<1>6. timers = 0
  BY <1>2 DEF OneLink
<1>7. LinkTypes'
  BY <1>1, <1>6 DEF LinkTypes
<1>8. Loading'
  BY DEF Loading
<1>9. OneLink'
  <2>1. ws' \in Sock' /\ timers' = IF Lives(ws)' THEN 0 ELSE 1
    BY <1>1, <1>2, <1>5, <1>6
  <2>2. \A j \in Sock : Lives(j)' => j = ws
    BY <1>2, <1>3
  <2>3. \A j \in Sock : socks'[j].served => socks'[j].state \in {"connecting", "open"}
    BY <1>1 DEF OneLink
  <2>4. QED
    BY <1>1, <2>1, <2>2, <2>3 DEF OneLink, Lives
<1>10. Showing' = IF s.state \in {"open", "cut"} THEN {k} ELSE {}
  BY <1>1, <1>3 DEF Showing
<1>11. QED
  BY <1>7, <1>8, <1>9, <1>10

\* Only one socket lives, so none other shows.
LEMMA ShowingFacts ==
    ASSUME LinkInv, NEW k \in Sock, Lives(k)
    PROVE  Showing = IF socks[k].state \in {"open", "cut"} THEN {k} ELSE {}
<1>1. \A j \in Sock : Lives(j) => j = k
  BY DEF LinkInv, OneLink
<1>2. \A j \in Showing : j \in Sock /\ Lives(j)
  BY DEF Showing, Lives
<1>3. QED
  BY <1>1, <1>2 DEF Showing

\* What is known of a socket that lives.
LEMMA SockFacts ==
    ASSUME LinkInv, NEW k \in Sock
    PROVE  /\ socks[k] \in Sockets
           /\ socks[k].queue \in Seq(Messages)
           /\ socks[k].state \in States
           /\ reconnectDelay \in 1000..6000
           /\ timers \in Nat
           /\ socks[k].state # "connecting" => mounted = 2
<1>1. socks[k] \in Sockets
  BY DEF LinkInv, LinkTypes, Sock
<1>2. socks[k].queue \in Seq(Messages) /\ socks[k].state \in States
  BY <1>1 DEF Sockets
<1>3. reconnectDelay \in 1000..6000 /\ timers \in Nat
  BY DEF LinkInv, LinkTypes
<1>4. socks[k].state # "connecting" => mounted = 2
  BY DEF LinkInv, LinkTypes, Loading, Sock
<1>5. QED
  BY <1>1, <1>2, <1>3, <1>4

\* The header turns to UPLINK with the socket it tells of.
LEMMA OpenLink ==
    ASSUME LinkInv, NEW k \in Sock, Open(k)
    PROVE  LinkInv' /\ Showing' = {k}
<1> DEFINE s == [socks[k] EXCEPT !.state = "open"]
<1>1. s \in Sockets /\ s.state = "open"
  BY SockFacts DEF Sockets, States
<1>2. /\ socks' = [socks EXCEPT ![k] = s]
      /\ UNCHANGED <<latest, framed, others, mounted, ws>> /\ timers' = timers
      /\ reconnectDelay' \in 1000..6000
  BY DEF Open, server
<1>3. mounted = 2 /\ Lives(k)
  BY ServedFacts DEF Open, Lives
<1> HIDE DEF s
<1>4. Becomes(k, s)
  BY <1>1, <1>2, <1>3 DEF Becomes
<1>5. QED
  BY <1>1, <1>4, StateLink

\* A socket that is cut shows as it did, until the browser notices.
LEMMA CutLink ==
    ASSUME LinkInv, NEW k \in Sock, Cut(k)
    PROVE  LinkInv' /\ Showing' = Showing
<1> DEFINE q == socks[k]
<1>1. PICK n \in 0..Len(q.queue) :
         socks' = [socks EXCEPT ![k].served = FALSE, ![k].queue = SubSeq(@, 1, n),
                                ![k].state = IF @ = "connecting" THEN "failing" ELSE "cut"]
  BY DEF Cut
<1> DEFINE to == IF q.state = "connecting" THEN "failing" ELSE "cut"
           s == [q EXCEPT !.served = FALSE, !.queue = SubSeq(@, 1, n), !.state = to]
<1>2. q \in Sockets /\ q.queue \in Seq(Messages) /\ Len(q.queue) \in Nat
  BY SockFacts
<1>3. mounted = 2 /\ q.state \in {"connecting", "open"}
  BY ServedFacts DEF Cut
<1>4. to \in {"failing", "cut"}
  OBVIOUS
<1>5. SubSeq(q.queue, 1, n) \in Seq(Messages)
  BY <1>2, SubSeqProperties
<1>6. s \in Sockets /\ s.state = to /\ s.served = FALSE
  <2> HIDE DEF to
  <2>1. QED
    BY <1>2, <1>4, <1>5 DEF Sockets, States
<1>7. socks' = [socks EXCEPT ![k] = s]
  BY <1>1, Zenon
<1>8. /\ UNCHANGED <<latest, framed, others, mounted, ws>> /\ timers' = timers
      /\ reconnectDelay' = reconnectDelay
  BY DEF Cut, server
<1>9. Lives(k)
  BY <1>3 DEF Lives
<1>10. reconnectDelay' \in 1000..6000
  BY <1>8 DEF LinkInv, LinkTypes
<1>11. Becomes(k, s)
  <2> HIDE DEF s, to
  <2>1. QED
    BY <1>3, <1>4, <1>6, <1>7, <1>8, <1>9, <1>10 DEF Becomes
<1>12. LinkInv' /\ Showing' = IF s.state \in {"open", "cut"} THEN {k} ELSE {}
  <2> HIDE DEF s
  <2>1. QED
    BY <1>6, <1>11, StateLink
<1>13. Showing = IF q.state \in {"open", "cut"} THEN {k} ELSE {}
  BY <1>9, ShowingFacts
<1>14. q.state \in {"open", "cut"} <=> s.state \in {"open", "cut"}
  BY <1>3, <1>6
<1>15. QED
  BY <1>12, <1>13, <1>14

\* A socket that is refused lives until onclose.
LEMMA RefuseLink ==
    ASSUME LinkInv, NEW k \in Sock, Refuse(k)
    PROVE  LinkInv' /\ Showing' = Showing
<1> DEFINE s == [socks[k] EXCEPT !.state = "failing"]
<1>1. s \in Sockets /\ s.state = "failing" /\ s.served = socks[k].served
  BY SockFacts DEF Sockets, States
<1>2. ~s.served /\ Lives(k) /\ mounted = 2
  BY <1>1 DEF Refuse, Lives
<1>3. /\ socks' = [socks EXCEPT ![k] = s] /\ timers' = timers
      /\ UNCHANGED <<latest, framed, others, mounted, ws>>
      /\ reconnectDelay' = reconnectDelay
  BY DEF Refuse, server
<1>4. reconnectDelay' \in 1000..6000
  BY <1>3 DEF LinkInv, LinkTypes
<1>5. Showing = {}
  BY <1>2, ShowingFacts DEF Refuse
<1> HIDE DEF s
<1>6. Becomes(k, s)
  BY <1>1, <1>2, <1>3, <1>4 DEF Becomes
<1>7. LinkInv' /\ Showing' = {}
  BY <1>1, <1>6, StateLink
<1>8. QED
  BY <1>5, <1>7

\* The end of a socket leaves the timer in its place.
LEMMA CloseLink ==
    ASSUME LinkInv, NEW k \in Sock, OnClose(k)
    PROVE  LinkInv' /\ Showing' = {}
<1> DEFINE s == [state |-> "closed", served |-> FALSE, from |-> 0, queue |-> <<>>]
<1>1. s \in Sockets /\ s.state = "closed" /\ s.served = FALSE
  BY EmptySeq DEF Sockets, States
<1>2. reconnectDelay' \in 1000..6000
  <2>1. reconnectDelay \in 1000..6000 /\ reconnectDelay' = NextDelay
    BY DEF OnClose, LinkInv, LinkTypes
  <2>2. QED
    BY <2>1 DEF NextDelay
<1>3. /\ socks' = [socks EXCEPT ![k] = s] /\ timers' = timers + 1
      /\ UNCHANGED <<latest, framed, others, mounted, ws>>
  BY DEF OnClose, server
<1>4. Lives(k) /\ mounted = 2
  BY SockFacts DEF OnClose, Lives
<1> HIDE DEF s
<1>5. Becomes(k, s)
  BY <1>1, <1>2, <1>3, <1>4 DEF Becomes
<1>6. QED
  BY <1>1, <1>5, StateLink

\* The header follows the socket.
Header == connected <=> Showing # {}

\* Every step keeps the invariant of the connection.
LEMMA LinkStep ==
    ASSUME LinkInv, Header, [Next]_vars
    PROVE  LinkInv' /\ Header'
<1>1. ASSUME LinkInv' /\ Showing' = Showing, UNCHANGED connected PROVE LinkInv' /\ Header'
  BY <1>1, Zenon DEF Header
<1>2. ASSUME NEW c \in Craft, BroadcastFrame(c) PROVE LinkInv' /\ Header'
  <2>1. UNCHANGED connected
    BY <1>2 DEF BroadcastFrame
  <2>2. QED
    BY <1>1, <1>2, <2>1, FrameLink
<1>3. CASE BroadcastOther
  <2>1. UNCHANGED connected
    BY <1>3 DEF BroadcastOther
  <2>2. QED
    BY <1>1, <1>3, <2>1, OtherLink
<1>4. ASSUME NEW k \in Sock, SockStep(k) PROVE LinkInv' /\ Header'
  <2>1. CASE Accept(k)
    <3>1. UNCHANGED connected
      BY <2>1 DEF Accept
    <3>2. QED
      BY <1>1, <2>1, <3>1, AcceptLink
  <2>2. CASE Receive(k)
    <3>1. UNCHANGED connected
      BY <2>2 DEF Receive
    <3>2. QED
      BY <1>1, <2>2, <3>1, ReceiveLink
  <2>3. CASE Cut(k)
    <3>1. UNCHANGED connected
      BY <2>3 DEF Cut
    <3>2. QED
      BY <1>1, <2>3, <3>1, CutLink
  <2>4. CASE Refuse(k)
    <3>1. UNCHANGED connected
      BY <2>4 DEF Refuse
    <3>2. QED
      BY <1>1, <2>4, <3>1, RefuseLink
  <2>5. CASE Open(k)
    <3>1. connected' = TRUE
      BY <2>5, Zenon DEF Open
    <3>2. LinkInv' /\ Showing' # {}
      BY <2>5, OpenLink
    <3>3. QED
      BY <3>1, <3>2, Zenon DEF Header
  <2>6. CASE OnClose(k)
    <3>1. connected' = FALSE
      BY <2>6, Zenon DEF OnClose
    <3>2. LinkInv' /\ Showing' = {}
      BY <2>6, CloseLink
    <3>3. QED
      BY <3>1, <3>2, Zenon DEF Header
  <2>7. QED
    BY <1>4, <2>1, <2>2, <2>3, <2>4, <2>5, <2>6 DEF SockStep
<1>5. CASE Mount
  <2>1. /\ ConnectLive /\ mounted < 2 /\ mounted' = mounted + 1 /\ timers' = timers
        /\ UNCHANGED <<latest, framed, others, reconnectDelay>> /\ UNCHANGED connected
    BY <1>5 DEF Mount, server
  <2>2. QED
    BY <1>1, <2>1, ConnectFacts
<1>6. CASE Reconnect
  <2>1. /\ ConnectLive /\ mounted' = mounted /\ timers > 0 /\ timers' = timers - 1
        /\ UNCHANGED <<latest, framed, others, reconnectDelay>> /\ UNCHANGED connected
    BY <1>6 DEF Reconnect, server
  <2>2. QED
    BY <1>1, <2>1, ConnectFacts
<1>7. ASSUME UNCHANGED <<server, link, connected>> PROVE LinkInv' /\ Header'
  <2>1. LinkInv' /\ Showing' = Showing
    BY <1>7 DEF server, link, LinkInv, LinkTypes, Loading, OneLink, Sock, Lives, Showing
  <2>2. UNCHANGED connected
    BY <1>7
  <2>3. QED
    BY <1>1, <2>1, <2>2
<1>8. ASSUME NEW id \in expiring, Gone(id) PROVE LinkInv' /\ Header'
  BY <1>7, <1>8 DEF Gone
<1>9. CASE ClosePill
  BY <1>7, <1>9 DEF ClosePill
<1>10. CASE UNCHANGED vars
  BY <1>7, <1>10 DEF vars
<1>11. QED
  BY <1>2, <1>3, <1>4, <1>5, <1>6, <1>8, <1>9, <1>10 DEF Next

\* One connection, or one timer.
LEMMA LinkIsOne ==
    ASSUME LinkInv, Header
    PROVE  OneConnection
<1> DEFINE alive == {k \in Sock : Lives(k)}
<1>1. Cardinality(alive) + timers = IF mounted = 0 THEN 0 ELSE 1
  <2>1. CASE mounted = 0
    <3>1. alive = {} /\ timers = 0
      BY <2>1 DEF LinkInv, Loading, Sock
    <3>2. QED
      BY <2>1, <3>1, FS_EmptySet
  <2>2. CASE mounted # 0 /\ Lives(ws)
    <3>1. ws \in Sock /\ timers = 0 /\ \A k \in Sock : Lives(k) => k = ws
      BY <2>2 DEF LinkInv, LinkTypes, OneLink
    <3>2. alive = {ws}
      BY <2>2, <3>1
    <3>3. QED
      BY <2>2, <3>1, <3>2, FS_Singleton
  <2>3. CASE mounted # 0 /\ ~Lives(ws)
    <3>1. timers = 1 /\ alive = {}
      BY <2>3 DEF LinkInv, LinkTypes, OneLink
    <3>2. QED
      BY <2>3, <3>1, FS_EmptySet
  <2>4. QED
    BY <2>1, <2>2, <2>3
<1>2. \A k \in Sock : Lives(k) => k = ws
  BY DEF LinkInv, OneLink
<1>3. connected <=> \E k \in Sock : socks[k].state \in {"open", "cut"}
  BY Zenon DEF Header, Showing
<1>4. QED
  BY <1>1, <1>2, <1>3 DEF OneConnection

-----------------------------------------------------------------------------
(* The pills *)

Faults == UNION {s.faults : s \in Shapes}

Pills == [id : Nat, craft : Craft, kind : {"event", "warn", "fixed"}, about : SUBSET Faults]

PillTypes ==
    /\ DOMAIN lastMode = Craft
    /\ lastFaults \in [Craft -> SUBSET Faults]
    /\ troubleFaults \in [Craft -> SUBSET Faults]
    /\ faulted \in [Craft -> SUBSET Faults]
    /\ alarmed \in [Craft -> BOOLEAN]
    /\ toasts \in Seq(Pills)
    /\ Len(toasts) <= MAX_TOASTS
    /\ toastSeq \in Nat \ {0}
    /\ expiring \subseteq 1..toastSeq - 1

\* Pills stand in the order of their ids, and each has its timer.
Timed ==
    /\ \A i \in DOMAIN toasts : toasts[i].id \in expiring
    /\ \A i, j \in DOMAIN toasts : i < j => toasts[j].id < toasts[i].id

\* What the store remembers of a craft is what the operator has been told of it.
Remembered ==
    \A c \in Craft :
        /\ lastMode[c] # Unseen /\ WasBad(c) => alarmed[c] = TRUE
        /\ faulted[c] \subseteq troubleFaults[c]

PillInv == PillTypes /\ Timed /\ Remembered

\* There are no pills at first.
LEMMA InitPills == Init => PillInv
<1> SUFFICES ASSUME Init PROVE PillInv
  OBVIOUS
<1>1. toasts = <<>> /\ toastSeq = 1 /\ expiring = {} /\ lastMode = [c \in Craft |-> Unseen]
  BY DEF Init, StoreInit, NotificationsInit
<1>2. /\ lastFaults = [c \in Craft |-> {}] /\ troubleFaults = [c \in Craft |-> {}]
      /\ alarmed = [c \in Craft |-> FALSE] /\ faulted = [c \in Craft |-> {}]
  BY DEF Init, StoreInit, NotificationsInit
<1>3. PillTypes
  BY <1>1, <1>2, LiveAssumption DEF PillTypes
<1>4. Timed /\ Remembered
  BY <1>1, <1>2 DEF Timed, Remembered
<1>5. QED
  BY <1>3, <1>4 DEF PillInv

\* The faults of a frame are those of its shape.
LEMMA FrameFaults ==
    ASSUME NEW f \in Frames
    PROVE  f.faults \in SUBSET Faults
  BY DEF Frames, Faults

\* What removing an element leaves.
LEMMA RemoveFacts ==
    ASSUME NEW S, NEW q \in Seq(S), NEW i \in DOMAIN q
    PROVE  /\ RemoveAt(q, i) \in Seq(S)
           /\ Len(RemoveAt(q, i)) = Len(q) - 1
           /\ \A j \in 1..Len(q) - 1 : RemoveAt(q, i)[j] = IF j < i THEN q[j] ELSE q[j + 1]
<1>1. i \in 1..Len(q) /\ Len(q) \in Nat
  OBVIOUS
<1> DEFINE a == SubSeq(q, 1, i - 1)
           b == SubSeq(q, i + 1, Len(q))
<1>2. a \in Seq(S) /\ Len(a) = i - 1 /\ \A j \in 1..i - 1 : a[j] = q[j]
  BY <1>1
<1>3. b \in Seq(S) /\ Len(b) = Len(q) - i /\ \A j \in 1..Len(q) - i : b[j] = q[i + j]
  BY <1>1
<1> HIDE DEF a, b
<1>4. a \o b \in Seq(S) /\ Len(a \o b) = Len(q) - 1
  BY <1>1, <1>2, <1>3, ConcatProperties
<1>5. \A j \in 1..Len(q) - 1 : (a \o b)[j] = IF j < i THEN q[j] ELSE q[j + 1]
  <2> SUFFICES ASSUME NEW j \in 1..Len(q) - 1
               PROVE  (a \o b)[j] = IF j < i THEN q[j] ELSE q[j + 1]
    OBVIOUS
  <2>1. (a \o b)[j] = IF j <= Len(a) THEN a[j] ELSE b[j - Len(a)]
    BY <1>1, <1>2, <1>3, ConcatProperties
  <2>2. QED
    BY <1>1, <1>2, <1>3, <2>1
<1>6. RemoveAt(q, i) = a \o b
  BY DEF RemoveAt, a, b
<1>7. QED
  BY <1>4, <1>5, <1>6

\* A pill that goes, with its timer, by its timer or by its button.
LEMMA DismissInv ==
    ASSUME PillInv, NEW i \in DOMAIN toasts, toasts' = RemoveAt(toasts, i),
           expiring' \subseteq expiring, expiring \ {toasts[i].id} \subseteq expiring',
           UNCHANGED <<lastMode, lastFaults, troubleFaults, toastSeq, told>>
    PROVE  PillInv'
<1> USE DEF PillInv
<1>1. i \in 1..Len(toasts) /\ Len(toasts) \in Nat /\ toasts \in Seq(Pills)
  BY DEF PillTypes
<1>2. /\ toasts' \in Seq(Pills) /\ Len(toasts') = Len(toasts) - 1
      /\ \A j \in 1..Len(toasts) - 1 : toasts'[j] = IF j < i THEN toasts[j] ELSE toasts[j + 1]
  BY <1>1, RemoveFacts
<1>3. PillTypes'
  BY <1>1, <1>2, LiveAssumption DEF PillTypes, told
<1>4. \A j \in DOMAIN toasts' : \E k \in DOMAIN toasts :
         k # i /\ toasts'[j] = toasts[k] /\ k = IF j < i THEN j ELSE j + 1
  BY <1>1, <1>2
<1>5. \A k \in DOMAIN toasts : k # i => toasts[k].id # toasts[i].id
  <2> SUFFICES ASSUME NEW k \in DOMAIN toasts, k # i PROVE toasts[k].id # toasts[i].id
    OBVIOUS
  <2>1. toasts[k] \in Pills /\ toasts[i] \in Pills
    BY <1>1
  <2>2. toasts[k].id \in Nat /\ toasts[i].id \in Nat /\ (k < i \/ i < k)
    BY <1>1, <2>1 DEF Pills
  <2>3. QED
    BY <2>2 DEF Timed
<1>6. Timed'
  <2>1. \A j \in DOMAIN toasts' : toasts'[j].id \in expiring'
    BY <1>4, <1>5 DEF Timed
  <2>2. \A j, k \in DOMAIN toasts' : j < k => toasts'[k].id < toasts'[j].id
    <3> SUFFICES ASSUME NEW j \in DOMAIN toasts', NEW k \in DOMAIN toasts', j < k
                 PROVE  toasts'[k].id < toasts'[j].id
      OBVIOUS
    <3>1. j \in 1..Len(toasts) - 1 /\ k \in 1..Len(toasts) - 1
      BY <1>1, <1>2
    <3> DEFINE a == IF j < i THEN j ELSE j + 1
               b == IF k < i THEN k ELSE k + 1
    <3>2. a \in DOMAIN toasts /\ b \in DOMAIN toasts /\ a < b
      BY <1>1, <3>1
    <3>3. toasts'[j] = toasts[a] /\ toasts'[k] = toasts[b]
      BY <1>2, <3>1
    <3> HIDE DEF a, b
    <3>4. QED
      BY <3>2, <3>3 DEF Timed
  <2>3. QED
    BY <2>1, <2>2 DEF Timed
<1>7. Remembered'
  BY DEF Remembered, WasBad, told
<1>8. QED
  BY <1>3, <1>6, <1>7

\* A pill is put in front, and the oldest one may fall off.
LEMMA PushFacts ==
    ASSUME PillInv, NEW t \in Pills, PushToasts(<<t>>), t.id = toastSeq
    PROVE  /\ toasts' \in Seq(Pills) /\ Len(toasts') <= MAX_TOASTS
           /\ toasts'[1] = t
           /\ \A i \in DOMAIN toasts' : i = 1 \/ (i - 1 \in DOMAIN toasts /\ toasts'[i] = toasts[i - 1])
           /\ toastSeq' = toastSeq + 1
           /\ expiring' = expiring \cup {toastSeq}
<1> DEFINE all == <<t>> \o toasts
           n == IF Len(all) < MAX_TOASTS THEN Len(all) ELSE MAX_TOASTS
<1>1. toasts \in Seq(Pills) /\ Len(toasts) \in Nat /\ toastSeq \in Nat
  BY DEF PillInv, PillTypes
<1>2. <<t>> \in Seq(Pills) /\ Len(<<t>>) = 1 /\ <<t>>[1] = t
  OBVIOUS
<1>3. /\ all \in Seq(Pills) /\ Len(all) = Len(toasts) + 1 /\ all[1] = t
      /\ \A i \in 2..Len(toasts) + 1 : all[i] = toasts[i - 1]
  BY <1>1, <1>2
<1>4. /\ toasts' = SubSeq(all, 1, n) /\ toastSeq' = toastSeq + 1
      /\ expiring' = expiring \cup {toastSeq}
  <2>1. /\ toasts' = SubSeq(all, 1, n) /\ toastSeq' = toastSeq + Len(<<t>>)
        /\ expiring' = expiring \cup {<<t>>[i].id : i \in DOMAIN <<t>>}
    BY DEF PushToasts
  <2>2. {<<t>>[i].id : i \in DOMAIN <<t>>} = {toastSeq}
    BY <1>2
  <2>3. QED
    BY <1>2, <2>1, <2>2
<1>5. n \in 1..Len(all) /\ n <= MAX_TOASTS
  BY <1>1, <1>3, LiveAssumption
<1> HIDE DEF all, n
<1>6. /\ SubSeq(all, 1, n) \in Seq(Pills) /\ Len(SubSeq(all, 1, n)) = n
      /\ \A i \in 1..n : SubSeq(all, 1, n)[i] = all[i]
  BY <1>3, <1>5
<1>7. \A i \in 1..n : i = 1 \/ (i - 1 \in 1..Len(toasts) /\ all[i] = toasts[i - 1])
  BY <1>1, <1>3, <1>5
<1>8. QED
  BY <1>1, <1>3, <1>4, <1>5, <1>6, <1>7

\* PushToasts of no pill leaves the pills alone.
LEMMA PushNone ==
    ASSUME PillInv, PushToasts(<<>>)
    PROVE  UNCHANGED <<toasts, toastSeq, expiring>>
<1>1. toasts \in Seq(Pills) /\ Len(toasts) \in Nat /\ Len(toasts) <= MAX_TOASTS /\ toastSeq \in Nat
  BY DEF PillInv, PillTypes
<1>2. <<>> \o toasts = toasts /\ Len(<<>>) = 0
  BY <1>1
<1>3. SubSeq(toasts, 1, Len(toasts)) = toasts
  BY <1>1
<1>4. (IF Len(toasts) < MAX_TOASTS THEN Len(toasts) ELSE MAX_TOASTS) = Len(toasts)
  BY <1>1, LiveAssumption
<1>5. QED
  BY <1>1, <1>2, <1>3, <1>4 DEF PushToasts

\* A frame raises one pill or none; which one, by what the store remembers.
LEMMA OnePill ==
    ASSUME PillInv, NEW c \in Craft, NEW f \in Frames
    PROVE  \/ /\ EventPill(c, f) \o FixedPill(c, f) = <<>>
              /\ ~Stabilized(c, f)
              /\ f.faults \subseteq lastFaults[c]
              /\ WasBad(c) \/ ~IsBad(f) \/ f.mode = "NORMAL"
           \/ \E t \in Pills :
                 /\ EventPill(c, f) \o FixedPill(c, f) = <<t>>
                 /\ t.id = toastSeq /\ t.craft = c
                 /\ \/ t.kind # "fixed" /\ ~Stabilized(c, f)
                    \/ /\ t.kind = "fixed" /\ Stabilized(c, f)
                       /\ t.about = IF Accumulated(c, f) = {} THEN lastFaults[c]
                                    ELSE Accumulated(c, f)
<1>1. /\ lastFaults[c] \in SUBSET Faults /\ troubleFaults[c] \in SUBSET Faults
      /\ toastSeq \in Nat /\ f.faults \in SUBSET Faults
  BY FrameFaults DEF PillInv, PillTypes
<1>2. CASE Stabilized(c, f)
  <2> DEFINE about == IF Accumulated(c, f) = {} THEN lastFaults[c] ELSE Accumulated(c, f)
             t == Toast(c, "fixed", about)
  <2>1. EventPill(c, f) = <<>>
    BY <1>2 DEF EventPill, Stabilized
  <2>2. Accumulated(c, f) \in SUBSET Faults
    BY <1>1 DEF Accumulated
  <2>3. FixedPill(c, f) = <<t>>
    BY <1>2 DEF FixedPill
  <2>4. t \in Pills
    BY <1>1, <2>2 DEF Toast, Pills
  <2>5. t.id = toastSeq /\ t.craft = c /\ t.kind = "fixed" /\ t.about = about
    BY DEF Toast
  <2>6. EventPill(c, f) \o FixedPill(c, f) = <<t>>
    <3> HIDE DEF t
    <3>1. QED
      BY <2>1, <2>3, <2>4
  <2> HIDE DEF t
  <2>7. QED
    BY <1>2, <2>4, <2>5, <2>6
<1>3. CASE ~Stabilized(c, f)
  <2>1. FixedPill(c, f) = <<>>
    BY <1>3 DEF FixedPill
  <2>2. ASSUME NEW t \in Pills, EventPill(c, f) = <<t>>
        PROVE  EventPill(c, f) \o FixedPill(c, f) = <<t>>
    BY <2>1, <2>2
  <2>3. CASE f.faults \ lastFaults[c] # {}
    <3> DEFINE t == Toast(c, IF f.mode = "SAFE" THEN "warn" ELSE "event",
                          f.faults \ lastFaults[c])
    <3>1. EventPill(c, f) = <<t>>
      BY <2>3 DEF EventPill
    <3>2. t \in Pills /\ t.id = toastSeq /\ t.craft = c /\ t.kind # "fixed"
      BY <1>1 DEF Toast, Pills
    <3> HIDE DEF t
    <3>3. QED
      BY <1>3, <2>2, <3>1, <3>2
  <2>4. CASE f.faults \ lastFaults[c] = {} /\ ~WasBad(c) /\ IsBad(f) /\ f.mode # "NORMAL"
    <3> DEFINE t == Toast(c, "event", {})
    <3>1. EventPill(c, f) = <<t>>
      BY <2>4 DEF EventPill
    <3>2. t \in Pills /\ t.id = toastSeq /\ t.craft = c /\ t.kind # "fixed"
      BY <1>1 DEF Toast, Pills
    <3> HIDE DEF t
    <3>3. QED
      BY <1>3, <2>2, <3>1, <3>2
  <2>5. CASE f.faults \ lastFaults[c] = {} /\ ~(~WasBad(c) /\ IsBad(f) /\ f.mode # "NORMAL")
    <3>1. EventPill(c, f) = <<>>
      BY <2>5 DEF EventPill
    <3>2. EventPill(c, f) \o FixedPill(c, f) = <<>>
      BY <2>1, <3>1
    <3>3. f.faults \subseteq lastFaults[c]
      BY <2>5
    <3>4. QED
      BY <1>3, <2>5, <3>2, <3>3
  <2>6. QED
    BY <2>3, <2>4, <2>5
<1>4. QED
  BY <1>2, <1>3

\* What holds of a pill that a step has raised, by FixedIsTold.
Tells(c) ==
    toastSeq' > toastSeq /\ toasts'[1].craft = c /\ toasts'[1].kind = "fixed" =>
        alarmed[c] = TRUE /\ faulted[c] \subseteq toasts'[1].about

\* The first frame of a craft is only remembered.
LEMMA FirstFrame ==
    ASSUME PillInv, NEW c \in Craft, NEW f \in Frames, DetectNotifications(c, f), Told(c, f),
           lastMode[c] = Unseen
    PROVE  PillInv' /\ toastSeq' = toastSeq
<1> USE DEF PillInv
<1>1. /\ lastMode' = [lastMode EXCEPT ![c] = f.mode]
      /\ lastFaults' = [lastFaults EXCEPT ![c] = f.faults]
      /\ UNCHANGED <<troubleFaults, toasts, toastSeq, expiring>>
  BY DEF DetectNotifications
<1>2. alarmed' = [alarmed EXCEPT ![c] = IsBad(f)] /\ faulted' = [faulted EXCEPT ![c] = {}]
  BY Zenon DEF Told
<1>3. f.faults \in SUBSET Faults
  BY FrameFaults
<1>4. PillTypes'
  <2>1. IsBad(f) \in BOOLEAN
    BY DEF IsBad, Bad
  <2>2. alarmed' \in [Craft -> BOOLEAN]
    BY <1>2, <2>1 DEF PillTypes
  <2>3. QED
    BY <1>1, <1>2, <1>3, <2>2, LiveAssumption DEF PillTypes
<1>5. Timed'
  BY <1>1 DEF Timed
<1>6. Remembered'
  <2> SUFFICES ASSUME NEW d \in Craft
               PROVE  /\ lastMode'[d] # Unseen /\ Bad(lastMode'[d], lastFaults'[d]) => alarmed'[d] = TRUE
                      /\ faulted'[d] \subseteq troubleFaults'[d]
    BY DEF Remembered, WasBad
  <2>1. CASE d = c
    <3>1. lastMode'[c] = f.mode /\ lastFaults'[c] = f.faults /\ faulted'[c] = {}
      BY <1>1, <1>2 DEF PillTypes
    <3>2. Bad(f.mode, f.faults) => alarmed'[c] = TRUE
      BY <1>2 DEF PillTypes, IsBad, Bad
    <3>3. QED
      BY <2>1, <3>1, <3>2
  <2>2. CASE d # c
    BY <1>1, <1>2, <2>2 DEF PillTypes, Remembered, WasBad
  <2>3. QED
    BY <2>1, <2>2
<1>7. QED
  BY <1>1, <1>4, <1>5, <1>6

\* Any other frame: a pill of trouble is an alarm, a "fixed" pill ends the episode.
LEMMA LaterFrame ==
    ASSUME PillInv, NEW c \in Craft, NEW f \in Frames, DetectNotifications(c, f), Told(c, f),
           lastMode[c] # Unseen
    PROVE  PillInv' /\ \A d \in Craft : Tells(d)
<1> USE DEF PillInv
<1> DEFINE new == EventPill(c, f) \o FixedPill(c, f)
           trouble == IF Stabilized(c, f) THEN {} ELSE Accumulated(c, f)
<1>1. /\ lastMode' = [lastMode EXCEPT ![c] = f.mode]
      /\ lastFaults' = [lastFaults EXCEPT ![c] = f.faults]
      /\ troubleFaults' = [troubleFaults EXCEPT ![c] = trouble]
      /\ PushToasts(new)
  BY DEF DetectNotifications
<1>2. f.faults \in SUBSET Faults /\ Accumulated(c, f) \in SUBSET Faults
  BY FrameFaults DEF Accumulated, PillTypes
<1>3. f.faults \subseteq Accumulated(c, f) /\ troubleFaults[c] \subseteq Accumulated(c, f)
  BY DEF Accumulated, IsBad, Bad
<1>4. Stabilized(c, f) => ~IsBad(f) /\ WasBad(c) /\ Accumulated(c, f) = troubleFaults[c]
  BY DEF Stabilized, IsBad, Bad, Accumulated
<1>5. /\ lastMode'[c] = f.mode /\ lastFaults'[c] = f.faults /\ troubleFaults'[c] = trouble
      /\ \A d \in Craft : d # c => /\ lastMode'[d] = lastMode[d] /\ lastFaults'[d] = lastFaults[d]
                                   /\ troubleFaults'[d] = troubleFaults[d]
      /\ DOMAIN lastMode' = Craft /\ lastFaults' \in [Craft -> SUBSET Faults]
      /\ troubleFaults' \in [Craft -> SUBSET Faults]
  <2>1. trouble \in SUBSET Faults
    BY <1>2
  <2> HIDE DEF trouble, new
  <2>2. QED
    BY <1>1, <1>2, <2>1 DEF PillTypes
<1>6. Stabilized(c, f) => alarmed[c] = TRUE
  BY <1>4 DEF Remembered
<1>7. \A d \in Craft : d # c => alarmed'[d] = alarmed[d] /\ faulted'[d] = faulted[d]
  BY DEF Told, PillTypes
<1>8. ASSUME alarmed' \in [Craft -> BOOLEAN], faulted' \in [Craft -> SUBSET Faults],
             IsBad(f) => alarmed'[c] = TRUE, faulted'[c] \subseteq trouble
      PROVE  Remembered'
  <2> HIDE DEF trouble, new
  <2> SUFFICES ASSUME NEW d \in Craft
               PROVE  /\ lastMode'[d] # Unseen /\ Bad(lastMode'[d], lastFaults'[d]) => alarmed'[d] = TRUE
                      /\ faulted'[d] \subseteq troubleFaults'[d]
    BY DEF Remembered, WasBad
  <2>1. CASE d = c
    BY <1>5, <1>8, <2>1 DEF IsBad
  <2>2. CASE d # c
    BY <1>5, <1>7, <2>2 DEF Remembered, WasBad
  <2>3. QED
    BY <2>1, <2>2
<1>9. CASE /\ new = <<>> /\ ~Stabilized(c, f) /\ f.faults \subseteq lastFaults[c]
           /\ WasBad(c) \/ ~IsBad(f) \/ f.mode = "NORMAL"
  <2>1. UNCHANGED <<toasts, toastSeq, expiring>>
    BY <1>1, <1>9, PushNone
  <2>2. toastSeq' > toastSeq <=> FALSE
    BY <2>1 DEF PillTypes
  <2>3. alarmed' = alarmed /\ faulted' = [faulted EXCEPT ![c] = @ \cup f.faults]
    BY <2>2 DEF Told, PillTypes
  <2>4. IsBad(f) => WasBad(c)
    BY <1>9 DEF IsBad, WasBad, Bad
  <2>5. alarmed' \in [Craft -> BOOLEAN] /\ faulted' \in [Craft -> SUBSET Faults]
    BY <1>2, <2>3 DEF PillTypes
  <2>6. IsBad(f) => alarmed'[c] = TRUE
    BY <2>3, <2>4 DEF Remembered
  <2>7. faulted'[c] \subseteq trouble
    <3>1. faulted'[c] = faulted[c] \cup f.faults
      BY <2>3 DEF PillTypes
    <3>2. QED
      BY <1>3, <1>9, <3>1 DEF Remembered
  <2>8. Remembered'
    BY <1>8, <2>5, <2>6, <2>7
  <2>9. PillTypes' /\ Timed'
    <3> HIDE DEF trouble, new
    <3>1. QED
      BY <1>5, <2>1, <2>5 DEF PillTypes, Timed
  <2>10. QED
    BY <2>2, <2>8, <2>9 DEF Tells
<1>10. ASSUME NEW t \in Pills, new = <<t>>, t.id = toastSeq, t.craft = c,
              \/ t.kind # "fixed" /\ ~Stabilized(c, f)
              \/ /\ t.kind = "fixed" /\ Stabilized(c, f)
                 /\ t.about = IF Accumulated(c, f) = {} THEN lastFaults[c] ELSE Accumulated(c, f)
       PROVE  PillInv' /\ \A d \in Craft : Tells(d)
  <2>1. /\ toasts' \in Seq(Pills) /\ Len(toasts') <= MAX_TOASTS
        /\ toasts'[1] = t
        /\ \A i \in DOMAIN toasts' : i = 1 \/ (i - 1 \in DOMAIN toasts /\ toasts'[i] = toasts[i - 1])
        /\ toastSeq' = toastSeq + 1
        /\ expiring' = expiring \cup {toastSeq}
    BY <1>1, <1>10, PushFacts
  <2>2. toastSeq \in Nat \ {0} /\ toastSeq' > toastSeq
    BY <2>1 DEF PillTypes
  <2>3. /\ alarmed' = [alarmed EXCEPT ![c] = t.kind # "fixed"]
        /\ faulted' = [faulted EXCEPT ![c] = IF t.kind = "fixed" THEN {} ELSE @ \cup f.faults]
    BY <2>1, <2>2 DEF Told
  <2>4. alarmed' \in [Craft -> BOOLEAN] /\ faulted' \in [Craft -> SUBSET Faults]
    BY <1>2, <2>3 DEF PillTypes
  <2>5. IsBad(f) => alarmed'[c] = TRUE
    BY <1>4, <1>10, <2>3 DEF PillTypes
  <2>6. faulted'[c] \subseteq trouble
    <3>1. faulted'[c] = IF t.kind = "fixed" THEN {} ELSE faulted[c] \cup f.faults
      BY <2>3 DEF PillTypes
    <3>2. QED
      BY <1>3, <1>10, <3>1 DEF Remembered
  <2>7. Remembered'
    BY <1>8, <2>4, <2>5, <2>6
  <2>8. PillTypes'
    <3> HIDE DEF trouble, new
    <3>1. toastSeq' \in Nat \ {0} /\ expiring' \subseteq 1..toastSeq' - 1
      BY <2>1, <2>2 DEF PillTypes
    <3>2. QED
      BY <1>5, <2>1, <2>4, <3>1 DEF PillTypes
  <2>9. Timed'
    <3>1. \A i \in DOMAIN toasts : toasts[i].id \in expiring /\ toasts[i].id < toastSeq
      <4>1. \A id \in expiring : id < toastSeq
        BY <2>2 DEF PillTypes
      <4>2. \A i \in DOMAIN toasts : toasts[i].id \in expiring
        BY DEF Timed
      <4>3. QED
        BY <4>1, <4>2
    <3>2. \A i \in DOMAIN toasts' : toasts'[i].id \in expiring'
      BY <1>10, <2>1, <3>1
    <3>3. ASSUME NEW i \in DOMAIN toasts', NEW j \in DOMAIN toasts', i < j
          PROVE  toasts'[j].id < toasts'[i].id
      <4>1. i \in Nat \ {0} /\ j \in Nat \ {0}
        BY <2>1
      <4>2. j - 1 \in DOMAIN toasts /\ toasts'[j] = toasts[j - 1]
        BY <2>1, <3>3, <4>1
      <4>3. CASE i = 1
        BY <1>10, <2>1, <3>1, <4>2, <4>3
      <4>4. CASE i # 1
        <5>1. i - 1 \in DOMAIN toasts /\ toasts'[i] = toasts[i - 1] /\ i - 1 < j - 1
          BY <2>1, <3>3, <4>1, <4>4
        <5>2. QED
          BY <4>2, <5>1 DEF Timed
      <4>5. QED
        BY <4>3, <4>4
    <3>4. QED
      BY <3>2, <3>3 DEF Timed
  <2>10. \A d \in Craft : Tells(d)
    <3> SUFFICES ASSUME NEW d \in Craft, t.craft = d, t.kind = "fixed"
                 PROVE  alarmed[d] = TRUE /\ faulted[d] \subseteq t.about
      BY <2>1 DEF Tells
    <3>1. d = c /\ Stabilized(c, f)
      BY <1>10
    <3>2. faulted[c] \subseteq Accumulated(c, f)
      BY <1>3 DEF Remembered
    <3>3. QED
      BY <1>6, <1>10, <3>1, <3>2
  <2>11. QED
    BY <2>7, <2>8, <2>9, <2>10
<1>11. QED
  <2> HIDE DEF trouble
  <2>1. QED
    BY <1>9, <1>10, OnePill

\* The pills change only with a frame, a timer or a button.
LEMMA PillStep ==
    ASSUME LinkInv, PillInv, [Next]_vars
    PROVE  PillInv' /\ \A c \in Craft : Tells(c)
<1>1. ASSUME UNCHANGED <<pills, told>> PROVE PillInv' /\ \A c \in Craft : Tells(c)
  <2>1. PillInv'
    BY <1>1 DEF pills, told, PillInv, PillTypes, Timed, Remembered, WasBad
  <2>2. toastSeq' = toastSeq /\ toastSeq \in Nat
    BY <1>1 DEF pills, PillInv, PillTypes
  <2>3. QED
    BY <2>1, <2>2 DEF Tells
<1>2. ASSUME NEW k \in Sock, Receive(k) PROVE PillInv' /\ \A c \in Craft : Tells(c)
  <2> DEFINE msg == Head(socks[k].queue)
  <2>1. msg \in Messages
    BY <1>2, ReceiveLink
  <2>2. OnMessage(msg) /\ IF msg.type = "frame" THEN Told(msg.craft, msg.frame) ELSE UNCHANGED told
    BY <1>2 DEF Receive
  <2> HIDE DEF msg
  <2>3. CASE msg.type # "frame"
    BY <1>1, <2>2, <2>3
    DEF OnMessage, OnHello, OnCraft, OnFrame, OnLog, OnAnomaly, OnRelay
  <2>4. CASE msg.type = "frame"
    <3>1. msg.craft \in Craft /\ msg.frame \in Frames
      BY <2>1, <2>4 DEF Messages
    <3>2. DetectNotifications(msg.craft, msg.frame) /\ Told(msg.craft, msg.frame)
      BY <2>2, <2>4 DEF OnMessage, OnHello, OnCraft, OnFrame, OnLog, OnAnomaly, OnRelay
    <3>3. CASE lastMode[msg.craft] = Unseen
      <4>1. PillInv' /\ toastSeq' = toastSeq /\ toastSeq \in Nat
        BY <3>1, <3>2, <3>3, FirstFrame DEF PillInv, PillTypes
      <4>2. QED
        BY <4>1 DEF Tells
    <3>4. CASE lastMode[msg.craft] # Unseen
      BY <3>1, <3>2, <3>4, LaterFrame
    <3>5. QED
      BY <3>3, <3>4
  <2>5. QED
    BY <2>3, <2>4
<1>3. ASSUME NEW id \in expiring, Expire(id), UNCHANGED told
      PROVE  PillInv' /\ \A c \in Craft : Tells(c)
  <2>1. /\ expiring' = expiring \ {id} /\ DismissToast(id)
        /\ UNCHANGED <<lastMode, lastFaults, troubleFaults, toastSeq>>
    BY <1>3 DEF Expire
  <2>2. PillInv'
    <3>1. CASE \E i \in DOMAIN toasts : toasts[i].id = id
      <4>1. PICK i \in DOMAIN toasts : toasts[i].id = id /\ toasts' = RemoveAt(toasts, i)
        BY <2>1, <3>1 DEF DismissToast
      <4>2. QED
        BY <1>3, <2>1, <4>1, DismissInv
    <3>2. CASE ~\E i \in DOMAIN toasts : toasts[i].id = id
      <4>1. toasts' = toasts
        BY <2>1, <3>2 DEF DismissToast
      <4>2. PillTypes' /\ Remembered'
        BY <1>3, <2>1, <4>1 DEF PillInv, PillTypes, Remembered, WasBad, told
      <4>3. Timed'
        BY <2>1, <3>2, <4>1 DEF PillInv, Timed
      <4>4. QED
        BY <4>2, <4>3 DEF PillInv
    <3>3. QED
      BY <3>1, <3>2
  <2>3. toastSeq' = toastSeq /\ toastSeq \in Nat
    BY <2>1 DEF PillInv, PillTypes
  <2>4. QED
    BY <2>2, <2>3 DEF Tells
<1>4. CASE Close /\ UNCHANGED told
  <2>1. PICK i \in DOMAIN toasts : DismissToast(toasts[i].id)
    BY <1>4 DEF Close
  <2>2. PICK j \in DOMAIN toasts : toasts' = RemoveAt(toasts, j)
    BY <2>1 DEF DismissToast
  <2>3. UNCHANGED <<lastMode, lastFaults, troubleFaults, toastSeq, expiring, told>>
    BY <1>4 DEF Close
  <2>4. PillInv'
    BY <2>2, <2>3, DismissInv
  <2>5. toastSeq' = toastSeq /\ toastSeq \in Nat
    BY <2>3 DEF PillInv, PillTypes
  <2>6. QED
    BY <2>4, <2>5 DEF Tells
<1>5. CASE Next
  <2>1. ASSUME NEW c \in Craft, BroadcastFrame(c) PROVE UNCHANGED <<pills, told>>
    BY <2>1 DEF BroadcastFrame
  <2>2. BroadcastOther => UNCHANGED <<pills, told>>
    BY DEF BroadcastOther
  <2>3. ASSUME NEW k \in Sock, SockStep(k) PROVE Receive(k) \/ UNCHANGED <<pills, told>>
    BY <2>3 DEF SockStep, Accept, Open, OnClose, Cut, Refuse
  <2>4. Mount \/ Reconnect => UNCHANGED <<pills, told>>
    BY DEF Mount, Reconnect
  <2>5. ASSUME NEW id \in expiring, Gone(id) PROVE Expire(id) /\ UNCHANGED told
    BY <2>5 DEF Gone
  <2>6. ClosePill => Close /\ UNCHANGED told
    BY DEF ClosePill
  <2>7. QED
    BY <1>1, <1>2, <1>3, <1>4, <1>5, <2>1, <2>2, <2>3, <2>4, <2>5, <2>6 DEF Next
<1>6. CASE UNCHANGED vars
  BY <1>1, <1>6 DEF vars, told
<1>7. QED
  BY <1>5, <1>6

-----------------------------------------------------------------------------
(* The lists of the store *)

BoardInv ==
    /\ logs \in Seq(Nat) /\ Len(logs) <= MAX_RING
    /\ anomalies \in Seq(Nat) /\ Len(anomalies) <= MAX_RING
    /\ history \in [Craft -> Seq(Frames)]
    /\ \A c \in Craft : Len(history[c]) <= MAX_HISTORY

\* A list that is full drops its oldest entry.
LEMMA RingFacts ==
    ASSUME NEW q \in Seq(Nat), Len(q) <= MAX_RING, NEW x \in Nat
    PROVE  Ring(x, q) \in Seq(Nat) /\ Len(Ring(x, q)) <= MAX_RING
<1> DEFINE n == IF Len(q) < MAX_RING THEN Len(q) ELSE MAX_RING - 1
<1>1. Len(q) \in Nat /\ n \in 0..Len(q) /\ n + 1 <= MAX_RING
  BY LiveAssumption
<1> HIDE DEF n
<1>2. SubSeq(q, 1, n) \in Seq(Nat) /\ Len(SubSeq(q, 1, n)) = n
  BY <1>1
<1>3. <<x>> \in Seq(Nat) /\ Len(<<x>>) = 1
  OBVIOUS
<1>4. Ring(x, q) = <<x>> \o SubSeq(q, 1, n)
  BY DEF Ring, n
<1>5. QED
  BY <1>1, <1>2, <1>3, <1>4, ConcatProperties

\* A trend that is full drops its oldest frame.
LEMMA WindowFacts ==
    ASSUME NEW q \in Seq(Frames), Len(q) <= MAX_HISTORY, NEW f \in Frames
    PROVE  Window(q, f) \in Seq(Frames) /\ Len(Window(q, f)) <= MAX_HISTORY
<1> DEFINE m == IF Len(q) < MAX_HISTORY THEN 1 ELSE Len(q) - MAX_HISTORY + 2
<1>1. /\ Len(q) \in Nat /\ m \in 1..Len(q) + 1 /\ Len(q) - m + 2 <= MAX_HISTORY
  BY LiveAssumption
<1> HIDE DEF m
<1>2. SubSeq(q, m, Len(q)) \in Seq(Frames) /\ Len(SubSeq(q, m, Len(q))) = Len(q) - m + 1
  BY <1>1
<1>3. <<f>> \in Seq(Frames) /\ Len(<<f>>) = 1
  OBVIOUS
<1>4. Window(q, f) = SubSeq(q, m, Len(q)) \o <<f>>
  BY DEF Window, m
<1>5. QED
  BY <1>1, <1>2, <1>3, <1>4, ConcatProperties

\* Every step keeps the lengths of the rings and of the trends.
LEMMA BoardStep ==
    ASSUME LinkInv, BoardInv, [Next]_vars
    PROVE  BoardInv'
<1>1. ASSUME UNCHANGED <<logs, anomalies, history>> PROVE BoardInv'
  BY <1>1 DEF BoardInv
<1>2. ASSUME NEW k \in Sock, Receive(k) PROVE BoardInv'
  <2> DEFINE msg == Head(socks[k].queue)
  <2>1. msg \in Messages /\ OnMessage(msg)
    BY <1>2, ReceiveLink DEF Receive
  <2> HIDE DEF msg
  <2>2. CASE OnHello(msg) \/ OnCraft(msg) \/ OnRelay(msg)
    BY <1>1, <2>2 DEF OnHello, OnCraft, OnRelay
  <2>3. CASE OnLog(msg)
    <3>1. msg.sn \in Nat /\ logs' = Ring(msg.sn, logs) /\ UNCHANGED <<anomalies, history>>
      BY <2>1, <2>3 DEF OnLog, Messages
    <3>2. QED
      BY <3>1, RingFacts DEF BoardInv
  <2>4. CASE OnAnomaly(msg)
    <3>1. msg.sn \in Nat /\ anomalies' = Ring(msg.sn, anomalies) /\ UNCHANGED <<logs, history>>
      BY <2>1, <2>4 DEF OnAnomaly, Messages
    <3>2. QED
      BY <3>1, RingFacts DEF BoardInv
  <2>5. CASE OnFrame(msg)
    <3>1. /\ msg.craft \in Craft /\ msg.frame \in Frames /\ UNCHANGED <<logs, anomalies>>
          /\ history' = [history EXCEPT ![msg.craft] = Window(@, msg.frame)]
      BY <2>1, <2>5 DEF OnFrame, Messages
    <3>2. /\ Window(history[msg.craft], msg.frame) \in Seq(Frames)
          /\ Len(Window(history[msg.craft], msg.frame)) <= MAX_HISTORY
      BY <3>1, WindowFacts DEF BoardInv
    <3>3. QED
      BY <3>1, <3>2 DEF BoardInv
  <2>6. QED
    BY <2>1, <2>2, <2>3, <2>4, <2>5 DEF OnMessage
<1>3. CASE Next
  <2>1. ASSUME NEW c \in Craft, BroadcastFrame(c) PROVE UNCHANGED <<logs, anomalies, history>>
    BY <2>1 DEF BroadcastFrame, board
  <2>2. BroadcastOther => UNCHANGED <<logs, anomalies, history>>
    BY DEF BroadcastOther, board
  <2>3. ASSUME NEW k \in Sock, SockStep(k)
        PROVE  Receive(k) \/ UNCHANGED <<logs, anomalies, history>>
    BY <2>3 DEF SockStep, Accept, Open, OnClose, Cut, Refuse, board
  <2>4. Mount \/ Reconnect \/ ClosePill => UNCHANGED <<logs, anomalies, history>>
    BY DEF Mount, Reconnect, ClosePill, board
  <2>5. ASSUME NEW id \in expiring, Gone(id) PROVE UNCHANGED <<logs, anomalies, history>>
    BY <2>5 DEF Gone, board
  <2>6. QED
    BY <1>1, <1>2, <1>3, <2>1, <2>2, <2>3, <2>4, <2>5 DEF Next
<1>4. CASE UNCHANGED vars
  BY <1>1, <1>4 DEF vars, board
<1>5. QED
  BY <1>3, <1>4

-----------------------------------------------------------------------------
(* Sums over the craft *)

\* g sums up f over the subsets of S, one element after the other.
IsSum(g, S, f) ==
    g = [s \in SUBSET S |-> IF s = {} THEN 0
                            ELSE f[CHOOSE x \in s : TRUE] + g[s \ {CHOOSE x \in s : TRUE}]]

SumOver(S, f) == (CHOOSE g : IsSum(g, S, f))[S]

\* A set without the element that is summed up first has one element less.
LEMMA OneLess ==
  ASSUME NEW s, IsFiniteSet(s), s # {}
  PROVE  LET x == CHOOSE x \in s : TRUE
         IN  /\ x \in s /\ IsFiniteSet(s \ {x})
             /\ Cardinality(s) \in Nat /\ Cardinality(s) >= 1
             /\ Cardinality(s \ {x}) = Cardinality(s) - 1
<1> DEFINE x == CHOOSE x \in s : TRUE
<1>1. x \in s
  OBVIOUS
<1> HIDE DEF x
<1>2. Cardinality(s) \in Nat /\ Cardinality(s) # 0
  BY FS_CardinalityType, FS_EmptySet
<1>3. IsFiniteSet(s \ {x}) /\ Cardinality(s \ {x}) = Cardinality(s) - 1
  BY <1>1, FS_RemoveElement
<1>4. QED
  BY <1>1, <1>2, <1>3 DEF x

\* Such a g exists for the subsets of up to n elements, and hence for all of them.
Small(S, n) == {s \in SUBSET S : Cardinality(s) <= n}

IsSumUpTo(g, S, f, n) ==
    g = [s \in Small(S, n) |-> IF s = {} THEN 0
                               ELSE f[CHOOSE x \in s : TRUE] + g[s \ {CHOOSE x \in s : TRUE}]]

LEMMA SumGoesOn ==
  ASSUME NEW S, IsFiniteSet(S), NEW f, NEW n \in Nat, NEW g, IsSumUpTo(g, S, f, n)
  PROVE  \E h : IsSumUpTo(h, S, f, n + 1)
<1> DEFINE first(s) == CHOOSE x \in s : TRUE
           step(s, r) == IF s = {} THEN 0 ELSE f[first(s)] + r[s \ {first(s)}]
           h == [s \in Small(S, n + 1) |-> IF s \in Small(S, n) THEN g[s] ELSE step(s, g)]
           k == [s \in Small(S, n + 1) |-> step(s, h)]
<1>1. \A s \in Small(S, n) : g[s] = step(s, g)
  BY DEF IsSumUpTo
<1>2. ASSUME NEW s \in SUBSET S
      PROVE  /\ s \in Small(S, n) => s \in Small(S, n + 1)
             /\ s # {} /\ s \in Small(S, n + 1) => s \ {first(s)} \in Small(S, n)
  <2>1. IsFiniteSet(s)
    BY FS_Subset
  <2>2. Cardinality(s) \in Nat
    BY <2>1, FS_CardinalityType
  <2>3. Cardinality(s) <= n => Cardinality(s) <= n + 1
    BY <2>2
  <2>4. ASSUME s # {}, Cardinality(s) <= n + 1
        PROVE  Cardinality(s \ {first(s)}) <= n
    <3>1. Cardinality(s \ {first(s)}) = Cardinality(s) - 1
      BY <2>1, <2>4, OneLess
    <3>2. QED
      BY <2>2, <2>4, <3>1
  <2> HIDE DEF first
  <2>5. QED
    BY <2>3, <2>4 DEF Small
<1> HIDE DEF first
<1>3. ASSUME NEW s \in Small(S, n + 1)
      PROVE  h[s] = k[s]
  <2>1. s \in SUBSET S
    BY DEF Small
  <2>2. h[s] = IF s \in Small(S, n) THEN g[s] ELSE step(s, g)
    OBVIOUS
  <2>3. h[s] = step(s, g)
    BY <1>1, <2>2
  <2>4. CASE s = {}
    BY <2>3, <2>4
  <2>5. CASE s # {}
    <3>1. s \ {first(s)} \in Small(S, n) /\ s \ {first(s)} \in Small(S, n + 1)
      BY <1>2, <2>1, <2>5
    <3>2. h[s \ {first(s)}] = g[s \ {first(s)}]
      BY <3>1
    <3>3. QED
      BY <2>3, <2>5, <3>2
  <2>6. QED
    BY <2>4, <2>5
<1>4. h = k
  BY <1>3
<1>5. IsSumUpTo(h, S, f, n + 1)
  BY <1>4 DEF IsSumUpTo, first
<1>6. QED
  BY <1>5

\* Induction over the natural numbers, in the form the provers can use.
LEMMA LeastElement ==
  ASSUME NEW S \in SUBSET Nat, S # {}
  PROVE  \E n \in S : \A m \in S : n <= m
<1>1. PICK n \in S : \A m \in S : ~ (<<m, n>> \in OpToRel(<, Nat))
  BY WFMin, NatLessThanWellFounded, Zenon
<1>2. ASSUME NEW m \in S, m < n
      PROVE  FALSE
  <2>1. <<m, n>> \in OpToRel(<, Nat)
    BY <1>2, Zenon DEF OpToRel
  <2>2. QED
    BY <1>1, <2>1
<1>3. QED
  BY <1>2

LEMMA SumExists ==
  ASSUME NEW S, IsFiniteSet(S), NEW f
  PROVE  \E g : IsSum(g, S, f)
<1> DEFINE Missing == {n \in Nat : ~ \E g : IsSumUpTo(g, S, f, n)}
<1>1. \E g : IsSumUpTo(g, S, f, 0)
  <2> DEFINE g == [s \in Small(S, 0) |-> 0]
  <2>1. ASSUME NEW s \in Small(S, 0) PROVE s = {}
    <3>1. s \in SUBSET S /\ Cardinality(s) <= 0
      BY DEF Small
    <3>2. IsFiniteSet(s) /\ Cardinality(s) \in Nat
      BY <3>1, FS_Subset, FS_CardinalityType
    <3>3. QED
      BY <3>1, <3>2, FS_EmptySet
  <2>2. g = [s \in Small(S, 0) |-> IF s = {} THEN 0
                 ELSE f[CHOOSE x \in s : TRUE] + g[s \ {CHOOSE x \in s : TRUE}]]
    BY <2>1
  <2>3. QED
    BY <2>2 DEF IsSumUpTo
<1>2. ASSUME Missing # {} PROVE FALSE
  <2>1. PICK n \in Missing : \A m \in Missing : n <= m
    BY <1>2, LeastElement
  <2>2. n \in Nat /\ n # 0
    BY <1>1
  <2>3. n - 1 \in Nat /\ ~(n <= n - 1) /\ (n - 1) + 1 = n
    BY <2>2
  <2>4. PICK g : IsSumUpTo(g, S, f, n - 1)
    BY <2>1, <2>3
  <2>5. \E h : IsSumUpTo(h, S, f, n)
    BY <2>3, <2>4, SumGoesOn
  <2>6. QED
    BY <2>5
<1>3. Cardinality(S) \in Nat
  BY FS_CardinalityType
<1>4. PICK g : IsSumUpTo(g, S, f, Cardinality(S))
  BY <1>2, <1>3
<1>5. Small(S, Cardinality(S)) = SUBSET S
  <2>1. ASSUME NEW s \in SUBSET S PROVE Cardinality(s) <= Cardinality(S)
    BY FS_Subset
  <2>2. QED
    BY <2>1 DEF Small
<1>6. IsSum(g, S, f)
  BY <1>4, <1>5, Zenon DEF IsSum, IsSumUpTo
<1>7. QED
  BY <1>6

\* The sum of numbers, and of those of which each is at most top.
LEMMA SumFacts ==
  ASSUME NEW S, IsFiniteSet(S), NEW top \in Nat, NEW f, \A x \in S : f[x] \in Nat
  PROVE  /\ SumOver(S, f) \in Nat
         /\ (\A x \in S : f[x] <= top) => SumOver(S, f) <= top * Cardinality(S)
         /\ SumOver(S, f) = 0 <=> \A x \in S : f[x] = 0
<1> DEFINE g == CHOOSE g : IsSum(g, S, f)
           Good(s) == /\ g[s] \in Nat
                      /\ (\A x \in S : f[x] <= top) => g[s] <= top * Cardinality(s)
                      /\ g[s] = 0 <=> \A x \in s : f[x] = 0
           first(s) == CHOOSE x \in s : TRUE
           Wrong == {n \in Nat : \E s \in SUBSET S : Cardinality(s) = n /\ ~Good(s)}
<1>1. IsSum(g, S, f)
  BY SumExists
<1> HIDE DEF g
<1>2. \A s \in SUBSET S : g[s] = IF s = {} THEN 0 ELSE f[first(s)] + g[s \ {first(s)}]
  BY <1>1 DEF IsSum
<1>3. ASSUME NEW s \in SUBSET S, s = {} \/ Good(s \ {first(s)})
      PROVE  Good(s)
  <2>1. IsFiniteSet(s)
    BY FS_Subset
  <2>2. CASE s = {}
    <3>1. g[s] = 0 /\ Cardinality(s) = 0
      BY <1>2, <2>2, FS_EmptySet
    <3>2. QED
      BY <2>2, <3>1
  <2>3. CASE s # {}
    <3> DEFINE x == first(s)
               r == s \ {x}
               a == f[x]
               b == g[r]
               n == Cardinality(r)
    <3>1. x \in s /\ Cardinality(s) \in Nat /\ Cardinality(r) = Cardinality(s) - 1 /\ Cardinality(s) >= 1
      BY <2>1, <2>3, OneLess
    <3>2. g[s] = a + b /\ a \in Nat /\ ((\A y \in S : f[y] <= top) => a <= top)
      BY <1>2, <2>3, <3>1
    <3>3. b \in Nat /\ ((\A y \in S : f[y] <= top) => b <= top * n) /\ (b = 0 <=> \A y \in r : f[y] = 0)
      BY <1>3, <2>3
    <3>4. n \in Nat /\ Cardinality(s) = n + 1 /\ s = r \cup {x}
      BY <3>1
    <3> HIDE DEF first, x, r, a, b, n
    <3>5. top * (n + 1) = top * n + top /\ top * n \in Nat
      BY <3>4
    <3>6. g[s] \in Nat /\ ((\A y \in S : f[y] <= top) => g[s] <= top * Cardinality(s))
      BY <3>2, <3>3, <3>4, <3>5
    <3>7. g[s] = 0 <=> a = 0 /\ b = 0
      BY <3>2, <3>3
    <3>8. (\A y \in s : f[y] = 0) <=> a = 0 /\ \A y \in r : f[y] = 0
      BY <3>4 DEF a
    <3>9. QED
      BY <3>3, <3>6, <3>7, <3>8
  <2>4. QED
    BY <2>2, <2>3
<1> HIDE DEF Good
<1>4. ASSUME Wrong # {} PROVE FALSE
  <2>1. PICK n \in Wrong : \A m \in Wrong : n <= m
    <3>1. Wrong \in SUBSET Nat
      OBVIOUS
    <3>2. QED
      BY <1>4, <3>1, LeastElement
  <2>2. PICK s \in SUBSET S : Cardinality(s) = n /\ ~Good(s)
    OBVIOUS
  <2>3. s # {} /\ ~Good(s \ {first(s)})
    BY <1>3, <2>2
  <2>4. IsFiniteSet(s)
    BY FS_Subset
  <2>5. Cardinality(s \ {first(s)}) = n - 1 /\ n \in Nat /\ n >= 1
    BY <2>2, <2>3, <2>4, OneLess
  <2>6. n - 1 \in Nat /\ ~(n <= n - 1)
    BY <2>5
  <2>7. s \ {first(s)} \in SUBSET S
    BY <2>2
  <2>8. n - 1 \in Wrong
    BY <2>3, <2>5, <2>6, <2>7
  <2>9. QED
    BY <2>1, <2>6, <2>8
<1>5. Good(S)
  <2>1. Cardinality(S) \in Nat
    BY FS_CardinalityType
  <2>2. QED
    BY <1>4, <2>1
<1>6. SumOver(S, f) = g[S]
  BY DEF SumOver, g
<1>7. QED
  BY <1>5, <1>6 DEF Good

-----------------------------------------------------------------------------
(* Messages under way *)

\* The last message of q that is in X is m; or there is none.
Ends(q, X, m) == \E i \in DOMAIN q : q[i] = m /\ \A j \in DOMAIN q : j > i => q[j] \notin X

Without(q, X) == \A j \in DOMAIN q : q[j] \notin X

LEMMA EndsFacts ==
  ASSUME NEW q \in Seq(Messages), NEW X, NEW m \in X
  PROVE  /\ \A n \in Messages \ X : Ends(q, X, m) => Ends(Append(q, n), X, m)
         /\ \A n \in Messages \ X : Without(q, X) => Without(Append(q, n), X)
         /\ m \in Messages => Ends(Append(q, m), X, m)
         /\ q # <<>> /\ Ends(q, X, m) => \/ Ends(Tail(q), X, m)
                                         \/ Head(q) = m /\ Without(Tail(q), X)
         /\ q # <<>> /\ Without(q, X) => Without(Tail(q), X) /\ Head(q) \notin X
<1>1. Len(q) \in Nat /\ DOMAIN q = 1..Len(q)
  OBVIOUS
<1>2. ASSUME NEW n \in Messages
      PROVE  /\ DOMAIN Append(q, n) = 1..Len(q) + 1
             /\ \A i \in 1..Len(q) : Append(q, n)[i] = q[i]
             /\ Append(q, n)[Len(q) + 1] = n
  OBVIOUS
<1>3. ASSUME q # <<>>
      PROVE  /\ DOMAIN Tail(q) = 1..Len(q) - 1 /\ Len(q) >= 1
             /\ \A i \in 1..Len(q) - 1 : Tail(q)[i] = q[i + 1]
             /\ Head(q) = q[1]
  BY <1>3
<1>4. ASSUME NEW n \in Messages \ X, Ends(q, X, m) PROVE Ends(Append(q, n), X, m)
  <2>1. PICK i \in 1..Len(q) : q[i] = m /\ \A j \in 1..Len(q) : j > i => q[j] \notin X
    BY <1>1, <1>4 DEF Ends
  <2>2. i \in 1..Len(q) + 1 /\ \A j \in 1..Len(q) + 1 : j \in 1..Len(q) \/ j = Len(q) + 1
    BY <1>1
  <2>3. QED
    BY <1>2, <2>1, <2>2 DEF Ends
<1>5. ASSUME NEW n \in Messages \ X, Without(q, X) PROVE Without(Append(q, n), X)
  <2>1. \A j \in 1..Len(q) + 1 : j \in 1..Len(q) \/ j = Len(q) + 1
    BY <1>1
  <2>2. QED
    BY <1>1, <1>2, <1>5, <2>1 DEF Without
<1>6. ASSUME m \in Messages PROVE Ends(Append(q, m), X, m)
  <2>1. Len(q) + 1 \in 1..Len(q) + 1 /\ \A j \in 1..Len(q) + 1 : ~(j > Len(q) + 1)
    BY <1>1
  <2>2. QED
    BY <1>2, <1>6, <2>1 DEF Ends
<1>7. ASSUME q # <<>>, Ends(q, X, m)
      PROVE  Ends(Tail(q), X, m) \/ (Head(q) = m /\ Without(Tail(q), X))
  <2>1. PICK i \in 1..Len(q) : q[i] = m /\ \A j \in 1..Len(q) : j > i => q[j] \notin X
    BY <1>1, <1>7 DEF Ends
  <2>2. \A j \in 1..Len(q) - 1 : j + 1 \in 1..Len(q) /\ Tail(q)[j] = q[j + 1]
    BY <1>1, <1>3, <1>7
  <2>3. CASE i = 1
    <3>1. \A j \in 1..Len(q) - 1 : j + 1 > i
      BY <2>3
    <3>2. Without(Tail(q), X)
      BY <1>3, <1>7, <2>1, <2>2, <3>1 DEF Without
    <3>3. QED
      BY <1>3, <1>7, <2>1, <2>3, <3>2
  <2>4. CASE i # 1
    <3>1. i - 1 \in 1..Len(q) - 1 /\ (i - 1) + 1 = i
      BY <1>1, <2>4
    <3>2. Tail(q)[i - 1] = m
      BY <2>1, <2>2, <3>1
    <3>3. \A j \in 1..Len(q) - 1 : j > i - 1 => j + 1 > i
      OBVIOUS
    <3>4. \A j \in 1..Len(q) - 1 : j > i - 1 => Tail(q)[j] \notin X
      BY <2>1, <2>2, <3>3
    <3>5. QED
      BY <1>3, <1>7, <3>1, <3>2, <3>4 DEF Ends
  <2>5. QED
    BY <2>3, <2>4
<1>8. ASSUME q # <<>>, Without(q, X) PROVE Without(Tail(q), X) /\ Head(q) \notin X
  <2>1. 1 \in 1..Len(q) /\ \A j \in 1..Len(q) - 1 : j + 1 \in 1..Len(q)
    BY <1>1, <1>3, <1>8
  <2>2. QED
    BY <1>1, <1>3, <1>8, <2>1 DEF Without
<1>9. QED
  BY <1>4, <1>5, <1>6, <1>7, <1>8

\* The messages that are shown in the order of their numbers.
Stamped(msg) == msg.type \in {"frame", "log", "anomaly"}
Stamp(msg) == IF msg.type = "frame" THEN msg.frame.sn ELSE msg.sn

Ascending(q) ==
    \A i, j \in DOMAIN q : i < j /\ Stamped(q[i]) /\ Stamped(q[j]) => Stamp(q[i]) < Stamp(q[j])

\* Those of q have numbers of at least low and of at most high.
Between(q, low, high) == \A i \in DOMAIN q : Stamped(q[i]) => Stamp(q[i]) \in low..high

LEMMA StampType ==
  ASSUME NEW msg \in Messages, Stamped(msg)
  PROVE  Stamp(msg) \in Nat
<1>1. CASE msg.type = "frame"
  <2>1. msg.frame \in Frames
    BY <1>1 DEF Messages
  <2>2. msg.frame.sn \in Nat
    BY <2>1, LiveAssumption DEF Frames
  <2>3. QED
    BY <1>1, <2>2 DEF Stamp
<1>2. CASE msg.type # "frame"
  <2>1. msg.sn \in Nat
    BY <1>2 DEF Messages, Stamped
  <2>2. QED
    BY <1>2, <2>1 DEF Stamp
<1>3. QED
  BY <1>1, <1>2

LEMMA AscendingAppend ==
  ASSUME NEW q \in Seq(Messages), NEW n \in Messages, NEW high \in Nat, Ascending(q),
         Between(q, 0, high), Stamped(n) => Stamp(n) = high + 1
  PROVE  Ascending(Append(q, n))
<1>1. Len(q) \in Nat /\ DOMAIN q = 1..Len(q) /\ DOMAIN Append(q, n) = 1..Len(q) + 1
      /\ (\A i \in 1..Len(q) : Append(q, n)[i] = q[i]) /\ Append(q, n)[Len(q) + 1] = n
  OBVIOUS
<1> DEFINE a == Append(q, n)
<1> HIDE DEF a
<1>2. SUFFICES ASSUME NEW i \in 1..Len(q) + 1, NEW j \in 1..Len(q) + 1, i < j,
                      Stamped(a[i]), Stamped(a[j])
               PROVE  Stamp(a[i]) < Stamp(a[j])
  BY <1>1 DEF Ascending, a
<1>3. i \in 1..Len(q) /\ (j \in 1..Len(q) \/ j = Len(q) + 1)
  BY <1>1, <1>2
<1>4. CASE j \in 1..Len(q)
  BY <1>1, <1>2, <1>3, <1>4 DEF Ascending, a
<1>5. CASE j = Len(q) + 1
  <2>1. Stamp(a[i]) \in 0..high
    BY <1>1, <1>2, <1>3 DEF Between, a
  <2>2. Stamp(a[j]) = high + 1
    BY <1>1, <1>2, <1>5 DEF a
  <2>3. QED
    BY <2>1, <2>2
<1>6. QED
  BY <1>3, <1>4, <1>5

LEMMA AscendingTail ==
  ASSUME NEW q \in Seq(Messages), q # <<>>, Ascending(q)
  PROVE  /\ Ascending(Tail(q))
         /\ \A i \in DOMAIN Tail(q) : Stamped(Head(q)) /\ Stamped(Tail(q)[i]) =>
                Stamp(Head(q)) < Stamp(Tail(q)[i])
         /\ \A i \in DOMAIN Tail(q) : \E j \in DOMAIN q : Tail(q)[i] = q[j]
<1>1. /\ Len(q) \in Nat /\ Len(q) >= 1 /\ DOMAIN q = 1..Len(q) /\ DOMAIN Tail(q) = 1..Len(q) - 1
      /\ \A i \in 1..Len(q) - 1 : Tail(q)[i] = q[i + 1]
      /\ Head(q) = q[1]
  OBVIOUS
<1>2. \A i \in 1..Len(q) - 1 : i + 1 \in 1..Len(q) /\ 1 < i + 1 /\ 1 \in 1..Len(q)
  BY <1>1
<1>3. \A i, j \in 1..Len(q) - 1 : i < j => i + 1 < j + 1
  OBVIOUS
<1>4. Ascending(Tail(q))
  BY <1>1, <1>2, <1>3 DEF Ascending
<1>5. \A i \in DOMAIN Tail(q) : Stamped(Head(q)) /\ Stamped(Tail(q)[i]) => Stamp(Head(q)) < Stamp(Tail(q)[i])
  BY <1>1, <1>2 DEF Ascending
<1>6. QED
  BY <1>1, <1>2, <1>4, <1>5

LEMMA AscendingPrefix ==
  ASSUME NEW q \in Seq(Messages), NEW n \in 0..Len(q), Ascending(q)
  PROVE  /\ Ascending(SubSeq(q, 1, n))
         /\ \A i \in DOMAIN SubSeq(q, 1, n) : i \in DOMAIN q /\ SubSeq(q, 1, n)[i] = q[i]
<1>1. /\ DOMAIN q = 1..Len(q) /\ DOMAIN SubSeq(q, 1, n) = 1..n /\ Len(q) \in Nat
      /\ \A i \in 1..n : SubSeq(q, 1, n)[i] = q[i] /\ i \in 1..Len(q)
  OBVIOUS
<1>2. QED
  BY <1>1 DEF Ascending

\* Nothing in the trends h, the log l and the anomalies a has a number of n or more.
Before(h, l, a, n) ==
    /\ \A c \in Craft : \A i \in DOMAIN h[c] : h[c][i].sn < n
    /\ \A i \in DOMAIN l : l[i] < n
    /\ \A i \in DOMAIN a : a[i] < n

\* The messages of q are in order, none has a number above high, and all are newer than
\* what is shown.
Waits(q, high, h, l, a) ==
    /\ Ascending(q)
    /\ Between(q, 0, high)
    /\ \A i \in DOMAIN q : Stamped(q[i]) => Before(h, l, a, Stamp(q[i]))

LEMMA WaitsPrefix ==
  ASSUME NEW q \in Seq(Messages), NEW n \in 0..Len(q), NEW high, NEW h, NEW l, NEW a,
         Waits(q, high, h, l, a)
  PROVE  Waits(SubSeq(q, 1, n), high, h, l, a)
<1> DEFINE p == SubSeq(q, 1, n)
<1>1. Ascending(p) /\ \A i \in DOMAIN p : i \in DOMAIN q /\ p[i] = q[i]
  BY AscendingPrefix DEF Waits
<1> HIDE DEF p
<1>2. Waits(p, high, h, l, a)
  BY <1>1 DEF Waits, Between
<1>3. QED
  BY <1>2 DEF p

LEMMA WaitsAppend ==
  ASSUME NEW q \in Seq(Messages), NEW m \in Messages, NEW high \in Nat, NEW h, NEW l, NEW a,
         Waits(q, high, h, l, a), Before(h, l, a, high + 1),
         Stamped(m) => Stamp(m) = high + 1
  PROVE  Waits(Append(q, m), high + 1, h, l, a)
<1> DEFINE p == Append(q, m)
<1>1. Ascending(p)
  BY AscendingAppend DEF Waits
<1>2. \A i \in DOMAIN p : (i \in DOMAIN q /\ p[i] = q[i]) \/ p[i] = m
  OBVIOUS
<1> HIDE DEF p
<1>3. \A n : n \in 0..high => n \in 0..high + 1
  OBVIOUS
<1>4. high + 1 \in 0..high + 1
  OBVIOUS
<1>5. Between(p, 0, high + 1)
  BY <1>2, <1>3, <1>4, Zenon DEF Between, Waits
<1>6. \A i \in DOMAIN p : Stamped(p[i]) => Before(h, l, a, Stamp(p[i]))
  BY <1>2, Zenon DEF Waits
<1>7. Waits(p, high + 1, h, l, a)
  BY <1>1, <1>5, <1>6, Zenon DEF Waits
<1>8. QED
  BY <1>7 DEF p

\* Once the first message is shown, the others are still newer.
Shows(m, h, l, a, h2, l2, a2) ==
    \A n \in Nat : Before(h, l, a, n) /\ (Stamped(m) => Stamp(m) < n) => Before(h2, l2, a2, n)

LEMMA WaitsTail ==
  ASSUME NEW q \in Seq(Messages), q # <<>>, NEW high, NEW h, NEW l, NEW a,
         NEW h2, NEW l2, NEW a2,
         Waits(q, high, h, l, a), Shows(Head(q), h, l, a, h2, l2, a2)
  PROVE  Waits(Tail(q), high, h2, l2, a2)
<1> DEFINE t == Tail(q)
           m == Head(q)
<1>1. /\ Ascending(t)
      /\ \A i \in DOMAIN t : Stamped(m) /\ Stamped(t[i]) => Stamp(m) < Stamp(t[i])
      /\ \A i \in DOMAIN t : \E j \in DOMAIN q : t[i] = q[j]
  BY AscendingTail DEF Waits
<1>2. t \in Seq(Messages)
  OBVIOUS
<1>3. \A i \in DOMAIN t : t[i] \in Messages
  BY <1>2
<1> HIDE DEF t, m
<1>4. Between(t, 0, high)
  BY <1>1, Zenon DEF Between, Waits
<1>5. ASSUME NEW i \in DOMAIN t, Stamped(t[i])
      PROVE  Before(h2, l2, a2, Stamp(t[i]))
  <2>1. Stamp(t[i]) \in Nat
    BY <1>3, <1>5, StampType
  <2>2. Before(h, l, a, Stamp(t[i]))
    BY <1>1, <1>5, Zenon DEF Waits
  <2>3. Stamped(m) => Stamp(m) < Stamp(t[i])
    BY <1>1, <1>5
  <2>4. QED
    BY <2>1, <2>2, <2>3, Zenon DEF Shows, m
<1>6. Waits(t, high, h2, l2, a2)
  BY <1>1, <1>4, <1>5, Zenon DEF Waits
<1>7. QED
  BY <1>6 DEF t

\* An entry that is newer than all of a list goes to its front.
LEMMA RingOrder ==
  ASSUME NEW q \in Seq(Nat), Len(q) <= MAX_RING, NEW x \in Nat,
         \A i \in DOMAIN q : q[i] < x,
         \A i, j \in DOMAIN q : i < j => q[i] > q[j]
  PROVE  /\ \A i, j \in DOMAIN Ring(x, q) : i < j => Ring(x, q)[i] > Ring(x, q)[j]
         /\ \A i \in DOMAIN Ring(x, q) : Ring(x, q)[i] <= x
<1> DEFINE n == IF Len(q) < MAX_RING THEN Len(q) ELSE MAX_RING - 1
           s == SubSeq(q, 1, n)
           r == Ring(x, q)
<1>1. Len(q) \in Nat /\ n \in 0..Len(q) /\ DOMAIN q = 1..Len(q)
  BY LiveAssumption
<1> HIDE DEF n
<1>2. s \in Seq(Nat) /\ Len(s) = n /\ \A i \in 1..n : s[i] = q[i]
  BY <1>1
<1> HIDE DEF s
<1>3. <<x>> \in Seq(Nat) /\ Len(<<x>>) = 1 /\ <<x>>[1] = x
  OBVIOUS
<1>4. r = <<x>> \o s
  BY DEF Ring, s, n
<1> HIDE DEF r
<1>5. r \in Seq(Nat) /\ Len(r) = n + 1
  BY <1>1, <1>2, <1>3, <1>4, ConcatProperties
<1>6. DOMAIN r = 1..n + 1
  BY <1>5
<1>7. \A i \in 1..n + 1 : r[i] = IF i <= 1 THEN <<x>>[i] ELSE s[i - 1]
  BY <1>1, <1>2, <1>3, <1>4, ConcatProperties
<1>8. \A i \in 1..n + 1 : IF i = 1 THEN r[i] = x ELSE i - 1 \in 1..Len(q) /\ r[i] = q[i - 1]
  <2> SUFFICES ASSUME NEW i \in 1..n + 1
               PROVE  IF i = 1 THEN r[i] = x ELSE i - 1 \in 1..Len(q) /\ r[i] = q[i - 1]
    OBVIOUS
  <2>1. CASE i = 1
    BY <1>3, <1>7, <2>1
  <2>2. CASE i # 1
    <3>1. ~(i <= 1) /\ i - 1 \in 1..n /\ i - 1 \in 1..Len(q)
      BY <1>1, <2>2
    <3>2. QED
      BY <1>2, <1>7, <2>2, <3>1
  <2>3. QED
    BY <2>1, <2>2
<1>9. \A i, j \in 1..n + 1 : i < j => r[i] > r[j]
  <2> SUFFICES ASSUME NEW i \in 1..n + 1, NEW j \in 1..n + 1, i < j
               PROVE  r[j] < r[i]
    BY <1>5, <1>6
  <2>1. j # 1 /\ j - 1 \in 1..Len(q) /\ r[j] = q[j - 1]
    BY <1>8
  <2>2. CASE i = 1
    BY <1>1, <1>8, <2>1, <2>2
  <2>3. CASE i # 1
    <3>1. i - 1 \in 1..Len(q) /\ r[i] = q[i - 1] /\ i - 1 < j - 1
      BY <1>8, <2>3
    <3>2. QED
      BY <1>1, <2>1, <3>1
  <2>4. QED
    BY <2>2, <2>3
<1>10. \A i \in 1..n + 1 : r[i] <= x
  <2> SUFFICES ASSUME NEW i \in 1..n + 1 PROVE r[i] <= x
    OBVIOUS
  <2>1. CASE i = 1
    BY <1>8, <2>1
  <2>2. CASE i # 1
    <3>1. i - 1 \in 1..Len(q) /\ r[i] = q[i - 1]
      BY <1>8, <2>2
    <3>2. r[i] < x
      BY <1>1, <3>1
    <3>3. r[i] \in Nat
      BY <1>5, <1>6
    <3>4. QED
      BY <3>2, <3>3
  <2>3. QED
    BY <2>1, <2>2
<1>11. QED
  BY <1>6, <1>9, <1>10 DEF r

\* A frame that is newer than all of a trend goes to its end.
LEMMA WindowOrder ==
  ASSUME NEW q \in Seq(Frames), Len(q) <= MAX_HISTORY, NEW f \in Frames,
         \A i \in DOMAIN q : q[i].sn < f.sn,
         \A i, j \in DOMAIN q : i < j => q[i].sn < q[j].sn
  PROVE  LET w == Window(q, f)
         IN  /\ \A i, j \in DOMAIN w : i < j => w[i].sn < w[j].sn
             /\ \A i \in DOMAIN w : w[i].sn <= f.sn
             /\ w # <<>> /\ w[Len(w)] = f
<1> DEFINE m == IF Len(q) < MAX_HISTORY THEN 1 ELSE Len(q) - MAX_HISTORY + 2
           s == SubSeq(q, m, Len(q))
           w == Window(q, f)
           n == Len(q) - m + 1
<1>1. Len(q) \in Nat /\ m \in 1..Len(q) + 1 /\ DOMAIN q = 1..Len(q)
  BY LiveAssumption
<1> HIDE DEF m
<1>2. n \in 0..Len(q)
  BY <1>1
<1>3. s \in Seq(Frames) /\ Len(s) = n /\ \A i \in 1..n : s[i] = q[i + m - 1]
  BY <1>1
<1>4. \A i \in 1..n : i + m - 1 \in 1..Len(q)
  BY <1>1
<1>5. \A i, j \in 1..n : i < j => i + m - 1 < j + m - 1
  BY <1>1
<1> HIDE DEF s, n
<1>6. <<f>> \in Seq(Frames) /\ Len(<<f>>) = 1 /\ <<f>>[1] = f
  OBVIOUS
<1>7. w = s \o <<f>>
  BY DEF Window, s, m
<1> HIDE DEF w
<1>8. w \in Seq(Frames) /\ Len(w) = n + 1
  BY <1>2, <1>3, <1>6, <1>7, ConcatProperties
<1>9. DOMAIN w = 1..n + 1
  BY <1>8
<1>10. \A i \in 1..n + 1 : w[i] = IF i <= n THEN s[i] ELSE <<f>>[i - n]
  BY <1>2, <1>3, <1>6, <1>7, ConcatProperties
<1>11. \A i \in 1..n + 1 : i \in 1..n \/ (i = n + 1 /\ ~(i <= n) /\ i - n = 1)
  BY <1>2
<1>12. \A i \in 1..n : i \in 1..n + 1 /\ i <= n
  BY <1>2
<1>13. \A i \in 1..n : w[i] = q[i + m - 1]
  BY <1>3, <1>10, <1>12
<1>14. n + 1 \in 1..n + 1 /\ w[n + 1] = f
  BY <1>2, <1>6, <1>10
<1>15. \A g \in Frames : g.sn \in Nat
  BY LiveAssumption DEF Frames
<1>16. \A i, j \in 1..n + 1 : i < j => w[i].sn < w[j].sn
  <2> SUFFICES ASSUME NEW i \in 1..n + 1, NEW j \in 1..n + 1, i < j
               PROVE  w[i].sn < w[j].sn
    OBVIOUS
  <2>1. i \in 1..n
    BY <1>2
  <2>2. CASE j \in 1..n
    BY <1>1, <1>4, <1>5, <1>13, <2>1, <2>2
  <2>3. CASE j = n + 1
    BY <1>1, <1>4, <1>13, <1>14, <2>1, <2>3
  <2>4. QED
    BY <1>11, <2>2, <2>3
<1>17. \A i \in 1..n + 1 : w[i].sn <= f.sn
  <2> SUFFICES ASSUME NEW i \in 1..n + 1 PROVE w[i].sn <= f.sn
    OBVIOUS
  <2>1. CASE i \in 1..n
    <3>1. w[i].sn < f.sn
      BY <1>1, <1>4, <1>13, <2>1
    <3>2. w[i] \in Frames
      BY <1>8, <1>9
    <3>3. w[i].sn \in Nat /\ f.sn \in Nat
      BY <1>15, <3>2
    <3>4. QED
      BY <3>1, <3>3
  <2>2. CASE i = n + 1
    <3>1. w[i].sn = f.sn /\ f.sn \in Nat
      BY <1>14, <1>15, <2>2
    <3>2. QED
      BY <3>1
  <2>3. QED
    BY <1>11, <2>1, <2>2
<1>18. w # <<>> /\ w[Len(w)] = f
  BY <1>2, <1>8, <1>14
<1>19. QED
  BY <1>9, <1>16, <1>17, <1>18 DEF w

-----------------------------------------------------------------------------
(* What the screen shows *)

\* The screen and the memory of the pills tell of the same frames.
ShownTypes ==
    /\ swarm \in {{}, Craft}
    /\ frames \in [Craft -> Frames \cup {NoFrame}]
    /\ health \in [Craft -> 0..100]
    /\ \A c \in Craft : lastMode[c] = Unseen <=> frames[c] = NoFrame
    /\ \A c \in Craft : lastFaults[c] = FaultsOf(frames[c], NoFrame)

\* The orchestrator numbers what it broadcasts.
Numbered ==
    /\ linked.links \in Links /\ linked.sn \in 0..framed + others
    /\ \A c \in Craft : latest[c] # NoFrame => latest[c].sn \in 0..framed + others

\* What is under way to the screen is newer than what it shows, and in order; a socket
\* that is dead has nothing under way.
UnderWay(k) ==
    /\ Waits(socks[k].queue, framed + others, history, logs, anomalies)
    /\ ~Lives(k) => socks[k].queue = <<>>

OrderInv ==
    /\ InOrder
    /\ Before(history, logs, anomalies, framed + others + 1)
    /\ \A k \in Sock : UnderWay(k)

RelayMsgs == {msg \in Messages : msg.type = "relay"}

FramesOf(c) == {msg \in Messages : msg.type = "frame" /\ msg.craft = c}

LinksMsg == [type |-> "relay", links |-> linked.links]

LatestMsg(c) ==
    [type |-> "frame", craft |-> c, frame |-> latest[c], health |-> HealthScore(latest[c])]

\* The page shows the last frame of craft c.
OnScreen(c) ==
    /\ frames[c] = latest[c]
    /\ health[c] = HealthScore(latest[c])
    /\ history[c] # <<>>
    /\ history[c][Len(history[c])] = latest[c]

\* A socket that is served has said hello or will; and the last of the relay messages, and
\* of the frames of a craft, that were sent to it is under way or on the screen.
GreetedBy(k) == swarm = Craft \/ \E i \in DOMAIN socks[k].queue : socks[k].queue[i].type = "hello"

LinksBy(k) ==
    linked.sn > socks[k].from =>
        \/ Ends(socks[k].queue, RelayMsgs, LinksMsg)
        \/ Without(socks[k].queue, RelayMsgs) /\ relays = linked.links

FrameBy(k, c) ==
    latest[c] # NoFrame /\ latest[c].sn > socks[k].from =>
        \/ Ends(socks[k].queue, FramesOf(c), LatestMsg(c))
        \/ Without(socks[k].queue, FramesOf(c)) /\ OnScreen(c)

CurrentBy(k) == GreetedBy(k) /\ LinksBy(k) /\ \A c \in Craft : FrameBy(k, c)

CurrentInv == \A k \in Sock : socks[k].served => CurrentBy(k)

ScreenInv == ShownTypes /\ Numbered /\ OrderInv /\ CurrentInv

\* A health is a percentage.
LEMMA HealthRange ==
  ASSUME NEW f \in Frames
  PROVE  HealthScore(f) \in 0..100
<1>1. IsFiniteSet(f.faults) /\ f.strain \in Nat
  BY LiveAssumption DEF Frames
<1>2. Cardinality(f.faults) \in Nat
  BY <1>1, FS_CardinalityType
<1> DEFINE n == Cardinality(f.faults)
           byFaults == IF n > 4 THEN 40 ELSE 10 * n
           byMode   == CASE f.mode = "EMERGENCY" -> 20
                         [] f.mode = "SAFE"      -> 35
                         [] f.mode = "RECOVERY"  -> 10
                         [] OTHER                -> 0
           score == 100 - byFaults - byMode - f.strain
<1> HIDE DEF n
<1>3. byFaults \in Nat
  BY <1>2 DEF n
<1>4. byMode \in Nat
  OBVIOUS
<1>5. HealthScore(f) = IF score < 0 THEN 0 ELSE score
  BY DEF HealthScore, n
<1> HIDE DEF byFaults, byMode
<1>6. QED
  BY <1>1, <1>3, <1>4, <1>5

\* Nothing is shown at first, and nothing is under way.
LEMMA InitScreen == Init => ScreenInv
<1> SUFFICES ASSUME Init PROVE ScreenInv
  OBVIOUS
<1>1. /\ swarm = {} /\ frames = [c \in Craft |-> NoFrame] /\ health = [c \in Craft |-> 0]
      /\ lastMode = [c \in Craft |-> Unseen] /\ lastFaults = [c \in Craft |-> {}]
      /\ history = [c \in Craft |-> <<>>] /\ logs = <<>> /\ anomalies = <<>>
  BY DEF Init, StoreInit, NotificationsInit
<1>2. /\ latest = [c \in Craft |-> NoFrame] /\ linked = [links |-> {}, sn |-> 0]
      /\ framed = 0 /\ others = 0 /\ Sock = {}
  BY DEF Init, Sock
<1>3. ShownTypes
  BY <1>1 DEF ShownTypes, FaultsOf
<1>4. Numbered
  BY <1>2, LiveAssumption DEF Numbered
<1>5. DOMAIN logs = {} /\ DOMAIN anomalies = {} /\ \A c \in Craft : DOMAIN history[c] = {}
  BY <1>1
<1>6. OrderInv /\ CurrentInv
  BY <1>2, <1>5, Zenon DEF OrderInv, InOrder, Before, CurrentInv
<1>7. QED
  BY <1>3, <1>4, <1>6 DEF ScreenInv

\* A step that shows nothing and sends nothing: the queue of a socket stays, or loses its
\* end with the connection, or the socket is a new one.
Stays(k) ==
    /\ k \in Sock
    /\ socks'[k].queue = socks[k].queue
    /\ socks'[k].from = socks[k].from
    /\ socks'[k].served => socks[k].served
    /\ Lives(k) => Lives(k)'

LosesSome(k) ==
    /\ k \in Sock
    /\ ~socks'[k].served
    /\ Lives(k)'
    /\ \E n \in 0..Len(socks[k].queue) : socks'[k].queue = SubSeq(socks[k].queue, 1, n)

Empties(k) == socks'[k].queue = <<>> /\ ~socks'[k].served

Quiet ==
    /\ UNCHANGED <<board, lastMode, lastFaults, server>>
    /\ \A k \in Sock' : Stays(k) \/ LosesSome(k) \/ Empties(k)

LEMMA QuietStep ==
  ASSUME LinkInv, ScreenInv, Quiet
  PROVE  ScreenInv'
<1>1. /\ UNCHANGED <<swarm, frames, health, history, logs, anomalies, relays>>
      /\ UNCHANGED <<lastMode, lastFaults, latest, linked, framed, others>>
  BY DEF Quiet, board, server
<1>2. ShownTypes' /\ Numbered'
  BY <1>1 DEF ScreenInv, ShownTypes, Numbered
<1>3. InOrder' /\ Before(history', logs', anomalies', framed' + others' + 1)
  BY <1>1 DEF ScreenInv, OrderInv, InOrder
<1>4. ASSUME NEW k \in Sock' PROVE UnderWay(k)'
  <2>1. CASE Stays(k)
    BY <1>1, <2>1 DEF Stays, UnderWay, ScreenInv, OrderInv
  <2>2. CASE LosesSome(k)
    <3>1. PICK n \in 0..Len(socks[k].queue) : socks'[k].queue = SubSeq(socks[k].queue, 1, n)
      BY <2>2 DEF LosesSome
    <3>2. socks[k].queue \in Seq(Messages) /\ Waits(socks[k].queue, framed + others, history, logs, anomalies)
      BY <2>2, SockFacts DEF LosesSome, UnderWay, ScreenInv, OrderInv
    <3>3. Waits(socks'[k].queue, framed + others, history, logs, anomalies)
      BY <3>1, <3>2, WaitsPrefix
    <3>4. QED
      BY <1>1, <2>2, <3>3 DEF LosesSome, UnderWay
  <2>3. CASE Empties(k)
    BY <2>3 DEF Empties, UnderWay, Waits, Ascending, Between
  <2>4. QED
    BY <2>1, <2>2, <2>3 DEF Quiet
<1>5. ASSUME NEW k \in Sock', socks'[k].served PROVE CurrentBy(k)'
  <2>1. Stays(k)
    BY <1>5 DEF Quiet, LosesSome, Empties
  <2>2. CurrentBy(k)
    BY <1>5, <2>1 DEF Stays, ScreenInv, CurrentInv
  <2>3. GreetedBy(k)' /\ LinksBy(k)'
    BY <1>1, <2>1, <2>2 DEF Stays, CurrentBy, GreetedBy, LinksBy, LinksMsg
  <2>4. ASSUME NEW c \in Craft PROVE FrameBy(k, c)'
    <3>1. FrameBy(k, c)
      BY <2>2 DEF CurrentBy
    <3>2. LatestMsg(c)' = LatestMsg(c) /\ (OnScreen(c)' <=> OnScreen(c))
      BY <1>1 DEF LatestMsg, OnScreen
    <3>3. QED
      BY <1>1, <2>1, <3>1, <3>2 DEF Stays, FrameBy
  <2>5. QED
    BY <2>3, <2>4 DEF CurrentBy
<1>6. QED
  BY <1>2, <1>3, <1>4, <1>5 DEF ScreenInv, OrderInv, CurrentInv

\* One socket is replaced; the others stay as they are.
LEMMA QuietOne ==
  ASSUME LinkInv, NEW k \in Sock, NEW s \in Sockets, socks' = [socks EXCEPT ![k] = s],
         UNCHANGED <<board, lastMode, lastFaults, server>>,
         Stays(k) \/ LosesSome(k) \/ Empties(k)
  PROVE  Quiet
<1>1. Sock' = Sock /\ \A j \in Sock : j # k => socks'[j] = socks[j]
  BY ChangeOne DEF LinkInv
<1>2. ASSUME NEW j \in Sock, j # k PROVE Stays(j)
  <2>1. socks'[j] = socks[j]
    BY <1>1, <1>2
  <2>2. QED
    BY <2>1 DEF Stays, Lives
<1>3. QED
  BY <1>1, <1>2 DEF Quiet

\* connectLive makes a socket that has nothing to show.
LEMMA QuietConnect ==
  ASSUME LinkInv, ConnectLive, UNCHANGED <<board, lastMode, lastFaults, server>>
  PROVE  Quiet
<1>1. CASE UNCHANGED socks
  <2>1. \A k \in Sock' : Stays(k)
    BY <1>1 DEF Stays, Sock, Lives
  <2>2. QED
    BY <2>1 DEF Quiet
<1>2. CASE NewSocket
  <2> DEFINE fresh == [state |-> "connecting", served |-> FALSE, from |-> 0, queue |-> <<>>]
  <2>1. socks' = Append(socks, fresh) /\ fresh.queue = <<>> /\ fresh.served = FALSE
    BY <1>2 DEF NewSocket
  <2> HIDE DEF fresh
  <2>2. /\ Sock' = Sock \cup {Len(socks) + 1} /\ socks'[Len(socks) + 1] = fresh
        /\ \A k \in Sock : socks'[k] = socks[k]
    BY <2>1 DEF LinkInv, LinkTypes, Sock
  <2>3. Empties(Len(socks) + 1)
    BY <2>1, <2>2 DEF Empties
  <2>4. \A k \in Sock : Stays(k)
    BY <2>2 DEF Stays, Lives
  <2>5. QED
    BY <2>2, <2>3, <2>4 DEF Quiet
<1>3. QED
  BY <1>1, <1>2 DEF ConnectLive

\* Everything is quiet but the broadcasts, the acceptance and the messages.
LEMMA QuietActions ==
  ASSUME LinkInv,
         \/ \E k \in Sock : Open(k) \/ OnClose(k) \/ Cut(k) \/ Refuse(k)
         \/ Mount \/ Reconnect \/ ClosePill \/ (\E id \in expiring : Gone(id)) \/ UNCHANGED vars
  PROVE  Quiet
<1>1. ASSUME UNCHANGED <<board, lastMode, lastFaults, server>>, UNCHANGED socks PROVE Quiet
  <2>1. \A k \in Sock' : Stays(k)
    BY <1>1 DEF Stays, Sock, Lives
  <2>2. QED
    BY <1>1, <2>1 DEF Quiet
<1>2. ASSUME NEW k \in Sock, Open(k) PROVE Quiet
  <2> DEFINE s == [socks[k] EXCEPT !.state = "open"]
  <2>1. /\ s \in Sockets /\ s.state = "open" /\ s.served = socks[k].served
        /\ s.from = socks[k].from /\ s.queue = socks[k].queue
    BY SockFacts DEF Sockets, States
  <2>2. socks' = [socks EXCEPT ![k] = s] /\ UNCHANGED <<board, lastMode, lastFaults, server>>
    BY <1>2 DEF Open, pills
  <2> HIDE DEF s
  <2>3. socks'[k] = s
    BY <2>1, <2>2, ChangeOne DEF LinkInv
  <2>4. Stays(k)
    BY <2>1, <2>3 DEF Stays, Lives
  <2>5. QED
    BY <2>1, <2>2, <2>4, QuietOne
<1>3. ASSUME NEW k \in Sock, OnClose(k) PROVE Quiet
  <2> DEFINE s == [state |-> "closed", served |-> FALSE, from |-> 0, queue |-> <<>>]
  <2>1. s \in Sockets /\ s.served = FALSE /\ s.queue = <<>>
    BY EmptySeq DEF Sockets, States
  <2>2. socks' = [socks EXCEPT ![k] = s] /\ UNCHANGED <<board, lastMode, lastFaults, server>>
    BY <1>3 DEF OnClose, pills
  <2> HIDE DEF s
  <2>3. socks'[k] = s
    BY <2>1, <2>2, ChangeOne DEF LinkInv
  <2>4. Empties(k)
    BY <2>1, <2>3 DEF Empties
  <2>5. QED
    BY <2>1, <2>2, <2>4, QuietOne
<1>4. ASSUME NEW k \in Sock, Cut(k) PROVE Quiet
  <2> DEFINE q == socks[k]
             to == IF q.state = "connecting" THEN "failing" ELSE "cut"
  <2>1. PICK n \in 0..Len(q.queue) :
           socks' = [socks EXCEPT ![k].served = FALSE, ![k].queue = SubSeq(@, 1, n),
                                  ![k].state = IF @ = "connecting" THEN "failing" ELSE "cut"]
    BY <1>4 DEF Cut
  <2> DEFINE s == [q EXCEPT !.served = FALSE, !.queue = SubSeq(@, 1, n), !.state = to]
  <2>2. q \in Sockets /\ q.queue \in Seq(Messages)
    BY SockFacts
  <2>3. SubSeq(q.queue, 1, n) \in Seq(Messages)
    BY <2>2, QueueFacts, SubSeqProperties
  <2>4. to \in {"failing", "cut"}
    OBVIOUS
  <2> HIDE DEF to
  <2>5. s \in Sockets /\ s.served = FALSE /\ s.queue = SubSeq(q.queue, 1, n) /\ s.state = to
    BY <2>2, <2>3, <2>4 DEF Sockets, States
  <2>6. socks' = [socks EXCEPT ![k] = s]
    BY <2>1, Zenon DEF to
  <2>7. UNCHANGED <<board, lastMode, lastFaults, server>>
    BY <1>4 DEF Cut, pills
  <2> HIDE DEF s
  <2>8. socks'[k] = s
    BY <2>5, <2>6, ChangeOne DEF LinkInv
  <2>9. LosesSome(k)
    BY <2>4, <2>5, <2>8 DEF LosesSome, Lives
  <2>10. QED
    BY <2>5, <2>6, <2>7, <2>9, QuietOne
<1>5. ASSUME NEW k \in Sock, Refuse(k) PROVE Quiet
  <2> DEFINE s == [socks[k] EXCEPT !.state = "failing"]
  <2>1. /\ s \in Sockets /\ s.state = "failing" /\ s.served = socks[k].served
        /\ s.from = socks[k].from /\ s.queue = socks[k].queue
    BY SockFacts DEF Sockets, States
  <2>2. socks' = [socks EXCEPT ![k] = s] /\ UNCHANGED <<board, lastMode, lastFaults, server>>
    BY <1>5 DEF Refuse, pills
  <2> HIDE DEF s
  <2>3. socks'[k] = s
    BY <2>1, <2>2, ChangeOne DEF LinkInv
  <2>4. Stays(k)
    BY <2>1, <2>3 DEF Stays, Lives
  <2>5. QED
    BY <2>1, <2>2, <2>4, QuietOne
<1>6. CASE Mount
  BY <1>6, QuietConnect DEF Mount, pills
<1>7. CASE Reconnect
  BY <1>7, QuietConnect DEF Reconnect, pills
<1>8. CASE ClosePill
  BY <1>1, <1>8 DEF ClosePill, Close, link
<1>9. ASSUME NEW id \in expiring, Gone(id) PROVE Quiet
  BY <1>1, <1>9 DEF Gone, Expire, link
<1>10. CASE UNCHANGED vars
  BY <1>1, <1>10 DEF vars, link, pills
<1>11. QED
  BY <1>2, <1>3, <1>4, <1>5, <1>6, <1>7, <1>8, <1>9, <1>10

\* A socket that is accepted is told hello; nothing has been broadcast since.
LEMMA AcceptScreen ==
  ASSUME LinkInv, ScreenInv, NEW k \in Sock, Accept(k)
  PROVE  ScreenInv'
<1> DEFINE hello == [type |-> "hello", crafts |-> Statuses]
           s == [state |-> "connecting", served |-> TRUE, from |-> framed + others,
                 queue |-> <<hello>>]
<1>1. hello \in Messages /\ hello.type = "hello"
  BY StatusType DEF LinkInv, Messages
<1> HIDE DEF hello
<1>2. framed + others \in Nat /\ <<hello>> \in Seq(Messages)
  BY <1>1 DEF LinkInv, LinkTypes
<1>3. /\ s \in Sockets /\ s.served = TRUE /\ s.from = framed + others /\ s.queue = <<hello>>
      /\ s.state = "connecting"
  BY <1>2 DEF Sockets, States
<1>4. socks' = [socks EXCEPT ![k] = s]
  BY DEF Accept, hello
<1>5. /\ UNCHANGED <<swarm, frames, health, history, logs, anomalies, relays>>
      /\ UNCHANGED <<lastMode, lastFaults, latest, linked, framed, others>>
  BY DEF Accept, board, server, pills
<1> HIDE DEF s
<1>6. Sock' = Sock /\ socks'[k] = s /\ \A j \in Sock : j # k => socks'[j] = socks[j]
  BY <1>3, <1>4, ChangeOne DEF LinkInv
<1>7. ShownTypes' /\ Numbered'
  BY <1>5 DEF ScreenInv, ShownTypes, Numbered
<1>8. InOrder' /\ Before(history', logs', anomalies', framed' + others' + 1)
  BY <1>5 DEF ScreenInv, OrderInv, InOrder
<1>9. DOMAIN <<hello>> = {1} /\ <<hello>>[1] = hello /\ ~Stamped(hello) /\ 1 \in {1}
  BY <1>1 DEF Stamped
<1>10. UnderWay(k)'
  <2>1. Waits(<<hello>>, framed + others, history, logs, anomalies)
    BY <1>9, Zenon DEF Waits, Ascending, Between
  <2>2. Lives(k)'
    BY <1>3, <1>6 DEF Lives
  <2>3. QED
    BY <1>3, <1>5, <1>6, <2>1, <2>2 DEF UnderWay
<1>11. ASSUME NEW j \in Sock, j # k PROVE UnderWay(j)'
  <2>1. UnderWay(j) /\ socks'[j] = socks[j] /\ (Lives(j)' <=> Lives(j))
    BY <1>6, <1>11 DEF ScreenInv, OrderInv, Lives
  <2>2. QED
    BY <1>5, <2>1 DEF UnderWay
<1>12. CurrentBy(k)'
  <2>1. GreetedBy(k)'
    BY <1>1, <1>3, <1>6, <1>9, Zenon DEF GreetedBy
  <2>2. ~(linked.sn > framed + others)
    BY <1>2 DEF ScreenInv, Numbered
  <2>3. \A c \in Craft : ~(latest[c] # NoFrame /\ latest[c].sn > framed + others)
    BY <1>2 DEF ScreenInv, Numbered
  <2>4. QED
    BY <1>3, <1>5, <1>6, <2>1, <2>2, <2>3 DEF CurrentBy, LinksBy, FrameBy
<1>13. ASSUME NEW j \in Sock, j # k, socks'[j].served PROVE CurrentBy(j)'
  <2>1. socks'[j] = socks[j] /\ CurrentBy(j)
    BY <1>6, <1>13 DEF ScreenInv, CurrentInv
  <2>2. GreetedBy(j)' /\ LinksBy(j)'
    BY <1>5, <2>1 DEF CurrentBy, GreetedBy, LinksBy, LinksMsg
  <2>3. ASSUME NEW c \in Craft PROVE FrameBy(j, c)'
    <3>1. FrameBy(j, c)
      BY <2>1 DEF CurrentBy
    <3>2. LatestMsg(c)' = LatestMsg(c) /\ (OnScreen(c)' <=> OnScreen(c))
      BY <1>5 DEF LatestMsg, OnScreen
    <3>3. QED
      BY <1>5, <2>1, <3>1, <3>2 DEF FrameBy
  <2>4. QED
    BY <2>2, <2>3 DEF CurrentBy
<1>14. QED
  BY <1>6, <1>7, <1>8, <1>10, <1>11, <1>12, <1>13 DEF ScreenInv, OrderInv, CurrentInv

\* A broadcast goes to the end of the queues that are served.
LEMMA SentFacts ==
  ASSUME LinkInv, NEW msg \in Messages, Broadcast(msg)
  PROVE  /\ Sock' = Sock
         /\ \A k \in Sock :
                /\ socks'[k].state = socks[k].state
                /\ socks'[k].served = socks[k].served
                /\ socks'[k].from = socks[k].from
                /\ socks'[k].queue = IF socks[k].served THEN Append(socks[k].queue, msg)
                                     ELSE socks[k].queue
<1>1. socks' = Sent(msg)
  BY DEF Broadcast
<1>2. Sock' = Sock
  BY <1>1 DEF Sock, Sent
<1>3. ASSUME NEW k \in Sock
      PROVE  /\ socks'[k].state = socks[k].state
             /\ socks'[k].served = socks[k].served
             /\ socks'[k].from = socks[k].from
             /\ socks'[k].queue = IF socks[k].served THEN Append(socks[k].queue, msg)
                                  ELSE socks[k].queue
  <2>1. socks'[k] = IF socks[k].served THEN [socks[k] EXCEPT !.queue = Append(@, msg)]
                    ELSE socks[k]
    BY <1>1 DEF Sent, Sock
  <2>2. socks[k] \in Sockets
    BY SockFacts
  <2>3. QED
    BY <2>1, <2>2 DEF Sockets
<1>4. QED
  BY <1>2, <1>3

\* A broadcast that shows nothing itself, with the next number.
Sends(msg) ==
    /\ Broadcast(msg)
    /\ UNCHANGED <<board, lastMode, lastFaults>>
    /\ framed' + others' = framed + others + 1
    /\ Stamped(msg) => Stamp(msg) = framed + others + 1

LEMMA SentOrder ==
  ASSUME LinkInv, BoardInv, ScreenInv, NEW msg \in Messages, Sends(msg)
  PROVE  OrderInv'
<1> DEFINE high == framed + others
<1>1. high \in Nat
  BY DEF LinkInv, LinkTypes
<1>2. UNCHANGED <<history, logs, anomalies>> /\ Broadcast(msg) /\ framed' + others' = high + 1
  BY DEF Sends, board
<1>3. Stamped(msg) => Stamp(msg) = high + 1
  BY DEF Sends
<1>4. Before(history, logs, anomalies, high + 1) /\ InOrder
  BY DEF ScreenInv, OrderInv
<1> HIDE DEF high
<1>5. InOrder'
  BY <1>2, <1>4 DEF InOrder
<1>6. Before(history, logs, anomalies, high + 1 + 1)
  <2>1. \A n \in Nat : n < high + 1 => n < high + 1 + 1
    BY <1>1
  <2>2. \A i \in DOMAIN logs : logs[i] \in Nat
    BY DEF BoardInv
  <2>3. \A i \in DOMAIN anomalies : anomalies[i] \in Nat
    BY DEF BoardInv
  <2>4. \A c \in Craft : \A i \in DOMAIN history[c] : history[c][i].sn \in Nat
    <3>1. \A f \in Frames : f.sn \in Nat
      BY LiveAssumption DEF Frames
    <3>2. \A c \in Craft : \A i \in DOMAIN history[c] : history[c][i] \in Frames
      BY DEF BoardInv
    <3>3. QED
      BY <3>1, <3>2, Zenon
  <2>5. QED
    BY <1>4, <2>1, <2>2, <2>3, <2>4, Zenon DEF Before
<1>7. ASSUME NEW k \in Sock PROVE UnderWay(k)'
  <2>1. socks[k].queue \in Seq(Messages) /\ UnderWay(k)
    BY SockFacts DEF ScreenInv, OrderInv
  <2>2. Waits(socks[k].queue, high, history, logs, anomalies) /\ (~Lives(k) => socks[k].queue = <<>>)
    BY <2>1 DEF UnderWay, high
  <2>3. /\ socks'[k].state = socks[k].state
        /\ socks'[k].queue = IF socks[k].served THEN Append(socks[k].queue, msg)
                             ELSE socks[k].queue
    BY <1>2, SentFacts
  <2>4. Lives(k)' <=> Lives(k)
    BY <2>3 DEF Lives
  <2>5. socks[k].served => Lives(k)
    BY DEF LinkInv, OneLink, Lives
  <2>6. \A n : n \in 0..high => n \in 0..high + 1
    BY <1>1
  <2>7. Waits(socks[k].queue, high + 1, history, logs, anomalies)
    BY <2>2, <2>6, Zenon DEF Waits, Between
  <2>8. Waits(Append(socks[k].queue, msg), high + 1, history, logs, anomalies)
    BY <1>1, <1>3, <1>4, <2>1, <2>2, WaitsAppend
  <2>9. Waits(socks'[k].queue, high + 1, history, logs, anomalies)
    BY <2>3, <2>7, <2>8
  <2>10. ~Lives(k)' => socks'[k].queue = <<>>
    BY <2>2, <2>3, <2>4, <2>5
  <2>11. QED
    BY <1>2, <2>9, <2>10 DEF UnderWay
<1>8. Sock' = Sock
  BY <1>2, SentFacts
<1>9. Before(history', logs', anomalies', framed' + others' + 1)
  BY <1>2, <1>6
<1>10. QED
  BY <1>5, <1>7, <1>8, <1>9 DEF OrderInv

\* The last relay message is that of linked, and the last frame of a craft is the latest.
Newest(msg) ==
    /\ \/ msg \notin RelayMsgs /\ UNCHANGED linked
       \/ msg \in RelayMsgs /\ msg = LinksMsg'
    /\ \A c \in Craft :
           \/ msg \notin FramesOf(c) /\ latest'[c] = latest[c]
           \/ msg \in FramesOf(c) /\ msg = LatestMsg(c)'

LEMMA SentCurrent ==
  ASSUME LinkInv, ScreenInv, NEW msg \in Messages, Sends(msg), Newest(msg)
  PROVE  CurrentInv'
<1>1. /\ UNCHANGED <<swarm, relays, frames, health, history>>
      /\ Broadcast(msg)
  BY DEF Sends, board
<1>2. SUFFICES ASSUME NEW k \in Sock, socks[k].served PROVE CurrentBy(k)'
  BY <1>1, SentFacts DEF CurrentInv
<1> DEFINE q == socks[k].queue
           p == Append(q, msg)
<1>3. q \in Seq(Messages) /\ CurrentBy(k)
  BY <1>2, SockFacts DEF ScreenInv, CurrentInv
<1>4. socks'[k].queue = p /\ socks'[k].from = socks[k].from
  BY <1>1, <1>2, SentFacts
<1>5. GreetedBy(k)'
  <2>1. GreetedBy(k)
    BY <1>3 DEF CurrentBy
  <2>2. \A i \in DOMAIN q : i \in DOMAIN p /\ p[i] = q[i]
    BY <1>3
  <2> HIDE DEF p
  <2>3. QED
    BY <1>1, <1>4, <2>1, <2>2, Zenon DEF GreetedBy
<1>6. LinksBy(k)'
  <2> DEFINE X == RelayMsgs
  <2>1. CASE msg \notin X /\ UNCHANGED linked
    <3>1. LinksBy(k) /\ LinksMsg' = LinksMsg
      BY <1>3, <2>1 DEF CurrentBy, LinksMsg
    <3>2. LinksMsg \in X
      BY DEF LinksMsg, RelayMsgs, Messages, ScreenInv, Numbered
    <3> HIDE DEF X, p
    <3>3. /\ Ends(q, X, LinksMsg) => Ends(p, X, LinksMsg)
          /\ Without(q, X) => Without(p, X)
      BY <1>3, <2>1, <3>2, EndsFacts DEF p
    <3>4. QED
      BY <1>1, <1>4, <2>1, <3>1, <3>3 DEF LinksBy, X
  <2>2. CASE msg \in X /\ msg = LinksMsg'
    <3> HIDE DEF X, p
    <3>1. Ends(p, X, msg)
      BY <1>3, <2>2, EndsFacts DEF p
    <3>2. QED
      BY <1>4, <2>2, <3>1 DEF LinksBy, X
  <2>3. QED
    BY <2>1, <2>2 DEF Newest
<1>7. ASSUME NEW c \in Craft PROVE FrameBy(k, c)'
  <2> DEFINE X == FramesOf(c)
  <2>1. CASE msg \notin X /\ latest'[c] = latest[c]
    <3>1. FrameBy(k, c)
      BY <1>3 DEF CurrentBy
    <3>2. LatestMsg(c)' = LatestMsg(c) /\ (OnScreen(c)' <=> OnScreen(c))
      BY <1>1, <2>1 DEF LatestMsg, OnScreen, HealthScore
    <3>3. latest[c] # NoFrame => LatestMsg(c) \in X
      <4>1. latest \in [Craft -> Frames \cup {NoFrame}]
        BY DEF LinkInv, LinkTypes
      <4>2. QED
        BY <4>1 DEF LatestMsg, FramesOf, Messages
    <3> HIDE DEF X, p
    <3>4. latest[c] # NoFrame =>
             /\ Ends(q, X, LatestMsg(c)) => Ends(p, X, LatestMsg(c))
             /\ Without(q, X) => Without(p, X)
      BY <1>3, <2>1, <3>3, EndsFacts DEF p
    <3>5. QED
      BY <1>4, <2>1, <3>1, <3>2, <3>4 DEF FrameBy, X
  <2>2. CASE msg \in X /\ msg = LatestMsg(c)'
    <3> HIDE DEF X, p
    <3>1. Ends(p, X, msg)
      BY <1>3, <2>2, EndsFacts DEF p
    <3>2. QED
      BY <1>4, <2>2, <3>1 DEF FrameBy, X
  <2>3. QED
    BY <2>1, <2>2 DEF Newest
<1>8. QED
  BY <1>5, <1>6, <1>7 DEF CurrentBy

\* A frame becomes the latest of its craft as it is sent.
LEMMA FrameScreen ==
  ASSUME LinkInv, BoardInv, ScreenInv, NEW c \in Craft, BroadcastFrame(c)
  PROVE  ScreenInv'
<1>1. PICK s \in Shapes :
         LET f == [mode |-> s.mode, faults |-> s.faults, strain |-> s.strain, sn |-> sn]
         IN  /\ latest' = [latest EXCEPT ![c] = f]
             /\ Broadcast([type |-> "frame", craft |-> c, frame |-> f,
                           health |-> HealthScore(f)])
  BY DEF BroadcastFrame
<1> DEFINE f == [mode |-> s.mode, faults |-> s.faults, strain |-> s.strain, sn |-> sn]
           msg == [type |-> "frame", craft |-> c, frame |-> f, health |-> HealthScore(f)]
<1>2. sn \in 1..MaxSends /\ sn = framed + others + 1 /\ framed \in Nat /\ others \in Nat
  BY LiveAssumption DEF LinkInv, LinkTypes, BroadcastFrame, sn
<1>3. f \in Frames /\ f.sn = sn
  BY <1>2 DEF Frames
<1>4. latest' = [latest EXCEPT ![c] = f] /\ Broadcast(msg)
  BY <1>1
<1> HIDE DEF f
<1>5. msg \in Messages /\ msg.type = "frame" /\ msg.craft = c /\ msg.frame = f
  BY <1>3 DEF Messages
<1>6. latest \in [Craft -> Frames \cup {NoFrame}]
  BY DEF LinkInv, LinkTypes
<1>7. latest'[c] = f /\ \A d \in Craft : d # c => latest'[d] = latest[d]
  BY <1>4, <1>6
<1>8. /\ UNCHANGED <<swarm, crafts, frames, health, history, logs, anomalies, relays>>
      /\ UNCHANGED <<lastMode, lastFaults, linked, others>> /\ framed' = framed + 1
  BY DEF BroadcastFrame, board, pills
<1>9. LatestMsg(c)' = msg
  BY <1>7 DEF LatestMsg, HealthScore
<1> HIDE DEF msg
<1>10. Sends(msg)
  <2>1. Stamp(msg) = framed + others + 1
    BY <1>2, <1>3, <1>5 DEF Stamp
  <2>2. framed' + others' = framed + others + 1
    BY <1>2, <1>8
  <2>3. QED
    BY <1>4, <1>8, <2>1, <2>2 DEF Sends, board
<1>11. Newest(msg)
  <2>1. msg \notin RelayMsgs
    BY <1>5 DEF RelayMsgs
  <2>2. \A d \in Craft : d # c => msg \notin FramesOf(d)
    BY <1>5 DEF FramesOf
  <2>3. msg \in FramesOf(c)
    BY <1>5 DEF FramesOf
  <2>4. QED
    BY <1>7, <1>8, <1>9, <2>1, <2>2, <2>3 DEF Newest
<1>12. OrderInv' /\ CurrentInv'
  BY <1>5, <1>10, <1>11, SentOrder, SentCurrent
<1>13. ShownTypes'
  BY <1>8 DEF ScreenInv, ShownTypes
<1>14. Numbered'
  <2>1. framed' + others' = framed + others + 1
    BY <1>2, <1>8
  <2>2. linked'.links \in Links /\ linked'.sn \in 0..framed' + others'
    BY <1>2, <1>8, <2>1 DEF ScreenInv, Numbered
  <2>3. ASSUME NEW d \in Craft, latest'[d] # NoFrame PROVE latest'[d].sn \in 0..framed' + others'
    <3>1. CASE d = c
      BY <1>2, <1>3, <1>7, <2>1, <3>1
    <3>2. CASE d # c
      <4>1. latest[d].sn \in 0..framed + others
        BY <1>7, <2>3, <3>2 DEF ScreenInv, Numbered
      <4>2. QED
        BY <1>2, <1>7, <2>1, <3>2, <4>1
    <3>3. QED
      BY <3>1, <3>2
  <2>4. QED
    BY <2>2, <2>3 DEF Numbered
<1>15. QED
  BY <1>12, <1>13, <1>14 DEF ScreenInv

\* Of the other broadcasts only that of the relay links has to be the last of its kind.
LEMMA OtherScreen ==
  ASSUME LinkInv, BoardInv, ScreenInv, BroadcastOther
  PROVE  ScreenInv'
<1>1. /\ UNCHANGED <<swarm, crafts, frames, health, history, logs, anomalies, relays>>
      /\ UNCHANGED <<lastMode, lastFaults, latest, framed>> /\ others' = others + 1
  BY DEF BroadcastOther, board, pills
<1>2. /\ framed \in Nat /\ others \in Nat /\ sn = framed + others + 1
      /\ framed' + others' = sn /\ sn \in Nat /\ Statuses \in [Craft -> Nat]
  BY <1>1, StatusType DEF LinkInv, LinkTypes, sn
<1>3. \E msg \in Messages :
         /\ Broadcast(msg)
         /\ Stamped(msg) => Stamp(msg) = sn
         /\ msg.type # "frame"
         /\ \/ msg \notin RelayMsgs /\ UNCHANGED linked
            \/ msg \in RelayMsgs /\ msg = LinksMsg' /\ linked'.links \in Links /\ linked'.sn = sn
  <2>1. CASE \E type \in {"log", "anomaly"} :
                Broadcast([type |-> type, sn |-> sn]) /\ UNCHANGED linked
    <3>1. PICK type \in {"log", "anomaly"} :
             Broadcast([type |-> type, sn |-> sn]) /\ UNCHANGED linked
      BY <2>1
    <3> DEFINE msg == [type |-> type, sn |-> sn]
    <3>2. msg \in Messages /\ msg.type = type /\ msg.sn = sn
      BY <1>2 DEF Messages
    <3>3. Broadcast(msg) /\ UNCHANGED linked
      BY <3>1
    <3> HIDE DEF msg
    <3>4. msg \notin RelayMsgs /\ Stamp(msg) = sn /\ msg.type # "frame"
      BY <3>2 DEF RelayMsgs, Stamp
    <3>5. QED
      BY <3>2, <3>3, <3>4
  <2>2. CASE \E links \in Links \ {linked.links} :
                /\ linked' = [links |-> links, sn |-> sn]
                /\ Broadcast([type |-> "relay", links |-> links])
    <3>1. PICK links \in Links :
             /\ linked' = [links |-> links, sn |-> sn]
             /\ Broadcast([type |-> "relay", links |-> links])
      BY <2>2
    <3> DEFINE msg == [type |-> "relay", links |-> links]
    <3>2. msg \in Messages /\ msg.type = "relay"
      BY DEF Messages
    <3>3. Broadcast(msg) /\ msg = LinksMsg' /\ linked'.links \in Links /\ linked'.sn = sn
      BY <3>1 DEF LinksMsg
    <3> HIDE DEF msg
    <3>4. msg \in RelayMsgs /\ ~Stamped(msg)
      BY <3>2 DEF RelayMsgs, Stamped
    <3>5. QED
      BY <3>2, <3>3, <3>4
  <2>3. CASE Broadcast([type |-> "craft", crafts |-> Statuses]) /\ UNCHANGED linked
    <3> DEFINE msg == [type |-> "craft", crafts |-> Statuses]
    <3>1. msg \in Messages /\ msg.type = "craft"
      BY <1>2 DEF Messages
    <3>2. Broadcast(msg) /\ UNCHANGED linked
      BY <2>3
    <3> HIDE DEF msg
    <3>3. msg \notin RelayMsgs /\ ~Stamped(msg) /\ msg.type # "frame"
      BY <3>1 DEF RelayMsgs, Stamped
    <3>4. QED
      BY <3>1, <3>2, <3>3
  <2>4. QED
    BY <2>1, <2>2, <2>3 DEF BroadcastOther
<1>4. PICK msg \in Messages :
         /\ Broadcast(msg)
         /\ Stamped(msg) => Stamp(msg) = sn
         /\ msg.type # "frame"
         /\ \/ msg \notin RelayMsgs /\ UNCHANGED linked
            \/ msg \in RelayMsgs /\ msg = LinksMsg' /\ linked'.links \in Links /\ linked'.sn = sn
  BY <1>3
<1>5. Sends(msg)
  BY <1>1, <1>2, <1>4 DEF Sends, board
<1>6. Newest(msg)
  <2>1. \A c \in Craft : msg \notin FramesOf(c) /\ latest'[c] = latest[c]
    BY <1>1, <1>4 DEF FramesOf
  <2>2. QED
    BY <1>4, <2>1 DEF Newest
<1>7. OrderInv' /\ CurrentInv'
  BY <1>5, <1>6, SentOrder, SentCurrent
<1>8. ShownTypes'
  BY <1>1 DEF ScreenInv, ShownTypes
<1>9. Numbered'
  <2>1. linked'.links \in Links /\ linked'.sn \in 0..sn
    BY <1>2, <1>4 DEF ScreenInv, Numbered
  <2>2. \A c \in Craft : latest'[c] # NoFrame => latest'[c].sn \in 0..sn
    BY <1>1, <1>2 DEF ScreenInv, Numbered
  <2>3. QED
    BY <1>2, <2>1, <2>2 DEF Numbered
<1>10. QED
  BY <1>7, <1>8, <1>9 DEF ScreenInv

\* What a message does to the screen.
Effect(m) ==
    /\ swarm' = IF m.type = "hello" THEN Craft ELSE swarm
    /\ relays' = IF m \in RelayMsgs THEN m.links ELSE relays
    /\ \A c \in Craft :
           IF m \in FramesOf(c)
           THEN /\ frames'[c] = m.frame
                /\ health'[c] = m.health
                /\ history'[c] = Window(history[c], m.frame)
           ELSE frames'[c] = frames[c] /\ health'[c] = health[c] /\ history'[c] = history[c]

LEMMA EffectFacts ==
  ASSUME BoardInv, ShownTypes, NEW m \in Messages, OnMessage(m)
  PROVE  Effect(m)
<1>1. ASSUME m.type # "frame", UNCHANGED <<frames, health, history>>,
             swarm' = IF m.type = "hello" THEN Craft ELSE swarm,
             relays' = IF m.type = "relay" THEN m.links ELSE relays
      PROVE  Effect(m)
  BY <1>1 DEF Effect, RelayMsgs, FramesOf
<1>2. CASE OnHello(m)
  BY <1>1, <1>2 DEF OnHello
<1>3. CASE OnCraft(m)
  BY <1>1, <1>3 DEF OnCraft
<1>4. CASE OnLog(m)
  BY <1>1, <1>4 DEF OnLog
<1>5. CASE OnAnomaly(m)
  BY <1>1, <1>5 DEF OnAnomaly
<1>6. CASE OnRelay(m)
  BY <1>1, <1>6 DEF OnRelay
<1>7. CASE OnFrame(m)
  <2>1. m.type = "frame" /\ UNCHANGED <<swarm, relays>>
    BY <1>7 DEF OnFrame
  <2>2. m.craft \in Craft
    BY <2>1 DEF Messages
  <2>3. /\ frames' = [frames EXCEPT ![m.craft] = m.frame]
        /\ health' = [health EXCEPT ![m.craft] = m.health]
        /\ history' = [history EXCEPT ![m.craft] = Window(@, m.frame)]
    BY <1>7 DEF OnFrame, Merged
  <2>4. DOMAIN frames = Craft /\ DOMAIN health = Craft /\ DOMAIN history = Craft
    BY DEF ShownTypes, BoardInv
  <2>5. m \notin RelayMsgs /\ \A c \in Craft : m \in FramesOf(c) <=> m.craft = c
    BY <2>1 DEF RelayMsgs, FramesOf
  <2>6. ASSUME NEW c \in Craft
        PROVE  IF m.craft = c
               THEN /\ frames'[c] = m.frame
                    /\ health'[c] = m.health
                    /\ history'[c] = Window(history[c], m.frame)
               ELSE frames'[c] = frames[c] /\ health'[c] = health[c] /\ history'[c] = history[c]
    BY <2>3, <2>4, Zenon
  <2>7. QED
    BY <2>1, <2>5, <2>6 DEF Effect
<1>8. QED
  BY <1>2, <1>3, <1>4, <1>5, <1>6, <1>7 DEF OnMessage

\* The types of what is shown, and of what the pills remember.
LEMMA ShownStep ==
  ASSUME PillInv, ShownTypes, NEW m \in Messages, OnMessage(m)
  PROVE  ShownTypes'
<1>1. ASSUME UNCHANGED <<frames, health, lastMode, lastFaults>>, swarm' \in {{}, Craft}
      PROVE  ShownTypes'
  BY <1>1 DEF ShownTypes
<1>2. swarm \in {{}, Craft}
  BY DEF ShownTypes
<1>3. CASE OnHello(m)
  BY <1>1, <1>3 DEF OnHello, pills
<1>4. CASE OnCraft(m) \/ OnLog(m) \/ OnAnomaly(m) \/ OnRelay(m)
  BY <1>1, <1>2, <1>4 DEF OnCraft, OnLog, OnAnomaly, OnRelay, pills
<1>5. CASE OnFrame(m)
  <2> DEFINE c == m.craft
             f == m.frame
  <2>1. m.type = "frame" /\ UNCHANGED swarm
    BY <1>5 DEF OnFrame
  <2>2. c \in Craft /\ f \in Frames /\ m.health = HealthScore(f)
    BY <2>1 DEF Messages
  <2>3. /\ frames' = [frames EXCEPT ![c] = f]
        /\ health' = [health EXCEPT ![c] = m.health]
        /\ lastMode' = [lastMode EXCEPT ![c] = f.mode]
        /\ lastFaults' = [lastFaults EXCEPT ![c] = f.faults]
    BY <1>5 DEF OnFrame, Merged, DetectNotifications
  <2> HIDE DEF c, f
  <2>4. f.mode # Unseen /\ f # NoFrame
    BY <2>2, LiveAssumption DEF Frames
  <2>5. /\ frames \in [Craft -> Frames \cup {NoFrame}] /\ health \in [Craft -> 0..100]
        /\ DOMAIN lastMode = Craft /\ DOMAIN lastFaults = Craft
    BY DEF ShownTypes, PillInv, PillTypes
  <2>6. frames' \in [Craft -> Frames \cup {NoFrame}] /\ health' \in [Craft -> 0..100]
    BY <2>2, <2>3, <2>5, HealthRange
  <2>7. ASSUME NEW d \in Craft
        PROVE  /\ lastMode'[d] = Unseen <=> frames'[d] = NoFrame
               /\ lastFaults'[d] = FaultsOf(frames'[d], NoFrame)
    <3>1. CASE d = c
      <4>1. frames'[d] = f /\ lastMode'[d] = f.mode /\ lastFaults'[d] = f.faults
        BY <2>3, <2>5, <3>1
      <4>2. QED
        BY <2>4, <4>1 DEF FaultsOf
    <3>2. CASE d # c
      <4>1. frames'[d] = frames[d] /\ lastMode'[d] = lastMode[d] /\ lastFaults'[d] = lastFaults[d]
        BY <2>3, <2>5, <3>2
      <4>2. /\ lastMode[d] = Unseen <=> frames[d] = NoFrame
            /\ lastFaults[d] = FaultsOf(frames[d], NoFrame)
        BY DEF ShownTypes
      <4>3. QED
        BY <4>1, <4>2
    <3>3. QED
      BY <3>1, <3>2
  <2>8. QED
    BY <1>2, <2>1, <2>6, <2>7 DEF ShownTypes
<1>6. QED
  BY <1>3, <1>4, <1>5 DEF OnMessage

\* A message that is newer than all that is shown keeps the order.
LEMMA OrderStep ==
  ASSUME BoardInv, InOrder, NEW m \in Messages, OnMessage(m),
         Stamped(m) => Before(history, logs, anomalies, Stamp(m))
  PROVE  InOrder' /\ Shows(m, history, logs, anomalies, history', logs', anomalies')
<1>1. CASE UNCHANGED <<history, logs, anomalies>>
  BY <1>1 DEF InOrder, Shows
<1>2. \A x, y, n \in Nat : x <= y /\ y < n => x < n
  OBVIOUS
<1>3. CASE OnLog(m)
  <2> DEFINE x == m.sn
  <2>1. m.type = "log" /\ logs' = Ring(x, logs) /\ UNCHANGED <<history, anomalies>>
    BY <1>3 DEF OnLog
  <2>2. x \in Nat /\ Stamp(m) = x /\ Stamped(m)
    BY <2>1 DEF Messages, Stamp, Stamped
  <2> HIDE DEF x
  <2>3. \A i \in DOMAIN logs : logs[i] < x
    BY <2>2 DEF Before
  <2>4. /\ \A i, j \in DOMAIN Ring(x, logs) : i < j => Ring(x, logs)[i] > Ring(x, logs)[j]
        /\ \A i \in DOMAIN Ring(x, logs) : Ring(x, logs)[i] <= x
    BY <2>2, <2>3, RingOrder DEF BoardInv, InOrder
  <2>5. InOrder'
    BY <2>1, <2>4 DEF InOrder
  <2>6. Ring(x, logs) \in Seq(Nat)
    BY <2>2, RingFacts DEF BoardInv
  <2>7. \A i \in DOMAIN Ring(x, logs) : Ring(x, logs)[i] \in Nat
    BY <2>6
  <2>8. Shows(m, history, logs, anomalies, history', logs', anomalies')
    BY <1>2, <2>1, <2>2, <2>4, <2>7, Zenon DEF Shows, Before
  <2>9. QED
    BY <2>5, <2>8
<1>4. CASE OnAnomaly(m)
  <2> DEFINE x == m.sn
  <2>1. m.type = "anomaly" /\ anomalies' = Ring(x, anomalies) /\ UNCHANGED <<history, logs>>
    BY <1>4 DEF OnAnomaly
  <2>2. x \in Nat /\ Stamp(m) = x /\ Stamped(m)
    BY <2>1 DEF Messages, Stamp, Stamped
  <2> HIDE DEF x
  <2>3. \A i \in DOMAIN anomalies : anomalies[i] < x
    BY <2>2 DEF Before
  <2>4. /\ \A i, j \in DOMAIN Ring(x, anomalies) :
               i < j => Ring(x, anomalies)[i] > Ring(x, anomalies)[j]
        /\ \A i \in DOMAIN Ring(x, anomalies) : Ring(x, anomalies)[i] <= x
    BY <2>2, <2>3, RingOrder DEF BoardInv, InOrder
  <2>5. InOrder'
    BY <2>1, <2>4 DEF InOrder
  <2>6. Ring(x, anomalies) \in Seq(Nat)
    BY <2>2, RingFacts DEF BoardInv
  <2>7. \A i \in DOMAIN Ring(x, anomalies) : Ring(x, anomalies)[i] \in Nat
    BY <2>6
  <2>8. Shows(m, history, logs, anomalies, history', logs', anomalies')
    BY <1>2, <2>1, <2>2, <2>4, <2>7, Zenon DEF Shows, Before
  <2>9. QED
    BY <2>5, <2>8
<1>5. CASE OnFrame(m)
  <2> DEFINE c == m.craft
             f == m.frame
             w == Window(history[c], f)
  <2>1. /\ m.type = "frame" /\ UNCHANGED <<logs, anomalies>>
        /\ history' = [history EXCEPT ![c] = w]
    BY <1>5, Zenon DEF OnFrame
  <2>2. c \in Craft /\ f \in Frames /\ Stamp(m) = f.sn /\ Stamped(m)
    BY <2>1 DEF Messages, Stamp, Stamped
  <2> HIDE DEF c, f
  <2>3. \A g \in Frames : g.sn \in Nat
    BY LiveAssumption DEF Frames
  <2>4. history \in [Craft -> Seq(Frames)] /\ history[c] \in Seq(Frames) /\ Len(history[c]) <= MAX_HISTORY
    BY <2>2 DEF BoardInv
  <2>5. \A i \in DOMAIN history[c] : history[c][i].sn < f.sn
    BY <2>2, Zenon DEF Before
  <2>6. \A i, j \in DOMAIN history[c] : i < j => history[c][i].sn < history[c][j].sn
    BY <2>2, Zenon DEF InOrder
  <2>7. /\ \A i, j \in DOMAIN w : i < j => w[i].sn < w[j].sn
        /\ \A i \in DOMAIN w : w[i].sn <= f.sn
        /\ w \in Seq(Frames)
    BY <2>2, <2>4, <2>5, <2>6, WindowOrder, WindowFacts
  <2>8. \A i \in DOMAIN w : w[i].sn \in Nat
    <3> HIDE DEF w
    <3>1. \A i \in DOMAIN w : w[i] \in Frames
      BY <2>7
    <3>2. QED
      BY <2>3, <3>1
  <2> HIDE DEF w
  <2>9. \A d \in Craft : history'[d] = IF d = c THEN w ELSE history[d]
    BY <2>1, <2>4
  <2>10. InOrder'
    <3>1. ASSUME NEW d \in Craft
          PROVE  \A i, j \in DOMAIN history'[d] : i < j => history'[d][i].sn < history'[d][j].sn
      BY <2>7, <2>9 DEF InOrder
    <3>2. QED
      BY <2>1, <3>1 DEF InOrder
  <2>11. ASSUME NEW n \in Nat, Before(history, logs, anomalies, n), f.sn < n
         PROVE  Before(history', logs', anomalies', n)
    <3>1. \A i \in DOMAIN w : w[i].sn < n
      BY <1>2, <2>2, <2>3, <2>7, <2>8, <2>11, Zenon
    <3>2. ASSUME NEW d \in Craft
          PROVE  \A i \in DOMAIN history'[d] : history'[d][i].sn < n
      BY <2>9, <2>11, <3>1 DEF Before
    <3>3. QED
      BY <2>1, <2>11, <3>2 DEF Before
  <2>12. Shows(m, history, logs, anomalies, history', logs', anomalies')
    BY <2>2, <2>11 DEF Shows
  <2>13. QED
    BY <2>10, <2>12
<1>6. QED
  BY <1>1, <1>3, <1>4, <1>5 DEF OnMessage, OnHello, OnCraft, OnRelay

\* The screen catches up by the message that is handled.
LEMMA ReceiveScreen ==
  ASSUME LinkInv, PillInv, BoardInv, ScreenInv, NEW k \in Sock, Receive(k)
  PROVE  ScreenInv'
<1> DEFINE q == socks[k].queue
           t == Tail(q)
           m == Head(q)
           s == [socks[k] EXCEPT !.queue = Tail(@)]
           high == framed + others
<1>1. socks[k] \in Sockets /\ q \in Seq(Messages) /\ q # <<>>
  BY SockFacts DEF Receive
<1>2. m \in Messages /\ t \in Seq(Messages)
  BY <1>1
<1>3. s \in Sockets /\ socks' = [socks EXCEPT ![k] = s]
  BY <1>1, <1>2 DEF Receive, Sockets
<1>4. s.queue = t /\ s.from = socks[k].from /\ s.served = socks[k].served /\ s.state = socks[k].state
  BY <1>1 DEF Sockets
<1> HIDE DEF s
<1>5. /\ Sock' = Sock
      /\ socks'[k].queue = t /\ socks'[k].from = socks[k].from
      /\ socks'[k].served = socks[k].served /\ socks'[k].state = socks[k].state
      /\ \A j \in Sock : j # k => socks'[j] = socks[j]
  BY <1>3, <1>4, ChangeOne DEF LinkInv
<1>6. \A j \in Sock : j # k => ~Lives(j) /\ ~socks[j].served
  BY DEF Receive, LinkInv, OneLink, Lives
<1>7. OnMessage(m) /\ UNCHANGED <<latest, linked, framed, others>>
  BY DEF Receive, server
<1>8. high \in Nat
  BY DEF LinkInv, LinkTypes
<1>9. Waits(q, high, history, logs, anomalies) /\ InOrder
      /\ Before(history, logs, anomalies, high + 1)
  BY DEF ScreenInv, OrderInv, UnderWay
<1>10. 1 \in DOMAIN q /\ q[1] = m
  BY <1>1
<1>11. Stamped(m) => Before(history, logs, anomalies, Stamp(m)) /\ Stamp(m) \in 0..high
  BY <1>9, <1>10, Zenon DEF Waits, Between
<1>12. Effect(m) /\ ShownTypes'
  BY <1>2, <1>7, EffectFacts, ShownStep DEF ScreenInv
<1>13. InOrder' /\ Shows(m, history, logs, anomalies, history', logs', anomalies')
  BY <1>2, <1>7, <1>9, <1>11, OrderStep
<1>14. Numbered'
  BY <1>7 DEF ScreenInv, Numbered
<1>15. Before(history', logs', anomalies', framed' + others' + 1)
  <2>1. Stamped(m) => Stamp(m) < high + 1
    BY <1>8, <1>11
  <2>2. high + 1 \in Nat
    BY <1>8
  <2>3. Before(history', logs', anomalies', high + 1)
    BY <1>9, <1>13, <2>1, <2>2, Zenon DEF Shows
  <2>4. QED
    BY <1>7, <2>3
<1>16. ASSUME NEW j \in Sock PROVE UnderWay(j)'
  <2>1. CASE j = k
    <3>1. Waits(t, high, history', logs', anomalies')
      BY <1>1, <1>9, <1>13, WaitsTail
    <3>2. Lives(k)'
      BY <1>5 DEF Receive, Lives
    <3>3. QED
      BY <1>5, <1>7, <2>1, <3>1, <3>2 DEF UnderWay
  <2>2. CASE j # k
    <3>1. socks'[j] = socks[j] /\ socks[j].queue = <<>>
      BY <1>5, <1>6, <2>2 DEF ScreenInv, OrderInv, UnderWay
    <3>2. socks'[j].queue = <<>> /\ DOMAIN <<>> = {}
      BY <3>1
    <3>3. Waits(<<>>, framed' + others', history', logs', anomalies')
      BY <3>2, Zenon DEF Waits, Ascending, Between
    <3>4. QED
      BY <3>2, <3>3 DEF UnderWay
  <2>3. QED
    BY <2>1, <2>2
<1>17. ASSUME socks[k].served PROVE CurrentBy(k)'
  <2>1. CurrentBy(k)
    BY <1>17 DEF ScreenInv, CurrentInv
  <2>2. GreetedBy(k)'
    <3>1. CASE swarm = Craft
      BY <1>12, <3>1 DEF Effect, GreetedBy
    <3>2. CASE \E i \in DOMAIN q : q[i].type = "hello"
      <4>1. PICK i \in DOMAIN q : q[i].type = "hello"
        BY <3>2
      <4>2. CASE i = 1
        BY <1>10, <1>12, <4>1, <4>2 DEF Effect, GreetedBy
      <4>3. CASE i # 1
        <5>1. i - 1 \in DOMAIN t /\ t[i - 1] = q[i]
          BY <1>1, <4>1, <4>3
        <5>2. QED
          BY <1>5, <4>1, <5>1, Zenon DEF GreetedBy
      <4>4. QED
        BY <4>2, <4>3
    <3>3. QED
      BY <2>1, <3>1, <3>2 DEF CurrentBy, GreetedBy
  <2>3. LinksBy(k)'
    <3>1. LinksBy(k)
      BY <2>1 DEF CurrentBy
    <3>2. LinksMsg \in RelayMsgs /\ LinksMsg.links = linked.links
      BY DEF LinksMsg, RelayMsgs, Messages, ScreenInv, Numbered
    <3> HIDE DEF q, t, m
    <3>3. /\ Ends(q, RelayMsgs, LinksMsg) =>
                 \/ Ends(t, RelayMsgs, LinksMsg)
                 \/ m = LinksMsg /\ Without(t, RelayMsgs)
          /\ Without(q, RelayMsgs) => Without(t, RelayMsgs) /\ m \notin RelayMsgs
      BY <1>1, <3>2, EndsFacts DEF t, m
    <3>4. relays' = IF m \in RelayMsgs THEN m.links ELSE relays
      BY <1>12 DEF Effect
    <3>5. linked' = linked /\ LinksMsg' = LinksMsg
      BY <1>7 DEF LinksMsg
    <3>6. QED
      BY <1>5, <3>1, <3>2, <3>3, <3>4, <3>5 DEF LinksBy, q
  <2>4. ASSUME NEW c \in Craft PROVE FrameBy(k, c)'
    <3> DEFINE X == FramesOf(c)
               n == LatestMsg(c)
    <3>1. FrameBy(k, c)
      BY <2>1 DEF CurrentBy
    <3>2. SUFFICES ASSUME latest[c] # NoFrame, latest[c].sn > socks[k].from
                   PROVE  Ends(t, X, n) \/ (Without(t, X) /\ OnScreen(c)')
      <4>1. LatestMsg(c)' = LatestMsg(c)
        BY <1>7 DEF LatestMsg, HealthScore
      <4> HIDE DEF t
      <4>2. QED
        BY <1>5, <1>7, <4>1 DEF FrameBy
    <3>3. latest'[c] = latest[c]
      BY <1>7
    <3>4. latest[c] \in Frames
      BY <3>2 DEF LinkInv, LinkTypes
    <3>5. n \in X /\ n.frame = latest[c] /\ n.health = HealthScore(latest[c])
      BY <3>4 DEF LatestMsg, FramesOf, Messages
    <3> HIDE DEF q, t, m, n, X
    <3>6. /\ Ends(q, X, n) => Ends(t, X, n) \/ (m = n /\ Without(t, X))
          /\ Without(q, X) => Without(t, X) /\ m \notin X
      BY <1>1, <3>5, EndsFacts DEF t, m
    <3>7. m = n => OnScreen(c)'
      <4>1. ASSUME m = n
            PROVE  /\ frames'[c] = latest[c] /\ health'[c] = HealthScore(latest[c])
                   /\ history'[c] = Window(history[c], latest[c])
        BY <1>12, <3>5, <4>1 DEF Effect, X
      <4>2. history[c] \in Seq(Frames) /\ Len(history[c]) <= MAX_HISTORY
        BY DEF BoardInv
      <4>3. \A i, j \in DOMAIN history[c] : i < j => history[c][i].sn < history[c][j].sn
        BY <1>9, Zenon DEF InOrder
      <4>4. ASSUME m = n PROVE \A i \in DOMAIN history[c] : history[c][i].sn < latest[c].sn
        <5>1. m.type = "frame"
          BY <3>5, <4>4 DEF X, FramesOf
        <5>2. Stamped(m) /\ Stamp(m) = latest[c].sn
          BY <3>5, <4>4, <5>1 DEF Stamped, Stamp
        <5>3. QED
          BY <1>11, <5>2, Zenon DEF Before
      <4> DEFINE w == Window(history[c], latest[c])
      <4>5. m = n => w # <<>> /\ w[Len(w)] = latest[c]
        BY <3>4, <4>2, <4>3, <4>4, WindowOrder
      <4> HIDE DEF w
      <4>6. HealthScore(latest[c])' = HealthScore(latest[c])
        BY <1>7 DEF HealthScore
      <4>7. QED
        BY <3>3, <4>1, <4>5, <4>6 DEF OnScreen, w
    <3>8. m \notin X /\ OnScreen(c) => OnScreen(c)'
      BY <1>7, <1>12 DEF Effect, X, OnScreen, HealthScore
    <3>9. QED
      BY <3>1, <3>2, <3>6, <3>7, <3>8 DEF FrameBy, q, X, n
  <2>5. QED
    BY <2>2, <2>3, <2>4 DEF CurrentBy
<1>18. CurrentInv'
  <2>1. ASSUME NEW j \in Sock', socks'[j].served PROVE CurrentBy(j)'
    <3>1. j = k /\ socks[k].served
      BY <1>5, <1>6, <2>1
    <3>2. QED
      BY <1>17, <3>1
  <2>2. QED
    BY <2>1 DEF CurrentInv
<1>19. QED
  BY <1>5, <1>12, <1>13, <1>14, <1>15, <1>16, <1>18 DEF ScreenInv, OrderInv

LEMMA ScreenStep ==
  ASSUME LinkInv, PillInv, BoardInv, ScreenInv, [Next]_vars
  PROVE  ScreenInv'
<1>1. ASSUME NEW c \in Craft, BroadcastFrame(c) PROVE ScreenInv'
  BY <1>1, FrameScreen
<1>2. CASE BroadcastOther
  BY <1>2, OtherScreen
<1>3. ASSUME NEW k \in Sock, SockStep(k) PROVE ScreenInv'
  <2>1. CASE Accept(k)
    BY <2>1, AcceptScreen
  <2>2. CASE Receive(k)
    BY <2>2, ReceiveScreen
  <2>3. CASE Open(k) \/ OnClose(k) \/ Cut(k) \/ Refuse(k)
    BY <2>3, QuietActions, QuietStep
  <2>4. QED
    BY <1>3, <2>1, <2>2, <2>3 DEF SockStep
<1>4. CASE Mount \/ Reconnect \/ ClosePill \/ (\E id \in expiring : Gone(id)) \/ UNCHANGED vars
  BY <1>4, QuietActions, QuietStep
<1>5. QED
  BY <1>1, <1>2, <1>3, <1>4 DEF Next

\* All places that tell of a craft in trouble look at the same mode.
LEMMA AlarmsAgree ==
  ASSUME NEW c \in Craft, swarm = Craft, frames[c] \in Frames
  PROVE  \A i \in DOMAIN AlarmsOf(c) :
             AlarmsOf(c)[i] <=> frames[c].mode \in {"EMERGENCY", "SAFE"}
<1> DEFINE mode == frames[c].mode
           bad  == mode \in {"EMERGENCY", "SAFE"}
<1>1. frames[c] # NoFrame
  BY LiveAssumption DEF Frames
<1>2. ModeOf(frames[c], NoFrame) = mode
  BY <1>1 DEF ModeOf
<1>3. (c \in Alerts(swarm, frames, NoFrame)) = bad
  BY <1>1 DEF Alerts
<1>4. Halo(frames[c], NoFrame) = bad
  BY <1>1 DEF Halo
<1> HIDE DEF mode
<1>5. (ModeWords(mode).tone = "crit") = bad
  BY DEF ModeWords
<1>6. (LedColor(mode) \in {"crit", "orange"}) = bad
  BY DEF LedColor
<1>7. (MapColor(mode) \in {"crit", "orange"}) = bad
  BY DEF MapColor
<1>8. (MonitorTab(mode) = "crit") = bad
  BY DEF MonitorTab
<1>9. (RecorderTab(mode) = "crit") = bad
  BY DEF RecorderTab
<1> HIDE DEF bad
<1>10. AlarmsOf(c) = <<bad, bad, bad, bad, bad, bad, bad>>
  BY <1>2, <1>3, <1>4, <1>5, <1>6, <1>7, <1>8, <1>9, Zenon DEF AlarmsOf
<1>11. DOMAIN AlarmsOf(c) = 1..7 /\ \A i \in 1..7 : AlarmsOf(c)[i] = bad
  BY <1>10
<1>12. QED
  BY <1>11 DEF bad, mode

\* The mean of percentages is one.
LEMMA RoundedRange ==
  ASSUME NEW n \in Nat \ {0}, NEW total \in Nat, total <= 100 * n
  PROVE  Rounded(total, n) \in 0..100
<1> DEFINE a == 2 * total + n
           b == 2 * n
           d == a \div b
<1>1. a \in Nat /\ b \in Nat \ {0} /\ a < 101 * b
  OBVIOUS
<1> HIDE DEF a, b
<1>2. d \in Nat /\ b * d <= a
  BY <1>1
<1> HIDE DEF d
<1>3. ASSUME d >= 101 PROVE FALSE
  <2>1. b * d >= b * 101
    BY <1>1, <1>2, <1>3
  <2>2. QED
    BY <1>1, <1>2, <2>1
<1>4. QED
  BY <1>2, <1>3 DEF Rounded, a, b, d

\* The troubles counted for the fleet agree with the craft.
LEMMA FleetAgrees ==
  ASSUME ShownTypes, swarm = Craft
  PROVE  Summarized
<1> DEFINE kpis == FleetKpis(Craft, frames, health, NoFrame)
           bad == Alerts(Craft, frames, NoFrame)
           badge == [c \in Craft |-> FaultBadge(frames[c], NoFrame)]
<1>1. IsFiniteSet(Craft) /\ Cardinality(Craft) \in Nat
  BY LiveAssumption, FS_CardinalityType
<1>2. \A c \in Craft : frames[c] \in Frames \cup {NoFrame} /\ health[c] \in 0..100
  BY DEF ShownTypes
<1>3. kpis.inEmergency = Cardinality(bad)
  <2>1. \A c \in Craft :
           ModeOf(frames[c], NoFrame) \in {"EMERGENCY", "SAFE"} <=>
               frames[c] # NoFrame /\ frames[c].mode \in {"EMERGENCY", "SAFE"}
    BY DEF ModeOf
  <2>2. {c \in Craft : ModeOf(frames[c], NoFrame) \in {"EMERGENCY", "SAFE"}} = bad
    BY <2>1 DEF Alerts
  <2>3. kpis.inEmergency = Cardinality({c \in Craft : ModeOf(frames[c], NoFrame) \in {"EMERGENCY", "SAFE"}})
    BY Zenon DEF FleetKpis
  <2>4. QED
    BY <2>2, <2>3, Zenon
<1>4. Ribbon(Craft, frames, NoFrame) = "none" <=> kpis.inEmergency = 0
  <2>1. IsFiniteSet(bad)
    BY <1>1, FS_Subset DEF Alerts
  <2>2. Cardinality(bad) = 0 <=> bad = {}
    BY <2>1, FS_EmptySet
  <2>3. Ribbon(Craft, frames, NoFrame) = "none" <=> bad = {}
    BY DEF Ribbon
  <2> HIDE DEF kpis, bad
  <2>4. QED
    BY <1>3, <2>2, <2>3
<1>6. kpis.totalFaults = 0 <=> \A c \in Craft : lastFaults[c] = {}
  <2>1. kpis.totalFaults = SumOver(Craft, badge)
    BY Zenon DEF MapThenSumSet, MapThenFoldSet, IsSum, SumOver, FleetKpis
  <2>2. ASSUME NEW c \in Craft
        PROVE  badge[c] \in Nat /\ (badge[c] = 0 <=> lastFaults[c] = {})
    <3>1. badge[c] = Cardinality(lastFaults[c])
      BY DEF FaultBadge, ShownTypes
    <3>2. IsFiniteSet(lastFaults[c])
      <4>1. CASE frames[c] = NoFrame
        BY <4>1, FS_EmptySet DEF ShownTypes, FaultsOf
      <4>2. CASE frames[c] # NoFrame
        <5>1. frames[c] \in Frames /\ lastFaults[c] = frames[c].faults
          BY <1>2, <4>2 DEF ShownTypes, FaultsOf
        <5>2. QED
          BY <5>1, LiveAssumption DEF Frames
      <4>3. QED
        BY <4>1, <4>2
    <3>3. QED
      BY <3>1, <3>2, FS_CardinalityType, FS_EmptySet
  <2> HIDE DEF badge, kpis
  <2>3. SumOver(Craft, badge) = 0 <=> \A c \in Craft : badge[c] = 0
    <3>1. 0 \in Nat
      OBVIOUS
    <3>2. QED
      BY <1>1, <2>2, <3>1, SumFacts
  <2>4. QED
    BY <2>1, <2>2, <2>3
<1>7. kpis.avgHealth \in 0..100
  <2>1. kpis.avgHealth = IF Craft = {} THEN 0 ELSE Rounded(SumOver(Craft, health), Cardinality(Craft))
    BY Zenon DEF MapThenSumSet, MapThenFoldSet, IsSum, SumOver, FleetKpis
  <2> HIDE DEF kpis
  <2>2. CASE Craft = {}
    BY <2>1, <2>2
  <2>3. CASE Craft # {}
    <3>1. Cardinality(Craft) # 0
      BY <1>1, <2>3, FS_EmptySet
    <3>2. \A c \in Craft : health[c] \in Nat /\ health[c] <= 100
      BY <1>2
    <3>3. SumOver(Craft, health) \in Nat /\ SumOver(Craft, health) <= 100 * Cardinality(Craft)
      <4>1. 100 \in Nat
        OBVIOUS
      <4>2. QED
        BY <1>1, <3>2, <4>1, SumFacts
    <3>4. QED
      BY <1>1, <2>1, <2>3, <3>1, <3>3, RoundedRange
  <2>4. QED
    BY <2>2, <2>3
<1> HIDE DEF kpis, bad
<1>8. QED
  BY <1>3, <1>4, <1>6, <1>7 DEF Summarized, kpis, bad

\* The screen is true once nothing is under way.
LEMMA ScreenShows ==
  ASSUME LinkInv, ScreenInv
  PROVE  ScreenIsTrue
<1>1. SUFFICES ASSUME NEW k \in Sock, Synced(k)
               PROVE  /\ swarm = Craft
                      /\ Summarized
                      /\ linked.sn > socks[k].from => relays = linked.links
                      /\ \A c \in Craft : latest[c] # NoFrame /\ Statuses[c] > socks[k].from =>
                             /\ frames[c] = latest[c]
                             /\ health[c] = HealthScore(latest[c])
                             /\ history[c][Len(history[c])] = latest[c]
                             /\ FaultBadge(frames[c], NoFrame) = Cardinality(latest[c].faults)
                             /\ \A i \in DOMAIN AlarmsOf(c) :
                                    AlarmsOf(c)[i] <=> latest[c].mode \in {"EMERGENCY", "SAFE"}
  BY Zenon DEF ScreenIsTrue, ShownIsCurrent, ScreenInv, OrderInv
<1>2. CurrentBy(k) /\ socks[k].queue = <<>>
  BY <1>1 DEF Synced, ScreenInv, CurrentInv
<1>3. DOMAIN socks[k].queue = {}
  BY <1>2
<1>4. swarm = Craft
  BY <1>2, <1>3, Zenon DEF CurrentBy, GreetedBy
<1>5. Summarized
  BY <1>4, FleetAgrees DEF ScreenInv
<1>6. linked.sn > socks[k].from => relays = linked.links
  BY <1>2, <1>3, Zenon DEF CurrentBy, LinksBy, Ends
<1>7. ASSUME NEW c \in Craft, latest[c] # NoFrame, Statuses[c] > socks[k].from
      PROVE  /\ frames[c] = latest[c]
             /\ health[c] = HealthScore(latest[c])
             /\ history[c][Len(history[c])] = latest[c]
             /\ FaultBadge(frames[c], NoFrame) = Cardinality(latest[c].faults)
             /\ \A i \in DOMAIN AlarmsOf(c) :
                    AlarmsOf(c)[i] <=> latest[c].mode \in {"EMERGENCY", "SAFE"}
  <2>1. latest[c] \in Frames /\ latest[c].sn > socks[k].from
    BY <1>7 DEF LinkInv, LinkTypes, Statuses
  <2>2. OnScreen(c)
    BY <1>2, <1>3, <1>7, <2>1, Zenon DEF CurrentBy, FrameBy, Ends
  <2>3. frames[c] = latest[c]
    BY <2>2 DEF OnScreen
  <2>4. FaultBadge(frames[c], NoFrame) = Cardinality(latest[c].faults)
    BY <1>7, <2>3 DEF FaultBadge, FaultsOf
  <2>5. \A i \in DOMAIN AlarmsOf(c) :
            AlarmsOf(c)[i] <=> latest[c].mode \in {"EMERGENCY", "SAFE"}
    BY <1>4, <2>1, <2>3, AlarmsAgree
  <2>6. QED
    BY <2>2, <2>4, <2>5 DEF OnScreen
<1>8. QED
  BY <1>4, <1>5, <1>6, <1>7

\* The invariant of all parts.
LiveInv == LinkInv /\ Header /\ PillInv /\ BoardInv /\ ScreenInv

\* The invariant holds at first.
LEMMA InitLive == Init => LiveInv
<1> SUFFICES ASSUME Init PROVE LiveInv
  OBVIOUS
<1>1. LinkInv /\ PillInv
  BY InitLink, InitPills
<1>2. connected = FALSE /\ Sock = {}
  BY DEF Init, StoreInit, Sock
<1>3. Header
  BY <1>2, Zenon DEF Header, Showing
<1>4. BoardInv
  <2>1. logs = <<>> /\ anomalies = <<>> /\ history = [c \in Craft |-> <<>>]
    BY DEF Init, StoreInit
  <2>2. QED
    BY <2>1, LiveAssumption DEF BoardInv
<1>5. QED
  BY <1>1, <1>3, <1>4, InitScreen DEF LiveInv

\* Every step keeps the invariant.
LEMMA LiveStep == LiveInv /\ [Next]_vars => LiveInv'
  BY LinkStep, PillStep, BoardStep, ScreenStep DEF LiveInv

\* There is never a second connection, or a second timer, whatever is cut, refused or
\* opened again, and the header tells the truth; the lists of the store keep their
\* lengths; and every pill on the screen has the timer that takes it away.
THEOREM TypeCorrect == Spec => []TypeOK
<1>1. LiveInv => TypeOK
  <2> SUFFICES ASSUME LiveInv PROVE TypeOK
    OBVIOUS
  <2>1. OneConnection
    BY LinkIsOne DEF LiveInv
  <2>2. Types
    <3>1. /\ reconnectDelay \in 1000..6000 /\ Len(logs) <= MAX_RING /\ Len(anomalies) <= MAX_RING
          /\ \A c \in Craft : Len(history[c]) <= MAX_HISTORY
      BY DEF LiveInv, LinkInv, LinkTypes, BoardInv
    <3>2. /\ DOMAIN lastMode = Craft /\ DOMAIN lastFaults = Craft /\ DOMAIN troubleFaults = Craft
          /\ Len(toasts) <= MAX_TOASTS /\ toastSeq \in Nat \ {0}
          /\ expiring \subseteq 1..toastSeq - 1 /\ alarmed \in [Craft -> BOOLEAN]
      BY DEF LiveInv, PillInv, PillTypes
    <3>3. QED
      BY <3>1, <3>2 DEF Types
  <2>3. \A i \in DOMAIN toasts : toasts[i].id \in expiring
    BY DEF LiveInv, PillInv, Timed
  <2>4. QED
    BY <2>1, <2>2, <2>3 DEF TypeOK
<1>2. QED
  BY InitLive, LiveStep, <1>1, PTL DEF Spec

\* index.ts:136: once the messages of a socket are handled the pages show the last frame of
\* every craft that has sent one since the socket was accepted, and the last relay links,
\* and agree on who is in trouble; and nothing is ever shown twice or out of order, over any
\* number of connections that are cut at any message.
THEOREM ScreenHolds == Spec => []ScreenIsTrue
<1>1. LiveInv => ScreenIsTrue
  BY ScreenShows DEF LiveInv
<1>2. QED
  BY InitLive, LiveStep, <1>1, PTL DEF Spec

\* A "fixed" pill never comes out of the blue and forgets no fault, for any craft, any
\* frames, any number of pills shown and any broken connections.
THEOREM FixedIsToldHolds == Spec => FixedIsTold
<1> DEFINE TellsAll == \A c \in Craft :
        toastSeq' > toastSeq /\ toasts'[1].craft = c /\ toasts'[1].kind = "fixed" =>
            alarmed[c] /\ faulted[c] \subseteq toasts'[1].about
<1>1. LiveInv /\ [Next]_vars => TellsAll
  <2> SUFFICES ASSUME LiveInv, [Next]_vars PROVE TellsAll
    OBVIOUS
  <2>1. \A c \in Craft : Tells(c)
    BY PillStep DEF LiveInv
  <2>2. QED
    BY <2>1, Zenon DEF Tells
<1>2. LiveInv /\ [Next]_vars => [TellsAll]_vars
  BY <1>1
<1>3. FixedIsTold <=> [][TellsAll]_vars
  BY DEF FixedIsTold
<1>4. QED
  BY InitLive, LiveStep, <1>2, <1>3, PTL DEF Spec
================================================================================
