-------------------------- MODULE CommandProcessor --------------------------
(***************************************************************************)
(* The command path of one craft: CommandProcessor_Submit, called by        *)
(* TelemSrv and FaultInj, the message buffer xCommandBuffer, and CmdProc,    *)
(* which drains it (src/command_processor/command_processor.c).             *)
(*                                                                         *)
(* A FreeRTOS message buffer allows one writer.  A send reads the head,      *)
(* copies its bytes there and then publishes the new head; TelemSrv and      *)
(* FaultInj have the same priority, so a tick may stop one of them between.  *)
(* CmdProc has a higher priority: neither runs while CmdProc is ready.       *)
(***************************************************************************)
EXTENDS Integers, Sequences, FiniteSets

CONSTANTS
    Writers,     \* tasks that call CommandProcessor_Submit
    CmdTask,     \* the task CmdProc
    Room,        \* commands that fit in COMMAND_BUFFER_BYTES
    MaxCommands, \* bound: MaxCommands[w] commands of writer w
    Torn         \* the bytes of two commands mixed up, a command that nobody sent

ASSUME CommandAssumption ==
    /\ Room \in Nat \ {0}
    /\ MaxCommands \in [Writers -> Nat]
    /\ CmdTask \notin Writers
    /\ Torn \notin Writers \X Nat

VARIABLES
    store,       \* the bytes of xCommandBuffer, one entry for each command
    head, tail,  \* its xHead and xTail, never wrapped
    seen,        \* the head that a send under way has read
    wpc,         \* a writer: "idle", "send" (in xMessageBufferSend), "sent" (about to notify)
    submitted,   \* commands of each writer so far
    notified,    \* the notification value of CmdProc, CMD_NOTIFY_INDEX
    cpc,         \* CmdProc: "take", "receive", "log"
    asleep,      \* the tasks that are suspended (/api/suspend)
    rejected,    \* s_rejected
    accepted,    \* history: the commands that Submit put into the buffer
    executed,    \* history: the commands that CmdProc executed (s_accepted is their number)
    overlapped   \* history: two sends have been under way together

buffer   == <<store, head, tail>>
sending  == <<seen, wpc, submitted, rejected>>
receiver == <<notified, cpc, asleep>>
record   == <<accepted, executed, overlapped>>
command  == <<buffer, sending, receiver, record>>

CommandInit ==
    /\ store = [s \in 0..(Room - 1) |-> Torn]
    /\ head = 0
    /\ tail = 0
    /\ seen = [w \in Writers |-> 0]
    /\ wpc = [w \in Writers |-> "idle"]
    /\ submitted = [w \in Writers |-> 0]
    /\ notified = FALSE
    /\ cpc = "take"
    /\ asleep = {}
    /\ rejected = 0
    /\ accepted = <<>>
    /\ executed = <<>>
    /\ overlapped = FALSE

\* CmdProc can run: it has been notified, or there is something to receive.
CmdReady ==
    /\ CmdTask \notin asleep
    /\ \/ cpc = "take" /\ notified
       \/ cpc = "receive" /\ head # tail

-----------------------------------------------------------------------------
(* CommandProcessor_Submit *)

Sending == {w \in Writers : wpc[w] = "send"}

\* Variant of HasRoom: the space is not looked at.
HasRoomAlways == TRUE

HasRoom == head - tail < Room

\* Bound: a send is overtaken by one other send at most.
OvertakenOnce == \A w \in Sending : seen[w] = head

\* xMessageBufferSend without a timeout: a full buffer refuses the command, Submit
\* counts it as rejected and returns; its caller does not learn of it.
SubmitBegin(w) ==
    /\ ~CmdReady
    /\ w \notin asleep
    /\ wpc[w] = "idle"
    /\ submitted[w] < MaxCommands[w]
    /\ OvertakenOnce
    /\ submitted' = [submitted EXCEPT ![w] = @ + 1]
    /\ IF HasRoom
       THEN /\ seen' = [seen EXCEPT ![w] = head]
            /\ wpc' = [wpc EXCEPT ![w] = "send"]
            /\ overlapped' = (overlapped \/ Sending # {})
            /\ UNCHANGED rejected
       ELSE /\ rejected' = rejected + 1
            /\ UNCHANGED <<seen, wpc, overlapped>>
    /\ UNCHANGED <<buffer, receiver, accepted, executed>>

\* What the bytes of a send may be once its copy is complete: its own, unless
\* another send copies to the same place or has done so since.
Result(w) ==
    {<<w, submitted[w]>>}
    \cup {<<v, submitted[v]>> : v \in Sending \ {w}}
    \cup (IF seen[w] = head THEN {} ELSE {store[seen[w] % Room]})
    \cup (IF Sending = {w} /\ seen[w] = head THEN {} ELSE {Torn})

\* Variant of SubmitEnd: nobody is told.
SubmitEndSilent(w) ==
    /\ ~CmdReady
    /\ w \notin asleep
    /\ wpc[w] = "send"
    /\ \E c \in Result(w) : store' = [store EXCEPT ![seen[w] % Room] = c]
    /\ head' = seen[w] + 1
    /\ accepted' = Append(accepted, <<w, submitted[w]>>)
    /\ wpc' = [wpc EXCEPT ![w] = "idle"]
    /\ UNCHANGED <<tail, seen, submitted, rejected, receiver, executed, overlapped>>

\* The copy is complete and the head published.
SubmitEnd(w) ==
    /\ ~CmdReady
    /\ w \notin asleep
    /\ wpc[w] = "send"
    /\ \E c \in Result(w) : store' = [store EXCEPT ![seen[w] % Room] = c]
    /\ head' = seen[w] + 1
    /\ accepted' = Append(accepted, <<w, submitted[w]>>)
    /\ wpc' = [wpc EXCEPT ![w] = "sent"]
    /\ UNCHANGED <<tail, seen, submitted, rejected, receiver, executed, overlapped>>

\* xTaskNotifyIndexed.  Nobody takes xCommandReadySem, which is given here too.
SubmitNotify(w) ==
    /\ ~CmdReady
    /\ w \notin asleep
    /\ wpc[w] = "sent"
    /\ notified' = TRUE
    /\ wpc' = [wpc EXCEPT ![w] = "idle"]
    /\ UNCHANGED <<buffer, seen, submitted, rejected, cpc, asleep, record>>

-----------------------------------------------------------------------------
(* CommandTask *)

\* ulTaskNotifyTakeIndexed: wait for a notification and clear it.
CmdTake ==
    /\ CmdTask \notin asleep
    /\ cpc = "take"
    /\ notified
    /\ notified' = FALSE
    /\ cpc' = "receive"
    /\ UNCHANGED <<buffer, sending, asleep, record>>

\* Receive a command, execute it and log it.
CmdExecute ==
    /\ CmdTask \notin asleep
    /\ cpc = "receive"
    /\ head # tail
    /\ executed' = Append(executed, store[tail % Room])
    /\ tail' = tail + 1
    /\ cpc' = "log"
    /\ UNCHANGED <<store, head, sending, notified, asleep, accepted, overlapped>>

CmdLogged ==
    /\ CmdTask \notin asleep
    /\ cpc = "log"
    /\ cpc' = "receive"
    /\ UNCHANGED <<buffer, sending, notified, asleep, record>>

\* Nothing arrives within 10 ms.
CmdTimeout ==
    /\ CmdTask \notin asleep
    /\ cpc = "receive"
    /\ head = tail
    /\ cpc' = "take"
    /\ UNCHANGED <<buffer, sending, notified, asleep, record>>

CmdProc == CmdTake \/ CmdExecute \/ CmdLogged \/ CmdTimeout

\* Benchmarks_SuspendTask: vTaskSuspend stops a task wherever it is, in Submit or about
\* to notify as well.
Suspend(t) ==
    /\ ~CmdReady
    /\ t \notin asleep
    /\ asleep' = asleep \cup {t}
    /\ UNCHANGED <<buffer, sending, notified, cpc, record>>

\* Benchmarks_ResumeTask: a task that was waiting is made ready at once, so that
\* ulTaskNotifyTakeIndexed returns, notified or not.
Resume(t) ==
    /\ ~CmdReady
    /\ t \in asleep
    /\ asleep' = asleep \ {t}
    /\ IF t = CmdTask /\ cpc = "take" THEN cpc' = "receive" /\ notified' = FALSE
                                      ELSE UNCHANGED <<cpc, notified>>
    /\ UNCHANGED <<buffer, sending, record>>

-----------------------------------------------------------------------------
(* Properties *)

\* Commands in the buffer, oldest first.
Pending == [i \in 1..(head - tail) |-> store[(tail + i - 1) % Room]]

\* While no two sends overlap, the buffer loses and doubles nothing: what was put
\* in is what was executed followed by what is pending, in that order.
ExecutedInOrder == ~overlapped => accepted = executed \o Pending

\* No wake-up is lost: CmdProc never waits for a notification with a command in the
\* buffer, unless that notification is there or its sender has still to give it (a sender
\* that is suspended just then gives it when it is resumed).
NoLostWakeup ==
    cpc = "take" /\ head # tail => notified \/ \E w \in Writers : wpc[w] = "sent"

\* command_processor.c:84 "drop if full": a command that was not dropped is executed.
AcceptedIsExecuted ==
    wpc = [w \in Writers |-> "idle"] /\ ~notified /\ cpc = "take"
        => \A i \in 1..Len(accepted) : \E j \in 1..Len(executed) : executed[j] = accepted[i]
=============================================================================
