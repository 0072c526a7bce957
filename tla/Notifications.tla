----------------------------- MODULE Notifications -----------------------------
(***************************************************************************)
(* The pills of the dashboard (web/frontend/src/lib/store.ts): what          *)
(* detectNotifications remembers of each craft, the pills it raises, and how *)
(* they go: by their timer, by the button, or pushed out by newer ones.      *)
(***************************************************************************)
EXTENDS Integers, SequencesExt

CONSTANTS
    Craft,
    MAX_TOASTS,
    Unseen  \* lastMode has no entry for the craft

VARIABLES
    lastMode, lastFaults,  \* of the last frame of each craft
    troubleFaults,         \* all faults seen in this episode
    toasts,                \* newest first
    toastSeq,              \* the id of the next pill
    expiring               \* the ids whose TOAST_TTL timer has not fired

pills == <<lastMode, lastFaults, troubleFaults, toasts, toastSeq, expiring>>

NotificationsInit ==
    /\ lastMode = [c \in Craft |-> Unseen]
    /\ lastFaults = [c \in Craft |-> {}]
    /\ troubleFaults = [c \in Craft |-> {}]
    /\ toasts = <<>>
    /\ toastSeq = 1
    /\ expiring = {}

Toast(c, kind, about) == [id |-> toastSeq, craft |-> c, kind |-> kind, about |-> about]

Bad(mode, faults) == mode \in {"EMERGENCY", "SAFE", "WARNING"} \/ faults # {}

WasBad(c) == Bad(lastMode[c], lastFaults[c])

IsBad(f) == Bad(f.mode, f.faults)

\* Variant of Accumulated: only the faults of the last frame.
AccumulatedLast(c, f) == IF IsBad(f) THEN f.faults ELSE troubleFaults[c]

\* The faults of the episode, those of a frame included.
Accumulated(c, f) == IF IsBad(f) THEN troubleFaults[c] \cup f.faults ELSE troubleFaults[c]

Stabilized(c, f) == WasBad(c) /\ f.mode = "NORMAL" /\ f.faults = {}

\* The pill for a problem that appears: new faults, or a mode that is worse without any.
EventPill(c, f) ==
    LET newFaults == f.faults \ lastFaults[c]
    IN  IF newFaults # {}
        THEN <<Toast(c, IF f.mode = "SAFE" THEN "warn" ELSE "event", newFaults)>>
        ELSE IF ~WasBad(c) /\ IsBad(f) /\ f.mode # "NORMAL" THEN <<Toast(c, "event", {})>>
        ELSE <<>>

\* The pill for a problem that is gone tells of the faults of its episode.
FixedPill(c, f) ==
    IF ~Stabilized(c, f) THEN <<>>
    ELSE <<Toast(c, "fixed",
                 IF Accumulated(c, f) = {} THEN lastFaults[c] ELSE Accumulated(c, f))>>

\* pushToast of a pill, or of none: a frame never raises both.
PushToasts(new) ==
    /\ toasts' = SubSeq(new \o toasts, 1, IF Len(new \o toasts) < MAX_TOASTS
                                         THEN Len(new \o toasts) ELSE MAX_TOASTS)
    /\ toastSeq' = toastSeq + Len(new)
    /\ expiring' = expiring \cup {new[i].id : i \in DOMAIN new}

\* The first frame of a craft is only remembered.
DetectNotifications(c, f) ==
    /\ lastMode' = [lastMode EXCEPT ![c] = f.mode]
    /\ lastFaults' = [lastFaults EXCEPT ![c] = f.faults]
    /\ IF lastMode[c] = Unseen
       THEN UNCHANGED <<troubleFaults, toasts, toastSeq, expiring>>
       ELSE /\ PushToasts(EventPill(c, f) \o FixedPill(c, f))
            /\ troubleFaults' = [troubleFaults EXCEPT
                   ![c] = IF Stabilized(c, f) THEN {} ELSE Accumulated(c, f)]

\* No two pills have the same id.
DismissToast(id) ==
    IF \E i \in DOMAIN toasts : toasts[i].id = id
    THEN \E i \in DOMAIN toasts : toasts[i].id = id /\ toasts' = RemoveAt(toasts, i)
    ELSE toasts' = toasts

\* The timer of a pill fires, whether the pill is still there or not.
Expire(id) ==
    /\ id \in expiring
    /\ expiring' = expiring \ {id}
    /\ DismissToast(id)
    /\ UNCHANGED <<lastMode, lastFaults, troubleFaults, toastSeq>>

\* The button of a pill.
Close ==
    /\ \E i \in DOMAIN toasts : DismissToast(toasts[i].id)
    /\ UNCHANGED <<lastMode, lastFaults, troubleFaults, toastSeq, expiring>>
=============================================================================
