------------------------------ MODULE Speaker ------------------------------
(***************************************************************************)
(* What the playout promises the call session: the abstract specification  *)
(* of crates/callora-audio/src/playout.rs.  It says nothing of frames,     *)
(* buffers or pacing.  Commands arrive in order; every item that was       *)
(* enqueued is reported to have ended exactly once, by `finished` or in a  *)
(* `cancelled`; and once something was heard, an `idle` follows when       *)
(* nothing is left.                                                        *)
(*                                                                         *)
(* An event carries how many items it ends.  The events that only feed     *)
(* metrics (Started, Gap) are left out; Failed is never sent.              *)
(***************************************************************************)
EXTENDS Naturals, Sequences

CONSTANT
    MayBeSilent  \* an item may end without a sound (a stream that failed)

VARIABLES
    cmds,        \* the commands on their way to the playout
    items,       \* the items accepted and not ended
    sounding,    \* something was sent since the last idle
    evs          \* the events on their way to the session

speakerVars == <<cmds, items, sounding, evs>>

Commands == {"enqueue", "cancel", "soft"}
EventKinds == {"finished", "cancelled", "protected", "idle"}
Events == [kind : EventKinds, n : Nat]

Event(kind, n) == <<[kind |-> kind, n |-> n]>>

(* The events that an interruption has when the condition holds. *)
EventIf(cond, kind, n) == IF cond THEN Event(kind, n) ELSE <<>>

(* The type of the promise's variables. *)
SpeakerTypeOK ==
    /\ cmds \in Seq(Commands)
    /\ items \in Nat
    /\ sounding \in BOOLEAN
    /\ evs \in Seq(Events)

SpeakerInit ==
    /\ cmds = <<>>
    /\ items = 0
    /\ sounding = FALSE
    /\ evs = <<>>

Accept ==
    /\ cmds # <<>> /\ Head(cmds) = "enqueue"
    /\ cmds' = Tail(cmds)
    /\ items' = items + 1
    /\ UNCHANGED <<sounding, evs>>

Sound ==
    /\ items > 0 /\ ~sounding
    /\ sounding' = TRUE
    /\ UNCHANGED <<cmds, items, evs>>

Finish ==
    /\ items > 0
    /\ sounding \/ MayBeSilent
    /\ items' = items - 1
    /\ evs' = evs \o Event("finished", 1)
    /\ UNCHANGED <<cmds, sounding>>

Rest ==
    /\ items = 0 /\ sounding
    /\ sounding' = FALSE
    /\ evs' = evs \o Event("idle", 0)
    /\ UNCHANGED <<cmds, items>>

(* A cancel drops everything, and what was heard of it is over. *)
Stop ==
    /\ cmds # <<>> /\ Head(cmds) \in {"cancel", "soft"}
    /\ cmds' = Tail(cmds)
    /\ items' = 0
    /\ sounding' = FALSE
    /\ evs' = evs \o EventIf(items > 0, "cancelled", items) \o EventIf(sounding, "idle", 0)

(* A soft cancel may spare the item that is nearly over, reported as
   protected the first time. *)
Spare ==
    /\ cmds # <<>> /\ Head(cmds) = "soft"
    /\ cmds' = Tail(cmds)
    /\ \E kept \in {0, 1}, told \in BOOLEAN :
        /\ kept <= items
        /\ told => kept = 1
        /\ items' = kept
        /\ evs' = evs \o EventIf(told, "protected", 0)
                      \o EventIf(items > kept, "cancelled", items - kept)
    /\ UNCHANGED sounding

Play == Accept \/ Sound \/ Finish \/ Rest \/ Stop \/ Spare

(* The session's side, for the playout on its own: it sends commands and
   takes events as they come. *)
Command == \E c \in Commands : cmds' = Append(cmds, c) /\ UNCHANGED <<items, sounding, evs>>

TakeEvent == evs # <<>> /\ evs' = Tail(evs) /\ UNCHANGED <<cmds, items, sounding>>

SpeakerNext == Play \/ Command \/ TakeEvent

SpeakerSpec == SpeakerInit /\ [][SpeakerNext]_speakerVars
=============================================================================
