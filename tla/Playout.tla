------------------------------ MODULE Playout ------------------------------
(***************************************************************************)
(* The playout task of one call (crates/callora-audio/src/playout.rs): it  *)
(* sends audio a few frames ahead of real time, one item after the other,  *)
(* and can be cut off at any frame.                                        *)
(*                                                                         *)
(* The task is a loop: it sends what the lead allows, reports, and waits   *)
(* for a command, data of the current stream or the next tick.  TTS tasks  *)
(* feed the streams in between.  Audio is counted in frames after          *)
(* trimming; a stream's frames in its channel and in its buffer are one    *)
(* number, because the task drains the channel whenever it needs more.     *)
(* Items are numbered by the session in the order it says them, and the    *)
(* command channel keeps that order.                                       *)
(***************************************************************************)
EXTENDS Naturals, Sequences

CONSTANTS
    MaxItems,       \* bound: items said in a behaviour
    MaxFrames,      \* bound: frames waiting in one item
    MaxCmds,        \* bound: commands on their way
    Lead,           \* frames sent ahead of real time
    StartBuffer,    \* frames a stream buffers before it plays (again); start,
                    \* continuation and rebuffer lengths are one here
    Protect,        \* a soft cancel spares an item with this much left
    StreamMayFail   \* a stream may end before its first frame

ASSUME PlayoutAssumption ==
    /\ MaxItems \in Nat /\ MaxFrames \in Nat /\ MaxCmds \in Nat
    /\ Lead \in Nat \ {0}
    /\ StartBuffer \in Nat \ {0}
    /\ StartBuffer <= MaxFrames
    /\ Protect \in Nat
    /\ StreamMayFail \in BOOLEAN

Ids == 1 .. MaxItems
None == 0

VARIABLES
    pc,         \* where the task's loop is
    queue,      \* the items waiting
    cur,        \* the item playing
    left,       \* frames of each item that arrived and were not sent
    open,       \* the streams whose TTS task may still send
    fed,        \* the streams that brought any audio
    streams,    \* the items that are streams
    streamDone, \* the task has seen the end of the current stream
    buffering,  \* the current stream waits for StartBuffer frames
    started,    \* a frame of the current item was sent
    ahead,      \* frames sent whose 20 ms have not passed
    idle,       \* the idle was reported
    spared,     \* the item a soft cancel let finish
    said,       \* how many items the session has said
    accepted,   \* how many of them the task has taken from the channel
    ends,       \* how often each item was reported to have ended (history)
    cmds, evs,  \* the two channels to and from the session
    queued,     \* the session's count of items that have not ended
    protecting  \* the session lets a spared item finish

vars == <<pc, queue, cur, left, open, fed, streams, streamDone, buffering, started,
          ahead, idle, spared, said, accepted, ends, cmds, evs, queued, protecting>>

S == INSTANCE Speaker WITH
        MayBeSilent <- StreamMayFail,
        items <- Len(queue) + (IF cur = None THEN 0 ELSE 1),
        sounding <- ~idle

(* The types, and the bound that playout.rs keeps by `in_flight.len() < lead`:
   never more than Lead frames are ahead of real time. *)
TypeOK ==
    /\ pc \in {"send", "report", "select"}
    /\ queue \in Seq(Ids)
    /\ cur \in Ids \cup {None}
    /\ left \in [Ids -> Nat]
    /\ open \subseteq Ids /\ fed \subseteq Ids /\ streams \subseteq Ids
    /\ {streamDone, buffering, started, idle} \subseteq BOOLEAN
    /\ ahead \in 0 .. Lead
    /\ spared \in Ids \cup {None}
    /\ said \in 0 .. MaxItems /\ accepted \in 0 .. MaxItems
    /\ ends \in [Ids -> Nat]
    /\ cmds \in Seq(S!Commands)
    /\ evs \in Seq(S!Events)
    /\ queued \in Nat
    /\ protecting \in BOOLEAN

Init ==
    /\ pc = "send"
    /\ queue = <<>> /\ cur = None
    /\ left = [i \in Ids |-> 0]
    /\ open = {} /\ fed = {} /\ streams = {}
    /\ streamDone = FALSE /\ buffering = FALSE /\ started = FALSE
    /\ ahead = 0 /\ idle = TRUE /\ spared = None
    /\ said = 0 /\ accepted = 0
    /\ ends = [i \in Ids |-> 0]
    /\ cmds = <<>> /\ evs = <<>>
    /\ queued = 0 /\ protecting = FALSE

audioVars == <<left, open, fed, streams>>
itemVars == <<cur, streamDone, buffering, started>>
sessionVars == <<said, queued, protecting>>

-----------------------------------------------------------------------------
(***************************************************************************)
(* The session and the TTS tasks.                                          *)
(***************************************************************************)

(* Session::enqueue, with a recording or with a stream still to come. *)
Say(clip) ==
    /\ said < MaxItems /\ Len(cmds) < MaxCmds
    /\ said' = said + 1
    /\ queued' = queued + 1
    /\ cmds' = Append(cmds, "enqueue")
    /\ IF clip
       THEN /\ \E f \in 1 .. MaxFrames : left' = [left EXCEPT ![said + 1] = f]
            /\ UNCHANGED <<open, streams>>
       ELSE /\ open' = open \cup {said + 1}
            /\ streams' = streams \cup {said + 1}
            /\ UNCHANGED left
    /\ UNCHANGED <<pc, queue, itemVars, fed, ahead, idle, spared, accepted, ends, evs,
                   protecting>>

(* Session::barge_in: a sentence that is let finish is not cut twice. *)
Interrupt(c) ==
    /\ queued > 0 /\ ~protecting
    /\ Len(cmds) < MaxCmds
    /\ cmds' = Append(cmds, c)
    /\ UNCHANGED <<pc, queue, itemVars, audioVars, ahead, idle, spared, accepted, ends,
                   evs, sessionVars>>

(* Session::on_playout. *)
TakeEvent ==
    /\ evs # <<>>
    /\ evs' = Tail(evs)
    /\ LET e == Head(evs) IN
       /\ queued' = IF e.n > queued THEN 0 ELSE queued - e.n
       /\ protecting' = CASE e.kind = "protected" -> TRUE
                          [] e.kind = "idle" -> FALSE
                          [] OTHER -> protecting
    /\ UNCHANGED <<pc, queue, itemVars, audioVars, ahead, idle, spared, said, accepted,
                   ends, cmds>>

(* spawn_tts: the channel to the playout is bounded, so the task waits. *)
StreamChunk(i) ==
    /\ i \in open /\ left[i] < MaxFrames
    /\ left' = [left EXCEPT ![i] = @ + 1]
    /\ fed' = fed \cup {i}
    /\ UNCHANGED <<pc, queue, itemVars, open, streams, ahead, idle, spared, accepted,
                   ends, cmds, evs, sessionVars>>

(* The stream is complete, failed or stalled for TTS_STALL. *)
StreamEnds(i) ==
    /\ i \in open
    /\ i \in fed \/ StreamMayFail
    /\ open' = open \ {i}
    /\ UNCHANGED <<pc, queue, itemVars, left, fed, streams, ahead, idle, spared,
                   accepted, ends, cmds, evs, sessionVars>>

-----------------------------------------------------------------------------
(***************************************************************************)
(* The playout task: sending as much as the lead allows.                   *)
(***************************************************************************)

Ended(ids) == [i \in Ids |-> IF i \in ids THEN ends[i] + 1 ELSE ends[i]]

(* Active::done: the end of a stream counts once the task has seen it. *)
Done == cur # None /\ left[cur] = 0 /\ (cur \in streams => streamDone)

(* Active::drain asks for this much, and meets the end when there is less. *)
Wanted == IF buffering THEN StartBuffer ELSE 1

(* Mutant: a closed channel is taken for one with nothing in it yet. *)
SeesEndNever == streamDone

SeesEnd == streamDone \/ (cur \in streams /\ cur \notin open /\ left[cur] < Wanted)

(* Active::next_frame has one. *)
FrameReady ==
    /\ left[cur] > 0
    /\ cur \in streams /\ buffering => left[cur] >= StartBuffer \/ SeesEnd

(* The current item is over: the next one starts, if there is one. *)
NextItem ==
    /\ pc = "send" /\ ahead < Lead
    /\ cur = None \/ Done
    /\ evs' = evs \o S!EventIf(cur # None, "finished", 1)
    /\ ends' = Ended({cur})
    /\ IF queue = <<>>
       THEN /\ pc' = "report" /\ cur' = None
            /\ UNCHANGED <<queue, streamDone, buffering, started>>
       ELSE /\ cur' = Head(queue) /\ queue' = Tail(queue)
            /\ streamDone' = FALSE /\ started' = FALSE
            /\ buffering' = (Head(queue) \in streams)
            /\ UNCHANGED pc
    /\ UNCHANGED <<audioVars, ahead, idle, spared, accepted, cmds, sessionVars>>

(* A frame goes out to the caller. *)
SendFrame ==
    /\ pc = "send" /\ ahead < Lead
    /\ cur # None /\ FrameReady
    /\ left' = [left EXCEPT ![cur] = @ - 1]
    /\ ahead' = ahead + 1
    /\ idle' = FALSE
    /\ started' = TRUE
    /\ streamDone' = SeesEnd
    /\ buffering' = FALSE
    /\ UNCHANGED <<pc, queue, cur, open, fed, streams, spared, accepted, ends, cmds, evs,
                   sessionVars>>

(* A stream has nothing to play now; one that ran dry buffers again. *)
NoFrame ==
    /\ pc = "send" /\ ahead < Lead
    /\ cur # None /\ ~Done /\ ~FrameReady
    /\ streamDone' = SeesEnd
    /\ buffering' = (~SeesEnd /\ (buffering \/ started))
    /\ pc' = IF SeesEnd THEN "send" ELSE "report"
    /\ UNCHANGED <<queue, cur, audioVars, started, ahead, idle, spared, accepted, ends,
                   cmds, evs, sessionVars>>

LeadReached ==
    /\ pc = "send" /\ ahead >= Lead
    /\ pc' = "report"
    /\ UNCHANGED <<queue, itemVars, audioVars, ahead, idle, spared, accepted, ends, cmds,
                   evs, sessionVars>>

-----------------------------------------------------------------------------
(***************************************************************************)
(* The end of the loop's body, and what wakes the task again.              *)
(***************************************************************************)

ReportFinished ==
    /\ pc = "report" /\ Done
    /\ evs' = evs \o S!Event("finished", 1)
    /\ ends' = Ended({cur})
    /\ cur' = None
    /\ UNCHANGED <<pc, queue, streamDone, buffering, started, audioVars, ahead, idle,
                   spared, accepted, cmds, sessionVars>>

(* Mutant: the idle is reported whether it was or not. *)
ReportIdleAgain ==
    /\ pc = "report" /\ ~Done
    /\ pc' = "select"
    /\ spared' = IF cur = None THEN None ELSE spared
    /\ LET heard == cur = None /\ queue = <<>> /\ ahead = 0 IN
       /\ idle' = (idle \/ heard)
       /\ evs' = evs \o S!EventIf(heard, "idle", 0)
    /\ UNCHANGED <<queue, itemVars, audioVars, ahead, accepted, ends, cmds, sessionVars>>

(* Nothing is left and the last frame was played: the idle is reported once. *)
ReportIdle ==
    /\ pc = "report" /\ ~Done
    /\ pc' = "select"
    /\ spared' = IF cur = None THEN None ELSE spared
    /\ LET heard == cur = None /\ queue = <<>> /\ ahead = 0 /\ ~idle IN
       /\ idle' = (idle \/ heard)
       /\ evs' = evs \o S!EventIf(heard, "idle", 0)
    /\ UNCHANGED <<queue, itemVars, audioVars, ahead, accepted, ends, cmds, sessionVars>>

RecvEnqueue ==
    /\ pc = "select" /\ cmds # <<>> /\ Head(cmds) = "enqueue"
    /\ cmds' = Tail(cmds)
    /\ accepted' = accepted + 1
    /\ queue' = Append(queue, accepted + 1)
    /\ pc' = "send"
    /\ UNCHANGED <<itemVars, audioVars, ahead, idle, spared, ends, evs, sessionVars>>

QueuedIds == {queue[k] : k \in 1 .. Len(queue)}

(* The channels of dropped items are closed; what was in them is gone. *)
Drop(ids) ==
    /\ ends' = Ended(ids)
    /\ left' = [i \in Ids |-> IF i \in ids THEN 0 ELSE left[i]]
    /\ open' = open \ ids

(* What Active::remaining finds: all of the item is in hand. *)
Exact == cur = None \/ cur \notin streams \/ cur \notin open
NearlyOver == Exact /\ (IF cur = None THEN 0 ELSE left[cur]) + ahead <= Protect

(* Mutant: the items that waited are dropped without a word. *)
CancelHardForgetsQueue ==
    /\ pc = "select" /\ cmds # <<>>
    /\ Head(cmds) = "cancel" \/ (Head(cmds) = "soft" /\ ~NearlyOver)
    /\ cmds' = Tail(cmds)
    /\ evs' = evs \o S!EventIf(cur # None, "cancelled", 1) \o S!EventIf(~idle, "idle", 0)
    /\ Drop({cur} \ {None})
    /\ cur' = None /\ queue' = <<>>
    /\ ahead' = 0 /\ spared' = None /\ idle' = TRUE
    /\ pc' = "send"
    /\ UNCHANGED <<streamDone, buffering, started, fed, streams, accepted, sessionVars>>

(* Everything is dropped and what the caller's side has buffered is cleared. *)
CancelHard ==
    /\ pc = "select" /\ cmds # <<>>
    /\ Head(cmds) = "cancel" \/ (Head(cmds) = "soft" /\ ~NearlyOver)
    /\ cmds' = Tail(cmds)
    /\ LET n == Len(queue) + (IF cur = None THEN 0 ELSE 1) IN
       evs' = evs \o S!EventIf(n > 0, "cancelled", n) \o S!EventIf(~idle, "idle", 0)
    /\ Drop(({cur} \ {None}) \cup QueuedIds)
    /\ cur' = None /\ queue' = <<>>
    /\ ahead' = 0 /\ spared' = None /\ idle' = TRUE
    /\ pc' = "send"
    /\ UNCHANGED <<streamDone, buffering, started, fed, streams, accepted, sessionVars>>

(* Mutant: the spared item is reported as cancelled too. *)
CancelSoftCountsSpared ==
    /\ pc = "select" /\ cmds # <<>>
    /\ Head(cmds) = "soft" /\ NearlyOver
    /\ cmds' = Tail(cmds)
    /\ evs' = evs \o S!EventIf(cur # None /\ spared # cur, "protected", 0)
                  \o S!EventIf(queue # <<>>, "cancelled", Len(queue) + 1)
    /\ Drop(QueuedIds)
    /\ queue' = <<>>
    /\ spared' = IF cur = None THEN spared ELSE cur
    /\ streamDone' = (streamDone \/ cur \in streams)
    /\ pc' = "send"
    /\ UNCHANGED <<cur, buffering, started, fed, streams, ahead, idle, accepted, sessionVars>>

(* The item that is playing is nearly over: it is let finish, the rest goes. *)
CancelSoft ==
    /\ pc = "select" /\ cmds # <<>>
    /\ Head(cmds) = "soft" /\ NearlyOver
    /\ cmds' = Tail(cmds)
    /\ evs' = evs \o S!EventIf(cur # None /\ spared # cur, "protected", 0)
                  \o S!EventIf(queue # <<>>, "cancelled", Len(queue))
    /\ Drop(QueuedIds)
    /\ queue' = <<>>
    /\ spared' = IF cur = None THEN spared ELSE cur
    /\ streamDone' = (streamDone \/ cur \in streams)
    /\ pc' = "send"
    /\ UNCHANGED <<cur, buffering, started, fed, streams, ahead, idle, accepted, sessionVars>>

(* Active::wait_for_data: enough arrived, or the stream ended. *)
DataReady == cur # None /\ cur \in streams /\ ahead < Lead
             /\ ~streamDone /\ (FrameReady \/ SeesEnd)

Data ==
    /\ pc = "select" /\ cmds = <<>> /\ DataReady
    /\ pc' = "send"
    /\ UNCHANGED <<queue, itemVars, audioVars, ahead, idle, spared, accepted, ends, cmds,
                   evs, sessionVars>>

(* Mutant: time passes only while an item plays. *)
TickWhilePlaying ==
    /\ pc = "select" /\ cmds = <<>> /\ ~DataReady
    /\ ahead > 0 /\ cur # None
    /\ ahead' = ahead - 1
    /\ pc' = "send"
    /\ UNCHANGED <<queue, itemVars, audioVars, idle, spared, accepted, ends, cmds, evs,
                   sessionVars>>

(* 20 ms have passed.  With nothing in flight the tick changes nothing. *)
Tick ==
    /\ pc = "select" /\ cmds = <<>> /\ ~DataReady
    /\ ahead > 0
    /\ ahead' = ahead - 1
    /\ pc' = "send"
    /\ UNCHANGED <<queue, itemVars, audioVars, idle, spared, accepted, ends, cmds, evs,
                   sessionVars>>

-----------------------------------------------------------------------------
Session == \/ \E clip \in BOOLEAN : Say(clip)
           \/ \E c \in {"cancel", "soft"} : Interrupt(c)

Tts == \E i \in Ids : StreamChunk(i) \/ StreamEnds(i)

Run == \/ NextItem \/ SendFrame \/ NoFrame \/ LeadReached
       \/ ReportFinished \/ ReportIdle
       \/ RecvEnqueue \/ CancelHard \/ CancelSoft \/ Data \/ Tick

Next == Session \/ TakeEvent \/ Tts \/ Run

Spec == Init /\ [][Next]_vars

(* The task runs, the session takes its events, and a TTS task sends its audio
   and ends (TTS_STALL ends one that stops sending).  The caller need not
   interrupt and the agent need not speak. *)
Fairness ==
    /\ WF_vars(Run)
    /\ WF_vars(TakeEvent)
    /\ \A i \in Ids : WF_vars(StreamChunk(i)) /\ WF_vars(StreamEnds(i))

FairSpec == Spec /\ Fairness

-----------------------------------------------------------------------------
(***************************************************************************)
(* Properties.                                                             *)
(***************************************************************************)

(* Every item said is in exactly one place: on its way, waiting, playing or
   reported to have ended once.  Whatever the order of cancels and stream
   ends, none is lost and none ends twice. *)
Accounted ==
    \A i \in Ids :
        LET places == (IF i > accepted THEN 1 ELSE 0) + (IF i = cur THEN 1 ELSE 0)
                        + (IF i \in QueuedIds THEN 1 ELSE 0) + ends[i]
        IN places = 1

(* The items that play and wait are in the order in which they were said. *)
InOrder ==
    /\ \A k \in 1 .. Len(queue) : cur < queue[k]
    /\ \A j, k \in 1 .. Len(queue) : j < k => queue[j] < queue[k]

(* Through cancels, spared sentences and streams that fail, every item is in
   one place, and they play in the order in which they were said. *)
InPlace == Accounted /\ InOrder

(* Seen as counts and events, the task behaves as the Speaker the session is
   written against. *)
ImplementsSpeaker == S!SpeakerSpec

(* Every item ends, whatever the stream does: nothing holds the floor for
   ever.  A call says MaxItems of them at most, so in the end all that were
   said have ended. *)
EveryItemEnds == []<>(\A i \in 1 .. said : ends[i] = 1)

(* Once anything was sent, the end of it is reported: the idle that the session
   hangs its next timer on is never lost, whatever is said or cut meanwhile. *)
GoesIdle == []<>idle
=============================================================================
