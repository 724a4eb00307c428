------------------------------- MODULE Floor -------------------------------
(***************************************************************************)
(* Who has the floor in a call: the session actor of callora-runtime       *)
(* (session.rs and session/{hearing,speech,agent_turn}.rs) composed with   *)
(* the playout's promise (Speaker).                                        *)
(*                                                                         *)
(* One task handles the caller's audio, the playout's events, transcripts  *)
(* and its own timers and answers, one at a time and in that order of      *)
(* preference (the select is biased).  Nothing sounds unless some handler  *)
(* says something, so every path must leave a timer or an answer pending.  *)
(*                                                                         *)
(* What the caller says is one of a few kinds of transcript; what the      *)
(* engine replies is a set of directives.  A timer is a flag: it is on     *)
(* while an event with the current generation is still to come.            *)
(***************************************************************************)
EXTENDS Speaker

CONSTANTS
    MaxQueued,      \* bound: items said and not ended
    MaxCmds,        \* bound: commands on their way
    Speculate,      \* agent_speculate: the agent starts on partial words
    Trouble         \* what may go wrong on the line, see below

(* "echo": the agent's words come back just after it fell silent, or for as
   long as the silence timer runs.  "tail": the caller's voice goes on after
   its words were heard, and nothing more is made of it.  "stale": an action
   ends after its task was left.  "slow": a decision takes longer than the
   silence timer.  "early": an interruption reaches the playout before the
   first sound of what it cuts off. *)
Troubles == {"echo", "tail", "stale", "slow", "early"}

ASSUME FloorAssumption ==
    /\ MaxQueued \in Nat \ {0}
    /\ MaxCmds \in Nat \ {0}
    /\ Speculate \in BOOLEAN
    /\ Trouble \subseteq Troubles
    /\ MayBeSilent \in BOOLEAN

VARIABLES
    queued,        \* queued_items: said and not reported to have ended
    protecting,    \* an interrupted sentence is let finish
    after,         \* after_speech: the call ends when the playout goes idle
    terminateNow,  \* a TerminateNow is on its way
    actions,       \* actions_in_flight
    vad,           \* the caller is speaking
    overAgent,     \* speech_over_agent: that speech may be the agent's own
    heard,         \* utterance_heard: it brought words
    barge,         \* barge_pending
    silence,       \* the silence reprompt is to come
    unheard,       \* the question again after noise is to come
    noWords,       \* the question again after speech with no words is to come
    unfinished,    \* half a sentence is held, and its timer runs
    due,           \* finalize_sent_at: a transcript is due, and its timer runs
    stt,           \* the recognizer's session, and whether it gets the last words again
    agent,         \* pending_agent (or pending_llm), and what it has said
    second,        \* second_pending
    over           \* how the call ended

mouth == <<queued, after, terminateNow, actions>>
ear == <<vad, overAgent, heard, barge>>
timers == <<silence, unheard>>
turn == <<agent, second>>
playout == <<items, sounding>>
vars == <<cmds, playout, evs, mouth, protecting, ear, timers, noWords, unfinished,
          due, stt, turn, over>>

(* The types, and the bounds the session's counters keep: one action of the
   business at a time, and no more items than were said. *)
TypeOK ==
    /\ SpeakerTypeOK
    /\ queued \in 0 .. MaxQueued
    /\ actions \in {0, 1}
    /\ {protecting, after, terminateNow, vad, overAgent, heard, barge,
        silence, unheard, noWords, unfinished, due, second} \subseteq BOOLEAN
    /\ stt \in {"up", "opening", "resending", "down"}
    /\ agent \in {"none", "guess", "turn", "spoke"}
    /\ over \in {"live", "agent", "caller", "limit"}

(* Session::run: the greeting is queued while recognition connects. *)
Init ==
    /\ cmds = <<"enqueue">> /\ items = 0 /\ sounding = FALSE /\ evs = <<>>
    /\ queued = 1 /\ actions = 0
    /\ after = FALSE /\ terminateNow = FALSE /\ protecting = FALSE
    /\ vad = FALSE /\ overAgent = FALSE /\ heard = FALSE /\ barge = FALSE
    /\ silence = FALSE /\ unheard = FALSE /\ noWords = FALSE
    /\ unfinished = FALSE /\ due = FALSE
    /\ stt = "opening"
    /\ agent = "none" /\ second = FALSE
    /\ over = "live"

Live == over = "live"
Busy == queued > 0                 \* agent_busy
Calm == Live /\ evs = <<>>         \* playout events come first
Thinking == agent # "none"

(* The end of Session::run: the playout, the recognizer, what is pending and
   every timer go with the call. *)
Over(how) ==
    /\ over' = how
    /\ cmds' = <<>> /\ items' = 0 /\ sounding' = FALSE /\ evs' = <<>>
    /\ queued' = 0 /\ actions' = 0
    /\ after' = FALSE /\ terminateNow' = FALSE /\ protecting' = FALSE
    /\ vad' = FALSE /\ overAgent' = FALSE /\ heard' = FALSE /\ barge' = FALSE
    /\ silence' = FALSE /\ unheard' = FALSE /\ noWords' = FALSE
    /\ unfinished' = FALSE /\ due' = FALSE
    /\ stt' = "down"
    /\ agent' = "none" /\ second' = FALSE

-----------------------------------------------------------------------------
(***************************************************************************)
(* Speaking.  A reply is a set of directives: something to say, an action  *)
(* to run, the end of the call.  While the call is in progress the engine  *)
(* always answers with something; once it ends it answers with nothing.    *)
(***************************************************************************)

Replies == {{"say"}, {"run"}, {"say", "run"}, {"end"}, {"say", "end"}}
Engine == IF after THEN {{}} ELSE Replies

(* Session::enqueue, after the interruption the same handler may have sent. *)
Queue(cut, r) ==
    /\ cmds' = cmds \o cut \o (IF "say" \in r THEN <<"enqueue">> ELSE <<>>)
    /\ queued' = queued + (IF "say" \in r THEN 1 ELSE 0)
    /\ Len(cmds') <= MaxCmds /\ queued' <= MaxQueued

(* Words outside a reply: the agent's own, or a thinking sound. *)
Speak(cut, r) == Queue(cut, r) /\ UNCHANGED <<after, terminateNow, actions>>

(* Session::execute.  With nothing to be heard first, the call ends at once. *)
Execute(cut, r) ==
    /\ Queue(cut, r)
    /\ after' = (after \/ "end" \in r)
    /\ actions' = actions + (IF "run" \in r THEN 1 ELSE 0)
    /\ actions' <= 1
    /\ terminateNow' = (terminateNow \/ (after' /\ queued' = 0))

(* A new generation makes the timers that are running stale. *)
ClearTimers == silence' = FALSE /\ unheard' = FALSE
ArmSilence == silence' = TRUE /\ unheard' = FALSE

(* Session::barge_in, where the rules for a transcript allow it: not when a
   sentence is being let finish. *)
Cuts(prot) == IF Busy /\ ~prot THEN {<<>>, <<"soft">>} ELSE {<<>>}

-----------------------------------------------------------------------------
(***************************************************************************)
(* What a transcript does (Session::on_final), for the handlers below.     *)
(***************************************************************************)

(* noise_heard: what was cut off or the question again, or nothing, and then
   the silence reprompt waits. *)
NoiseHeard ==
    \/ Execute(<<>>, {"say"}) /\ ~after /\ UNCHANGED timers
    \/ Execute(<<>>, {}) /\ ArmSilence

(* on_noise: it must not talk over the agent. *)
OnNoise ==
    \/ Busy /\ UNCHANGED <<cmds, mouth, timers>>
    \/ ~Busy /\ NoiseHeard          \* "hello?", or it had cut the agent off
    \/ /\ ~Busy
       /\ silence' = TRUE /\ unheard' = TRUE
       /\ UNCHANGED <<cmds, mouth>>

(* on_final_agent, or without an agent the rules: the answer, a second
   hearing, or a decision to wait for. *)
Answer(cut) ==
    \/ /\ agent = "guess"                             \* adopt_speculation
       /\ \/ agent' = "turn" /\ Speak(cut, {})
          \/ agent' = "spoke" /\ Speak(cut, {"say"})
          \/ agent' = "none" /\ \E r \in Engine : Execute(cut, r)
       /\ UNCHANGED second
    \/ /\ \E r \in Engine : Execute(cut, r)           \* the fast lane
       /\ agent' = "none" /\ UNCHANGED second
    \/ /\ \E r \in {{}, {"say"}} : ("say" \in r => ~Busy) /\ Speak(cut, r)
       /\ second' = TRUE /\ agent' = "none"
    \/ /\ agent' = "turn" /\ second' = FALSE          \* start_agent
       /\ Speak(cut, {})

(* Words to be answered; `half`: the caller broke off and may go on. *)
OnWords(prot, half) ==
    /\ ClearTimers
    /\ \E cut \in Cuts(prot) :
        /\ unfinished' = half
        /\ IF half THEN Speak(cut, {}) /\ UNCHANGED turn ELSE Answer(cut)

Kinds == {"closing", "noise", "listening", "words", "half"}

(* `held`: whether half a sentence is still held when the handler begins. *)
OnFinal(kind, prot, held) ==
    /\ due' = FALSE
    /\ \/ /\ kind = "closing" /\ ~Busy /\ ~Thinking
          /\ \E r \in Engine : Execute(<<>>, r)
          /\ ClearTimers /\ unfinished' = held
          /\ UNCHANGED turn
       \/ /\ kind = "noise" /\ OnNoise
          /\ unfinished' = held /\ UNCHANGED turn
       \/ /\ kind = "listening" /\ Busy            \* said over the read-back
          /\ unfinished' = held
          /\ UNCHANGED <<cmds, mouth, timers, turn>>
       \/ /\ kind = "listening" /\ ~Busy           \* the read-back was cut off
          /\ Execute(<<>>, IF after THEN {} ELSE {"say"})
          /\ ClearTimers /\ unfinished' = held
          /\ UNCHANGED turn
       \/ /\ kind \in {"listening", "words", "half"}
          /\ OnWords(prot, kind = "half")

-----------------------------------------------------------------------------
(***************************************************************************)
(* The caller's voice (Session::on_audio).                                 *)
(***************************************************************************)

SpeechStarts ==
    /\ Live /\ ~vad
    /\ vad' = TRUE /\ heard' = FALSE
    /\ noWords' = FALSE /\ ClearTimers
    /\ barge' = (barge \/ Busy)
    /\ agent' = IF agent = "guess" THEN "none" ELSE agent
    /\ overAgent' \in {Busy, Busy \/ "echo" \in Trouble}
    /\ UNCHANGED <<cmds, playout, evs, mouth, protecting, unfinished, due, stt,
                   second, over>>

(* confirm_barge_in: the voice goes on, is loud, or brings words. *)
VoiceGoesOn ==
    /\ Live /\ barge
    /\ barge' = FALSE
    /\ IF Busy /\ ~protecting
       THEN Speak(<<"soft">>, {})
       ELSE UNCHANGED <<cmds, mouth>>
    /\ UNCHANGED <<playout, evs, protecting, vad, overAgent, heard, timers, noWords,
                   unfinished, due, stt, turn, over>>

(* A transcript is asked for, and perhaps the agent started on the words so
   far (speculate). *)
SpeechEnds ==
    /\ Live /\ vad
    /\ vad' = FALSE /\ barge' = FALSE
    /\ noWords' = (noWords \/ ~heard)
    /\ due' = (due \/ stt = "up")
    /\ agent' \in {agent} \cup (IF Speculate /\ ~Thinking THEN {"guess"} ELSE {})
    /\ UNCHANGED <<cmds, playout, evs, mouth, protecting, overAgent, heard, timers,
                   unfinished, stt, second, over>>

-----------------------------------------------------------------------------
(***************************************************************************)
(* Transcripts (Session::on_stt).                                          *)
(***************************************************************************)

Final(kind) ==
    /\ Calm /\ stt = "up"
    /\ heard' = TRUE /\ noWords' = FALSE
    /\ OnFinal(kind, protecting, unfinished)
    /\ UNCHANGED <<playout, evs, protecting, vad, overAgent, barge, stt, over>>

(* Nothing was made of it, and no timer is touched. *)
FinalEmpty ==
    /\ Calm /\ stt = "up" /\ due
    /\ heard => "tail" \in Trouble
    /\ due' = FALSE
    /\ UNCHANGED <<cmds, playout, evs, mouth, protecting, ear, timers, noWords,
                   unfinished, stt, turn, over>>

(* The agent's own words came back: they are dropped. *)
FinalEcho ==
    /\ Calm /\ stt = "up" /\ overAgent
    /\ due' = FALSE
    /\ heard' = TRUE /\ noWords' = FALSE
    /\ UNCHANGED <<cmds, playout, evs, mouth, protecting, vad, overAgent, barge,
                   timers, unfinished, stt, turn, over>>

(* force_handoff: the call goes to a human, or ends. *)
GiveUp == stt' = "down" /\ Execute(<<>>, IF after THEN {} ELSE {"say", "end"})

(* The session closed: it is opened again, with the words it still owed, or
   it has closed MAX_STT_RECONNECTS times in a row. *)
Closed(owed) ==
    /\ due' = FALSE
    /\ \/ /\ stt' = IF owed /\ ~vad THEN "resending" ELSE "opening"
          /\ UNCHANGED <<cmds, mouth>>
       \/ GiveUp

SttCloses ==
    /\ Calm /\ stt = "up"
    /\ Closed(due)
    /\ UNCHANGED <<playout, evs, protecting, ear, timers, noWords, unfinished, turn,
                   over>>

(* A transcript that does not come means the session is dead. *)
FinalOverdue ==
    /\ Calm /\ due
    /\ heard => "tail" \in Trouble
    /\ Closed(FALSE)
    /\ UNCHANGED <<playout, evs, protecting, ear, timers, noWords, unfinished, turn,
                   over>>

(* The last words are heard again by the new session. *)
SttReady ==
    /\ Calm /\ stt \in {"opening", "resending"}
    /\ stt' = "up"
    /\ due' = (due \/ stt = "resending")
    /\ UNCHANGED <<cmds, playout, evs, mouth, protecting, ear, timers, noWords,
                   unfinished, turn, over>>

SttFails ==
    /\ Calm /\ stt \in {"opening", "resending"}
    /\ GiveUp
    /\ UNCHANGED <<playout, evs, protecting, ear, timers, noWords, unfinished, due,
                   turn, over>>

-----------------------------------------------------------------------------
(***************************************************************************)
(* The playout's events (Session::on_playout).                             *)
(***************************************************************************)

ItemEnds ==
    /\ Live /\ evs # <<>> /\ Head(evs).kind \in {"finished", "cancelled", "protected"}
    /\ evs' = Tail(evs)
    /\ queued' = IF Head(evs).n > queued THEN 0 ELSE queued - Head(evs).n
    /\ protecting' = (protecting \/ Head(evs).kind = "protected")
    /\ UNCHANGED <<cmds, playout, after, terminateNow, actions, ear, timers, noWords,
                   unfinished, due, stt, turn, over>>

(* All was heard: the call ends if it was to, a yes said over the read-back
   counts, or the silence reprompt waits. *)
Idle ==
    /\ Live /\ evs # <<>> /\ Head(evs).kind = "idle"
    /\ \/ after /\ Over("agent")
       \/ /\ ~after
          /\ evs' = Tail(evs)
          /\ protecting' = FALSE
          /\ \/ ~vad /\ OnFinal("listening", FALSE, unfinished)
             \/ ArmSilence /\ UNCHANGED <<cmds, mouth, unfinished, due, turn>>
          /\ UNCHANGED <<playout, ear, noWords, stt, over>>

-----------------------------------------------------------------------------
(***************************************************************************)
(* Timers and answers (Session::on_event).                                 *)
(***************************************************************************)

Free == ~vad /\ ~Busy /\ ~Thinking /\ actions = 0 /\ ~after

(* The silence timer is longer than a decision, and than a voice that brings
   no words. *)
SilenceFires ==
    /\ Calm /\ silence
    /\ vad /\ heard => "tail" \in Trouble
    /\ vad /\ overAgent => "echo" \in Trouble
    /\ agent = "spoke" /\ ~Busy => "slow" \in Trouble
    /\ silence' = FALSE
    /\ IF Free /\ ~second /\ ~unfinished
       THEN \E r \in {{"say"}, {"say", "end"}} : Execute(<<>>, r)
       ELSE UNCHANGED <<cmds, mouth>>
    /\ UNCHANGED <<playout, evs, protecting, ear, unheard, noWords, unfinished, due,
                   stt, turn, over>>

UnheardFires ==
    /\ Calm /\ unheard
    /\ IF Free
       THEN \/ Execute(<<>>, {"say"}) /\ unheard' = FALSE /\ UNCHANGED silence
            \/ Execute(<<>>, {}) /\ ArmSilence
       ELSE unheard' = FALSE /\ UNCHANGED <<silence, cmds, mouth>>
    /\ UNCHANGED <<playout, evs, protecting, ear, noWords, unfinished, due, stt, turn,
                   over>>

(* Mutant: the timer is lost when something else is under way. *)
NoWordsFiresOnce ==
    /\ Calm /\ noWords
    /\ noWords' = FALSE
    /\ LET ag == IF agent = "guess" THEN "none" ELSE agent
           free == /\ ~vad /\ ~Busy /\ ag = "none" /\ actions = 0 /\ ~after
                   /\ ~second /\ ~unfinished /\ ~due
       IN /\ agent' = ag
          /\ IF free THEN NoiseHeard ELSE UNCHANGED <<cmds, mouth, timers>>
    /\ UNCHANGED <<playout, evs, protecting, ear, unfinished, due, stt, second, over>>

(* Speech with no words: a guess on it is dropped, and the question comes
   again, once nothing else is under way. *)
NoWordsFires ==
    /\ Calm /\ noWords
    /\ LET ag == IF agent = "guess" THEN "none" ELSE agent
           free == /\ ~vad /\ ~Busy /\ ag = "none" /\ actions = 0 /\ ~after
                   /\ ~second /\ ~unfinished /\ ~due
       IN /\ agent' = ag
          /\ IF free
             THEN noWords' = FALSE /\ NoiseHeard
             ELSE /\ noWords' = (~vad /\ ~after)
                  /\ UNCHANGED <<cmds, mouth, timers>>
    /\ UNCHANGED <<playout, evs, protecting, ear, unfinished, due, stt, second, over>>

(* The rest of the sentence did not come: what there is is answered. *)
UnfinishedDue ==
    /\ Calm /\ unfinished /\ ~vad
    /\ \E kind \in Kinds \ {"half"} : OnFinal(kind, protecting, FALSE)
    /\ UNCHANGED <<playout, evs, protecting, ear, noWords, stt, over>>

(* An action of the business ended: its outcome is said, or it is tried
   again. *)
ActionResult ==
    /\ Calm /\ actions > 0
    /\ \E r \in Replies \cup (IF after \/ "stale" \in Trouble THEN {{}} ELSE {}) :
        /\ Queue(<<>>, r)
        /\ after' = (after \/ "end" \in r)
        /\ actions' = IF "run" \in r THEN actions ELSE actions - 1
        /\ terminateNow' = (terminateNow \/ (after' /\ queued' = 0))
    /\ UNCHANGED <<playout, evs, protecting, ear, timers, noWords, unfinished, due,
                   stt, turn, over>>

SecondHearing ==
    /\ Calm /\ second
    /\ second' = FALSE /\ agent' = "turn"
    /\ UNCHANGED <<cmds, playout, evs, mouth, protecting, ear, timers, noWords,
                   unfinished, due, stt, over>>

FillerDue ==
    /\ Calm /\ agent = "turn" /\ ~Busy
    /\ UNCHANGED agent
    /\ Speak(<<>>, {"say"})
    /\ UNCHANGED <<playout, evs, protecting, ear, timers, noWords, unfinished, due,
                   stt, second, over>>

AgentSpeaks ==
    /\ Calm /\ agent \in {"turn", "spoke"}
    /\ agent' = "spoke"
    /\ Speak(<<>>, {"say"})
    /\ UNCHANGED <<playout, evs, protecting, ear, timers, noWords, unfinished, due,
                   stt, second, over>>

(* finish_agent: the decision is applied, or it failed and the rules take the
   turn.  Words that were spoken may be all there is to say. *)
AgentDone ==
    /\ Calm /\ agent \in {"turn", "spoke"}
    /\ agent' = "none"
    /\ \/ /\ \E r \in Engine \cup (IF agent = "spoke" THEN {{}} ELSE {}) : Execute(<<>>, r)
          /\ UNCHANGED <<timers>>
       \/ OnNoise
    /\ UNCHANGED <<playout, evs, protecting, ear, noWords, unfinished, due, stt,
                   second, over>>

(* Nothing was to be heard first: the call ends at once. *)
TerminateNow == Calm /\ terminateNow /\ after /\ Over("agent")

(* The caller hangs up, or the call reaches its time limit. *)
CallEnds(how) == Live /\ Over(how)

-----------------------------------------------------------------------------
(* A cancel meets something that has not sounded yet. *)
CutsUnheard == items > 0 /\ ~sounding /\ cmds # <<>> /\ Head(cmds) = "soft"

Playing ==
    /\ Calm /\ Play
    /\ CutsUnheard /\ cmds' # cmds => "early" \in Trouble
    /\ UNCHANGED <<mouth, protecting, ear, timers, noWords, unfinished, due, stt,
                   turn, over>>

Caller == SpeechStarts \/ VoiceGoesOn \/ SpeechEnds \/ CallEnds("caller")

Stt == \/ \E kind \in Kinds : Final(kind)
       \/ FinalEmpty \/ FinalEcho \/ SttCloses \/ SttReady \/ SttFails

PlayoutEvents == ItemEnds \/ Idle

Timer == \/ SilenceFires \/ UnheardFires \/ NoWordsFires \/ UnfinishedDue \/ FinalOverdue
         \/ CallEnds("limit")

Result == ActionResult \/ SecondHearing \/ FillerDue \/ AgentSpeaks \/ AgentDone
          \/ TerminateNow

Next == Playing \/ Caller \/ Stt \/ PlayoutEvents \/ Timer \/ Result

Spec == Init /\ [][Next]_vars

-----------------------------------------------------------------------------
(***************************************************************************)
(* Properties.                                                             *)
(***************************************************************************)

(* Nobody speaks and nothing is under way that will make anybody speak. *)
Quiet ==
    /\ Live /\ ~vad
    /\ cmds = <<>> /\ items = 0 /\ ~sounding /\ evs = <<>>
    /\ ~Thinking \/ agent = "guess"
    /\ ~second /\ ~unfinished /\ ~due /\ actions = 0
    /\ stt \in {"up", "down"} /\ ~terminateNow

(* "Never leave the caller in silence": in every quiet state one of the
   timers that ask again is still to fire. *)
NoDeadAir ==
    Quiet => \/ noWords
             \/ agent # "guess" /\ ~after /\ (silence \/ unheard)

(* "No hangup without a goodbye": the agent ends the call only when nothing it
   said is still to be played. *)
EndsHeard ==
    [][Live /\ over' = "agent" =>
         items = 0 /\ \A k \in 1 .. Len(cmds) : cmds[k] # "enqueue"]_vars
=============================================================================
