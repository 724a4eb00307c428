------------------------------ MODULE Deciding ------------------------------
(***************************************************************************)
(* What becomes of the caller's words: from a final transcript to the      *)
(* engine (session/hearing.rs on_final, session/agent_turn.rs and the      *)
(* events of session.rs).                                                  *)
(*                                                                         *)
(* Words wait in several places: half a sentence waits for its rest, a     *)
(* place is heard a second time, a language model is asked, and it may be  *)
(* asked on partial words before the final ones are in.  Each wait is a    *)
(* task of its own whose events come back through one queue, also after    *)
(* the session has moved on.  An utterance is its number; the guess at the *)
(* next one carries the number it will have.                               *)
(***************************************************************************)
EXTENDS Naturals, Sequences

CONSTANTS
    Modes,                          \* the ways a call may be configured, see AllModes
    MaxUtterances, MaxMail, MaxIdle \* bounds: utterances, events on their way, starts of speech

VARIABLES
    mode,        \* who decides, and on what
    heard,       \* utterances transcribed
    speaking,    \* the caller's voice is on
    idle,        \* starts of speech
    unfinished,  \* half a sentence, its timer running
    second,      \* second_pending: words being heard once more
    hearings,    \* the second hearings asked for and not yet answered
    pend,        \* pending_agent or pending_llm
    task,        \* the model's task of the current turn
    mail,        \* its events, in order
    turn,        \* turns started
    taken,       \* the words the engine was given, in order
    dropped,     \* utterances ignored: noise, an echo, a listening sound
    said         \* the words of the turns whose reply began to be spoken

vars == <<mode, heard, speaking, idle, unfinished, second, hearings, pend, task, mail, turn, taken, dropped, said>>

\* The rules with a model's help, or the agent (agent_mode): with second hearings of places
\* (understanding.second_hearing), with guesses on partial words (agent_speculate), or both.
AllModes == {"rules", "second", "guess", "both"}
Agent == mode # "rules"
Guesses == mode \in {"guess", "both"}
HearsTwice == mode \in {"second", "both"}

Utterances == 1 .. MaxUtterances
Texts == Seq(Utterances \cup {MaxUtterances + 1})

\* spec: begun on partial words.  held: sentences and the decision kept until they are confirmed.
PendingAgent == [turn : Nat, words : Texts, spec : BOOLEAN, hold : BOOLEAN, held : BOOLEAN, done : {"no", "ok", "err"}]
NoTurn == [turn |-> 0, words |-> <<>>, spec |-> FALSE, hold |-> FALSE, held |-> FALSE, done |-> "no"]
NoSecond == [id |-> 0, words |-> <<>>]
NoTask == [turn |-> 0, stage |-> 0]

\* What a reply streams, in this order; `hold` is the engine's verdict that the agent's own
\* words are not to be said (a value it will reject, a question out of order).
Stages == <<"fields", "asks", "phrase", "say", "done">>

Waiting == pend # NoTurn
Elements(s) == {s[i] : i \in DOMAIN s}

Take(w) == taken' = taken \o w

-----------------------------------------------------------------------------
(* The agent's turn.                                                          *)

\* Session::start_agent; in rules mode the request to the understanding model.
StartAgent(w, spec) ==
    /\ turn' = turn + 1
    /\ \E hold \in BOOLEAN :   \* words that decide the task, a curse: the engine speaks
        pend' = [NoTurn EXCEPT !.turn = turn + 1, !.words = w, !.spec = spec, !.hold = hold /\ Agent]
    /\ task' = [turn |-> turn + 1, stage |-> IF Agent THEN 1 ELSE Len(Stages)]

\* Session::finish_agent and the event of the understanding model: the engine takes the
\* turn; without a decision the rules do, and a few words they make nothing of are noise.
Finish(p, how) ==
    /\ pend' = NoTurn
    /\ \/ Take(p.words) /\ UNCHANGED dropped
       \/ how = "err" /\ dropped' = dropped \cup Elements(p.words) /\ UNCHANGED taken

\* Session::adopt_speculation: the guess was right, what was held is said and done now.
Adopt(w) ==
    LET p == [pend EXCEPT !.spec = FALSE, !.held = FALSE]
    IN  /\ said' = IF pend.held /\ ~pend.hold THEN said \cup {w} ELSE said
        /\ IF pend.done # "no" THEN Finish(p, pend.done) ELSE pend' = p /\ UNCHANGED <<taken, dropped>>
        /\ UNCHANGED <<task, turn, second, hearings>>

(* Mutant: what the agent was thinking about is dropped for the new words.    *)
OnFinalAgentDropsPending(w) ==
    \/ Waiting /\ pend.spec /\ pend.words = w /\ Adopt(w)
    \/ /\ StartAgent(second.words \o w, FALSE) /\ second' = NoSecond
       /\ UNCHANGED <<hearings, taken, dropped, said>>

\* Session::on_final_agent.  Words the agent was still thinking about are part of the new
\* ones; a plain yes goes straight to the engine.
OnFinalAgent(w) ==
    \/ Waiting /\ pend.spec /\ pend.words = w /\ Adopt(w)
    \/ LET all == IF Waiting /\ ~pend.spec THEN pend.words \o w ELSE w
           more == second.words \o all
       IN  /\ UNCHANGED said
           /\ \/ Take(all) /\ pend' = NoTurn /\ task' = NoTask /\ UNCHANGED <<turn, second, hearings, dropped>>
              \/ /\ HearsTwice
                 /\ hearings' = hearings + 1 /\ second' = [id |-> hearings + 1, words |-> more]
                 /\ pend' = NoTurn /\ task' = NoTask
                 /\ UNCHANGED <<turn, taken, dropped>>
              \/ StartAgent(more, FALSE) /\ second' = NoSecond /\ UNCHANGED <<hearings, taken, dropped>>

\* The same without an agent: the rules understand, or a model is asked.
OnFinalRules(w) ==
    LET all == pend.words \o w
    IN  /\ \/ StartAgent(all, FALSE) /\ UNCHANGED taken
           \/ Take(all) /\ pend' = NoTurn /\ task' = NoTask /\ UNCHANGED turn
        /\ UNCHANGED <<second, hearings, dropped, said>>

\* Session::on_final: an echo, noise or a listening sound is dropped; a word that closes the
\* call is answered at once if nothing is pending; half a sentence waits for its rest.
OnFinal(w, releasing) ==
    \/ dropped' = dropped \cup Elements(w)
       /\ UNCHANGED <<unfinished, second, hearings, pend, task, turn, taken, said>>
    \/ ~Waiting /\ Take(w) /\ UNCHANGED <<unfinished, second, hearings, pend, task, turn, dropped, said>>
    \/ ~releasing /\ unfinished' = unfinished \o w
       /\ UNCHANGED <<second, hearings, pend, task, turn, taken, dropped, said>>
    \/ /\ unfinished' = <<>>
       /\ IF Agent THEN OnFinalAgent(unfinished \o w) ELSE OnFinalRules(unfinished \o w)

Final ==
    /\ heard < MaxUtterances
    /\ heard' = heard + 1
    /\ OnFinal(<<heard + 1>>, FALSE)
    /\ UNCHANGED <<mode, speaking, idle, mail>>

\* Ev::UnfinishedDue: not while the caller speaks; what there is goes the same way again.
UnfinishedDue ==
    /\ unfinished # <<>> /\ ~speaking
    /\ LET w == unfinished
       IN  \/ /\ dropped' = dropped \cup Elements(w) /\ unfinished' = <<>>
              /\ UNCHANGED <<second, hearings, pend, task, turn, taken, said>>
           \/ /\ ~Waiting /\ Take(w) /\ unfinished' = <<>>
              /\ UNCHANGED <<second, hearings, pend, task, turn, dropped, said>>
           \/ /\ unfinished' = <<>>
              /\ IF Agent THEN OnFinalAgent(w) ELSE OnFinalRules(w)
    /\ UNCHANGED <<mode, heard, speaking, idle, mail>>

-----------------------------------------------------------------------------
(* The caller's voice.                                                        *)

\* The caller goes on: a guess was about half a sentence.
SpeechStarts ==
    /\ ~speaking /\ idle < MaxIdle /\ heard < MaxUtterances
    /\ speaking' = TRUE /\ idle' = idle + 1
    /\ IF pend.spec THEN pend' = NoTurn /\ task' = NoTask ELSE UNCHANGED <<pend, task>>
    /\ UNCHANGED <<mode, heard, unfinished, second, hearings, mail, turn, taken, dropped, said>>

\* Session::speculate: the agent starts on the partial words, if nothing else is pending.
SpeechEnds ==
    /\ speaking /\ speaking' = FALSE
    /\ \/ Guesses /\ ~Waiting /\ heard < MaxUtterances /\ StartAgent(<<heard + 1>>, TRUE)
       \/ UNCHANGED <<pend, task, turn>>
    /\ UNCHANGED <<mode, heard, idle, unfinished, second, hearings, mail, taken, dropped, said>>

\* Ev::NoWords: partial words that never became a transcript.
NoWords ==
    /\ pend.spec /\ ~speaking
    /\ pend' = NoTurn /\ task' = NoTask
    /\ UNCHANGED <<mode, heard, speaking, idle, unfinished, second, hearings, mail, turn, taken, dropped, said>>

-----------------------------------------------------------------------------
(* The tasks and their events.                                                *)

(* Mutant: a model that says nothing more has no timeout.                     *)
TaskSendsNoEnd ==
    /\ task # NoTask /\ Len(mail) < MaxMail
    /\ \E stage \in task.stage .. Len(Stages), how \in {"ok", "err"} :
        /\ mail' = IF how = "err" THEN mail
                   ELSE Append(mail, [turn |-> task.turn, what |-> Stages[stage], how |-> how])
        /\ task' = IF how = "err" \/ stage = Len(Stages) THEN NoTask ELSE [task EXCEPT !.stage = stage + 1]
    /\ UNCHANGED <<mode, heard, speaking, idle, unfinished, second, hearings, pend, turn, taken, dropped, said>>

\* The model's stream: every part is optional but the end, which a timeout also brings.
TaskSends ==
    /\ task # NoTask /\ Len(mail) < MaxMail
    /\ \E stage \in task.stage .. Len(Stages), how \in {"ok", "err"} :
        /\ mail' = Append(mail, [turn |-> task.turn, what |-> Stages[stage], how |-> how])
        /\ task' = IF stage = Len(Stages) THEN NoTask ELSE [task EXCEPT !.stage = stage + 1]
    /\ UNCHANGED <<mode, heard, speaking, idle, unfinished, second, hearings, pend, turn, taken, dropped, said>>

\* Ev::AgentFields, AgentAsks: checked as they come, also for a guess.
Checked(m) ==
    /\ pend' = [pend EXCEPT !.hold = @ \/ m.how = "err"]
    /\ UNCHANGED <<taken, dropped, said>>

\* Ev::AgentPhrase, AgentSay: a guess keeps them.
Spoken(m) ==
    /\ IF pend.spec THEN pend' = [pend EXCEPT !.held = TRUE] /\ UNCHANGED said
       ELSE UNCHANGED pend /\ said' = IF pend.hold THEN said ELSE said \cup {pend.words}
    /\ UNCHANGED <<taken, dropped>>

\* Ev::AgentDone, Ev::Llm.
Done(m) ==
    /\ IF pend.spec THEN pend' = [pend EXCEPT !.done = m.how] /\ UNCHANGED <<taken, dropped>>
       ELSE Finish(pend, m.how)
    /\ UNCHANGED said

Deliver ==
    /\ mail # <<>>
    /\ LET m == Head(mail)
       IN  IF m.turn # pend.turn THEN UNCHANGED <<pend, taken, dropped, said>>
           ELSE CASE m.what \in {"fields", "asks"} -> Checked(m)
                  [] m.what \in {"phrase", "say"} -> Spoken(m)
                  [] m.what = "done" -> Done(m)
    /\ mail' = Tail(mail)
    /\ UNCHANGED <<mode, heard, speaking, idle, unfinished, second, hearings, task, turn>>

\* Ev::SecondHearing, or its timeout: the agent decides on the words it was asked for.
SecondHearing(id) ==
    /\ second.id = id /\ id # 0
    /\ StartAgent(second.words, FALSE) /\ second' = NoSecond
    /\ UNCHANGED <<mode, heard, speaking, idle, unfinished, hearings, mail, taken, dropped, said>>

Init ==
    /\ mode \in Modes
    /\ heard = 0 /\ speaking = FALSE /\ idle = 0 /\ unfinished = <<>> /\ second = NoSecond /\ hearings = 0
    /\ pend = NoTurn /\ task = NoTask /\ mail = <<>> /\ turn = 0 /\ taken = <<>> /\ dropped = {} /\ said = {}

SecondHears == \E id \in 1 .. hearings : SecondHearing(id)

Next ==
    \/ Final
    \/ UnfinishedDue
    \/ SpeechStarts
    \/ SpeechEnds
    \/ NoWords
    \/ TaskSends
    \/ Deliver
    \/ SecondHears

\* Every task ends (each has a timeout), the queue is served, and a caller who speaks stops;
\* the timer of half a sentence tries again until it finds them silent.
Fairness ==
    /\ WF_vars(Deliver)
    /\ WF_vars(TaskSends)
    /\ WF_vars(SecondHears)
    /\ WF_vars(SpeechEnds)
    /\ SF_vars(UnfinishedDue)

Spec == Init /\ [][Next]_vars /\ Fairness

-----------------------------------------------------------------------------
(* Properties.                                                                *)

TypeOK ==
    /\ mode \in AllModes /\ heard \in 0 .. MaxUtterances /\ speaking \in BOOLEAN /\ idle \in 0 .. MaxIdle
    /\ unfinished \in Texts /\ second \in [id : Nat, words : Texts] /\ hearings \in Nat
    /\ pend \in PendingAgent /\ task \in [turn : Nat, stage : 0 .. Len(Stages)]
    /\ mail \in Seq([turn : Nat, what : Elements(Stages), how : {"ok", "err"}]) /\ Len(mail) <= MaxMail
    /\ turn \in Nat /\ taken \in Texts /\ dropped \subseteq Utterances /\ said \subseteq Texts

\* Words are never dropped (the comment in on_final says so): what the caller said is with
\* the engine once, or waits in exactly one place, or was judged to be nothing, whatever was
\* pending when it came and whatever came late; and nothing of a reply is said before the
\* final transcript has confirmed every word it answers.
WordsKept ==
    /\ \A u \in 1 .. heard :
        LET guess == IF pend.spec THEN <<>> ELSE pend.words
            all == taken \o unfinished \o second.words \o guess
            times == {i \in DOMAIN all : all[i] = u}
        IN  IF u \in dropped THEN times = {} ELSE \E i \in times : times = {i}
    /\ \A w \in said : Elements(w) \subseteq 1 .. heard

\* What the caller says is answered: every word heard is with the engine in the end, or was
\* judged to be nothing.
EveryWordIsAnswered == []<>(\A u \in 1 .. heard : u \in Elements(taken) \cup dropped)
=============================================================================
