------------------------------- MODULE Hearing -------------------------------
(***************************************************************************)
(* Speech recognition of one call: the session's recognizer and the one    *)
(* biased with a city's streets that takes over between utterances         *)
(* (session.rs, session/hearing.rs), the recognizers' sessions (soniox.rs, *)
(* deepgram.rs, openai_stt.rs) and the failover between two of them        *)
(* (stt_failover.rs), which all the calls of the server share.             *)
(*                                                                         *)
(* An utterance is a number; a recognizer that is up answers every end of  *)
(* speech in order and in time, one that is dead answers nothing.          *)
(***************************************************************************)
EXTENDS Naturals, Sequences, FiniteSets

CONSTANTS
    Cities,             \* cities a street may be asked of
    None,
    EmptyFinals,        \* recognizers that answer noise with an empty transcript: OpenAI does,
                        \* Deepgram and Soniox say nothing
    MaxReconnects,      \* MAX_STT_RECONNECTS
    MaxUtterances, MaxOpens     \* bounds of the model

VARIABLES
    stt,        \* the live recognizer's session, or NoStt
    next,       \* stt_next: the one that waits to take over
    opening,    \* stt_opening: the focus last asked for, or "no"
    opens,      \* connections being opened, each in a task of its own
    sttCity,    \* stt_city
    focus,      \* the engine's street_focus
    speaking, spoken,           \* the caller's voice; utterances so far
    finalize,   \* finalize_sent_at: the end of speech whose transcript is due, 0 for none
    resend,     \* resend_utterance
    kept,       \* last_utterance: what it holds
    backlog,    \* stt_backlog: utterances spoken to no recognizer
    reconnects, \* stt_reconnects
    gaveUp,     \* force_handoff("stt_unavailable")
    down,       \* the primary is in its cool-down
    faults,     \* history: failures, or transcripts lost to a reconnect, since the last transcript
    noises      \* history: ends of speech without words that were not answered, since then

vars == <<stt, next, opening, opens, sttCity, focus, speaking, spoken, finalize, resend, kept, backlog,
          reconnects, gaveUp, down, faults, noises>>
listening == <<opening, opens, focus, next, down>>
caller == <<speaking, spoken, kept>>

Utterances == 1..MaxUtterances
Focus == Cities \cup {None}

\* An end of speech the recognizer has to answer: the utterances sent before it, and whether
\* there were words in them.
Due == [id : Utterances, heard : SUBSET Utterances, words : BOOLEAN]

\* A recognizer's session: whose it is, its bias, up or dead, what it was sent since the last
\* end of speech, the ends of speech it has not answered, its failures in a row.
Session == [by : {"primary", "backup"}, city : Focus, up : BOOLEAN, sent : SUBSET Utterances,
            due : Seq(Due), failed : 0..1]
NoStt == [by |-> "none"]
HasStt == stt # NoStt

Opened(by, c) == [by |-> by, city |-> c, up |-> TRUE, sent |-> {}, due |-> <<>>, failed |-> 0]
Opens == [for : {"reconnect", "focus"}, city : Focus]

OneMore(n) == IF n <= MaxReconnects THEN n + 1 ELSE n
Fault == OneMore(faults)
Without(s, i) == SubSeq(s, 1, i - 1) \o SubSeq(s, i + 1, Len(s))

-----------------------------------------------------------------------------
(* The caller's voice.                                                        *)

SpeechStarts ==
    /\ ~gaveUp /\ ~speaking /\ spoken < MaxUtterances
    /\ speaking' = TRUE
    /\ UNCHANGED <<stt, sttCity, spoken, finalize, resend, kept, backlog, reconnects, gaveUp, faults, noises>>
    /\ UNCHANGED listening

\* The end of speech goes to the recognizer, if there is one; the audio is kept for another
\* hearing, with that of the words still waiting for their transcript.
SpeechEnds(words) ==
    LET n == spoken + 1
    IN  /\ speaking /\ speaking' = FALSE /\ spoken' = n
        /\ kept' = IF finalize = 0 THEN {n} ELSE kept \cup {n}
        /\ IF HasStt
           THEN /\ stt' = [stt EXCEPT !.sent = {},
                              !.due = Append(@, [id |-> n, heard |-> stt.sent \cup {n}, words |-> words])]
                /\ finalize' = n /\ UNCHANGED backlog
           ELSE backlog' = backlog \cup {n} /\ UNCHANGED <<stt, finalize>>
        /\ UNCHANGED <<sttCity, resend, reconnects, gaveUp, faults, noises>> /\ UNCHANGED listening

-----------------------------------------------------------------------------
(* Sessions that open, biased or not.                                         *)

\* A session for the streets of the city now asked of, beside the live one.
WantsFocus(c) == sttCity # c /\ opening # c /\ (next = NoStt \/ next.city # c)
FocusStt(c, from) ==
    IF WantsFocus(c)
    THEN opening' = c /\ opens' = Append(from, [for |-> "focus", city |-> c])
    ELSE UNCHANGED opening /\ opens' = from

\* A reply is executed: the question may be about another city's streets.
Replies(c) ==
    /\ ~gaveUp /\ Len(opens) < MaxOpens /\ focus' = c
    /\ FocusStt(c, opens)
    /\ UNCHANGED <<stt, next, sttCity, finalize, resend, backlog, reconnects, gaveUp, down, faults, noises>>
    /\ UNCHANGED caller

\* Between utterances only, as far as finalize_sent_at knows, the waiting session takes over.
SwapIfReady(live, waiting, due) ==
    IF waiting = NoStt \/ speaking \/ due # 0
    THEN stt' = live /\ next' = waiting /\ UNCHANGED sttCity
    ELSE stt' = waiting /\ next' = NoStt /\ sttCity' = waiting.city

\* What opening a session comes to: the backup's while the primary is down, else the
\* primary's; if that fails the primary is out, and the backup is asked.
Opening(c) ==
    [session : {Opened("backup", c), NoStt}, down : {TRUE}]
    \cup (IF down THEN {} ELSE {[session |-> Opened("primary", c), down |-> FALSE]})

\* A reconnect: the last words are heard again when the one that closed never answered
\* them, then what was said meanwhile.  No session at all: a person takes the call.
SttReady(i, o) ==
    LET again == resend /\ kept # {}
        s == o.session
    IN  /\ ~gaveUp /\ opens[i].for = "reconnect" /\ o \in Opening(opens[i].city)
        /\ opens' = Without(opens, i) /\ down' = o.down
        /\ IF s = NoStt
           THEN gaveUp' = TRUE /\ faults' = MaxReconnects + 1 /\ UNCHANGED <<stt, finalize, resend, backlog>>
           ELSE /\ \E words \in BOOLEAN :
                     stt' = [s EXCEPT !.due = IF again THEN <<[id |-> spoken, heard |-> kept, words |-> words]>> ELSE @,
                                      !.sent = backlog]
                /\ finalize' = (IF again THEN spoken ELSE finalize)
                /\ resend' = FALSE /\ backlog' = {} /\ UNCHANGED gaveUp
                /\ faults' = IF HasStt /\ finalize # 0 THEN Fault ELSE faults
        /\ UNCHANGED <<next, opening, sttCity, focus, reconnects, noises>> /\ UNCHANGED caller

SttFocused(i, o) ==
    LET c == opens[i].city
        rest == Without(opens, i)
        none == IF opening = c THEN "no" ELSE opening
    IN  /\ ~gaveUp /\ opens[i].for = "focus" /\ o \in Opening(c) /\ down' = o.down
        /\ IF o.session = NoStt
           THEN opening' = none /\ opens' = rest /\ UNCHANGED <<stt, next, sttCity>>
           ELSE IF c # focus
           THEN /\ UNCHANGED <<stt, next, sttCity>>
                /\ IF sttCity # focus /\ none # focus /\ (next = NoStt \/ next.city # focus)
                   THEN opening' = focus /\ opens' = Append(rest, [for |-> "focus", city |-> focus])
                   ELSE opening' = none /\ opens' = rest
           ELSE opening' = none /\ opens' = rest /\ SwapIfReady(stt, o.session, finalize)
        /\ UNCHANGED <<focus, finalize, resend, backlog, reconnects, gaveUp, faults, noises>> /\ UNCHANGED caller

-----------------------------------------------------------------------------
(* What the live session reports.                                             *)

(* Mutant: a transcript does not clear the count of reconnects.               *)
FinalKeepsCount ==
    LET live == [stt EXCEPT !.due = Tail(@), !.failed = 0]
    IN  /\ ~gaveUp /\ HasStt /\ stt.up /\ stt.due # <<>>
        /\ finalize' = 0 /\ faults' = 0 /\ noises' = 0 /\ UNCHANGED reconnects
        /\ SwapIfReady(live, next, 0)
        /\ UNCHANGED <<opening, opens, focus, resend, backlog, gaveUp, down>> /\ UNCHANGED caller

\* The recognizer answers an end of speech: its words, or for noise an empty transcript or, as
\* it may be, nothing.  Any transcript clears finalize_sent_at and the count of reconnects.
Final ==
    LET d == Head(stt.due)
        live == [stt EXCEPT !.due = Tail(@), !.failed = 0]
    IN  /\ ~gaveUp /\ HasStt /\ stt.up /\ stt.due # <<>>
        /\ IF d.words \/ stt.by \in EmptyFinals
           THEN /\ finalize' = 0 /\ reconnects' = 0 /\ faults' = 0 /\ noises' = 0
                /\ SwapIfReady(live, next, 0)
           ELSE /\ stt' = [stt EXCEPT !.due = Tail(@)] /\ noises' = OneMore(noises)
                /\ UNCHANGED <<next, sttCity, finalize, reconnects, faults>>
        /\ UNCHANGED <<opening, opens, focus, resend, backlog, gaveUp, down>> /\ UNCHANGED caller

(* Mutant: a session that closes while another opens is not reopened.         *)
ClosedWhileOpening(due) ==
    /\ stt' = NoStt /\ reconnects' = reconnects + 1
    /\ finalize' = 0 /\ resend' = (resend \/ (due # 0 /\ ~speaking))
    /\ IF reconnects + 1 > MaxReconnects
       THEN gaveUp' = TRUE /\ UNCHANGED opens
       ELSE opens' = (IF opens = <<>> THEN <<[for |-> "reconnect", city |-> sttCity]>> ELSE opens) /\ UNCHANGED gaveUp
    /\ UNCHANGED <<next, opening, sttCity, focus, backlog>> /\ UNCHANGED caller

\* Closed: a reconnect after a while, or a person after too many without a transcript.
Closed(due) ==
    /\ stt' = NoStt /\ reconnects' = reconnects + 1
    /\ finalize' = 0 /\ resend' = (resend \/ (due # 0 /\ ~speaking))
    /\ IF reconnects + 1 > MaxReconnects
       THEN gaveUp' = TRUE /\ UNCHANGED opens
       ELSE opens' = Append(opens, [for |-> "reconnect", city |-> sttCity]) /\ UNCHANGED gaveUp
    /\ UNCHANGED <<next, opening, sttCity, focus, backlog>> /\ UNCHANGED caller

SessionCloses ==
    /\ ~gaveUp /\ HasStt /\ Len(opens) < MaxOpens
    /\ Closed(finalize) /\ faults' = Fault /\ UNCHANGED <<down, noises>>

\* A transcription fails: the first time the error passes, the second in a row (or one that
\* says the service cannot serve) takes the primary out and closes the session.
Fails(outage) ==
    /\ ~gaveUp /\ HasStt /\ stt.up /\ stt.due # <<>> /\ stt.by = "primary" /\ Len(opens) < MaxOpens
    /\ faults' = Fault /\ UNCHANGED noises
    /\ IF outage \/ stt.failed = 1
       THEN down' = TRUE /\ Closed(finalize)
       ELSE /\ stt' = [stt EXCEPT !.due = Tail(@), !.failed = 1]
            /\ UNCHANGED <<next, opening, opens, sttCity, focus, finalize, resend, backlog, reconnects, gaveUp, down>>
            /\ UNCHANGED caller

\* The connection is up and dead.
Dies ==
    /\ ~gaveUp /\ HasStt /\ stt.up /\ stt' = [stt EXCEPT !.up = FALSE] /\ faults' = Fault
    /\ UNCHANGED <<sttCity, finalize, resend, backlog, reconnects, gaveUp, noises>> /\ UNCHANGED listening /\ UNCHANGED caller

(* Mutant: only a dead connection is overdue.                                 *)
FinalOverdueIfDead ==
    /\ ~gaveUp /\ finalize # 0 /\ HasStt /\ ~stt.up
    /\ Closed(0) /\ UNCHANGED <<down, faults, noises>>

\* No transcript six seconds after the end of speech: closed, with finalize_sent_at cleared.
FinalOverdue ==
    /\ ~gaveUp /\ finalize # 0 /\ HasStt
    /\ stt.up => \A i \in DOMAIN stt.due : stt.due[i].id # finalize
    /\ Closed(0) /\ UNCHANGED <<down, faults, noises>>

\* Another call takes the primary out, or the cool-down is over.
OtherCalls == ~gaveUp /\ down' = ~down
              /\ UNCHANGED <<stt, next, opening, opens, sttCity, focus, finalize, resend, backlog, reconnects,
                             gaveUp, faults, noises>> /\ UNCHANGED caller

-----------------------------------------------------------------------------

Init ==
    /\ stt = NoStt /\ next = NoStt /\ opening = "no" /\ opens = <<[for |-> "reconnect", city |-> None]>>
    /\ sttCity = None /\ focus = None /\ speaking = FALSE /\ spoken = 0 /\ finalize = 0 /\ resend = FALSE
    /\ kept = {} /\ backlog = {} /\ reconnects = 0 /\ gaveUp = FALSE /\ down \in BOOLEAN /\ faults = 0 /\ noises = 0

Connecting == \E i \in DOMAIN opens : \E o \in Opening(opens[i].city) : SttReady(i, o) \/ SttFocused(i, o)

Next ==
    \/ SpeechStarts \/ \E words \in BOOLEAN : SpeechEnds(words)
    \/ \E c \in Focus : Replies(c)
    \/ Connecting
    \/ Final \/ SessionCloses \/ \E outage \in BOOLEAN : Fails(outage)
    \/ Dies \/ FinalOverdue \/ OtherCalls

\* Connections open or fail, and the overdue timer fires.
Spec == Init /\ [][Next]_vars /\ WF_vars(Connecting) /\ WF_vars(FinalOverdue) /\ WF_vars(Final)

-----------------------------------------------------------------------------

TypeOK ==
    /\ {stt, next} \subseteq Session \cup {NoStt} /\ opening \in Focus \cup {"no"}
    /\ opens \in Seq(Opens) /\ Len(opens) <= MaxOpens + 1 /\ {sttCity, focus} \subseteq Focus
    /\ {speaking, resend, gaveUp, down} \subseteq BOOLEAN /\ {spoken, finalize} \subseteq 0..MaxUtterances
    /\ kept \subseteq Utterances /\ backlog \subseteq Utterances
    /\ {reconnects, faults, noises} \subseteq 0..(MaxReconnects + 1)

\* A call without a recognizer has one on its way, or is on its way to a person.
NeverDeaf == ~HasStt => gaveUp \/ \E i \in DOMAIN opens : opens[i].for = "reconnect"

\* The call is given up only when recognition failed, or left noise unanswered, that often
\* since its last transcript: nothing that went wrong takes two of the reconnects.
GivesUpOnTroubles == gaveUp => faults + noises > MaxReconnects

\* The call is given up only when recognition failed that often: an end of speech without a
\* transcript means that the connection is dead, for noise gets an empty one.
GivesUpOnFaults == gaveUp => faults # 0

\* The session does not wait for a transcript for ever: an end of speech is answered in the
\* end, heard again by another session, or the call goes to a person.
DueIsSettled == []<>(finalize = 0 \/ gaveUp)
=============================================================================
