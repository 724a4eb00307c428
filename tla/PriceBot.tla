------------------------------ MODULE PriceBot ------------------------------
(***************************************************************************)
(* The price bot (callora-runtime whatsapp.rs, WhatsAppChatBot): calls ask *)
(* it at the same time from one account, which must not look like a bot.   *)
(* A fresh answer is used again; otherwise the question is counted against *)
(* the caps of the hour and the day, waits out the pause since the last    *)
(* one, and is sent.  A bot that left a question unanswered is left alone  *)
(* for a while.                                                            *)
(*                                                                         *)
(* Every asker is a call; `now` is the clock.  The lock on `asked` is held *)
(* from the count to the new entry, and not while the asker waits.         *)
(***************************************************************************)
EXTENDS Naturals, FiniteSets

CONSTANTS
    Askers,                 \* the calls
    Questions,
    Gap, GapAhead,          \* the pause before a caller's question, and one asked ahead
    PerHour, PerDay,        \* the caps; half of them for a question asked ahead
    Hour, Day,              \* their windows
    Fresh,                  \* how old an answer may be
    SilentFor,              \* how long a silent bot is left alone
    MaxTime, MaxSent        \* bounds: the clock, the questions sent

VARIABLES
    now,
    answers,    \* [Questions -> when the remembered answer was asked], in memory
    saved,      \* the same in the database
    asked,      \* when the account asks: the entries of may_ask
    counted,    \* how many there were since the server started: two may be of one time
    silent,     \* when the bot last left a question unanswered
    ask,        \* [Askers -> what the call is doing]
    sent        \* history: the questions that went out since the server started

vars == <<now, answers, saved, asked, counted, silent, ask, sent>>

Never == MaxTime + 1
Times == 0 .. MaxTime
Entry == [n : Nat, at : Nat]
NoEntry == [n |-> 0, at |-> 0]
Call == [at : {"idle", "loading", "waiting", "asking"}, question : Questions, ahead : BOOLEAN,
         since : Times, loaded : Times \cup {Never}, entry : Entry]
Rest(c) == [c EXCEPT !.at = "idle", !.since = 0, !.loaded = Never, !.entry = NoEntry]

\* Instant::elapsed is zero for an instant still to come.
Elapsed(t) == IF now > t THEN now - t ELSE 0
Younger(t, age) == t # Never /\ Elapsed(t) < age
Least(S) == CHOOSE m \in S : \A n \in S : m <= n

(* may_ask: the entries of a day are kept; refused, or counted with the time to ask at. *)
Retained == {e \in asked : Elapsed(e.at) < Day}
LastHour == {e \in Retained : Elapsed(e.at) < Hour}
Cap(n, ahead) == IF ahead THEN n \div 2 ELSE n
Pause(ahead) == IF ahead THEN GapAhead ELSE Gap
Since == Least({Elapsed(e.at) : e \in Retained})
TooSoon(ahead) == Retained # {} /\ Since < Pause(ahead)
(* Mutant: the last question of the hour is one too many.                     *)
MayAskOneMore(ahead) ==
    /\ Cardinality(LastHour) <= Cap(PerHour, ahead)
    /\ Cardinality(Retained) < Cap(PerDay, ahead)
    /\ ~(ahead /\ TooSoon(ahead))

MayAsk(ahead) ==
    /\ Cardinality(LastHour) < Cap(PerHour, ahead)
    /\ Cardinality(Retained) < Cap(PerDay, ahead)
    /\ ~(ahead /\ TooSoon(ahead))
AskAt(ahead) == IF TooSoon(ahead) THEN now + Pause(ahead) - Since ELSE now

(* WhatsAppChatBot::ask, once the last answer to the question is known: a   *)
(* fresh one is said; a silent bot and a refusal end it (with a day-old     *)
(* answer or none, which nothing here tells apart); else it waits its turn. *)
Proceed(c, record, known) ==
    IF Younger(known, Fresh) \/ Younger(silent, SilentFor) \/ ~MayAsk(record.ahead)
      THEN /\ ask' = [ask EXCEPT ![c] = Rest(record)]
           /\ asked' = IF Younger(known, Fresh) \/ Younger(silent, SilentFor) THEN asked ELSE Retained
           /\ UNCHANGED counted
      ELSE LET entry == [n |-> counted + 1, at |-> AskAt(record.ahead)]
           IN  /\ ask' = [ask EXCEPT ![c] = [record EXCEPT !.at = "waiting", !.entry = entry]]
               /\ asked' = Retained \cup {entry}
               /\ counted' = counted + 1

\* remembered: in memory, else the database is asked.
Ask(c, q, ahead) ==
    /\ ask[c].at = "idle" /\ Cardinality(sent) < MaxSent
    /\ LET record == [Rest(ask[c]) EXCEPT !.question = q, !.ahead = ahead, !.since = now]
       IN  IF answers[q] # Never
             THEN Proceed(c, record, answers[q])
             ELSE /\ ask' = [ask EXCEPT ![c] = [record EXCEPT !.at = "loading", !.loaded = saved[q]]]
                  /\ UNCHANGED <<asked, counted>>
    /\ UNCHANGED <<now, answers, saved, silent, sent>>

\* price_from_bot, for a caller who asks; warm, once the ride's cities are known.
CallerAsks(c, q) == Ask(c, q, FALSE)
AskedAhead(c, q) == Ask(c, q, TRUE)

\* What the database had is remembered, whatever has been remembered since.
Loaded(c) ==
    /\ ask[c].at = "loading"
    /\ Proceed(c, ask[c], ask[c].loaded)
    /\ answers' = IF ask[c].loaded = Never THEN answers ELSE [answers EXCEPT ![ask[c].question] = ask[c].loaded]
    /\ UNCHANGED <<now, saved, silent, sent>>

\* The pause is over, and the question goes out.
Send(c) ==
    /\ ask[c].at = "waiting" /\ now >= ask[c].entry.at
    /\ ask' = [ask EXCEPT ![c].at = "asking"]
    /\ sent' = sent \cup {[n |-> ask[c].entry.n, at |-> now]}
    /\ UNCHANGED <<now, answers, saved, asked, counted, silent>>

\* The bot answers: remembered under the time the asking began, and saved, or not.
Answered(c) ==
    /\ ask[c].at = "asking"
    /\ silent' = Never
    /\ answers' = [answers EXCEPT ![ask[c].question] = ask[c].since]
    /\ \/ saved' = [saved EXCEPT ![ask[c].question] = ask[c].since]
       \/ UNCHANGED saved
    /\ ask' = [ask EXCEPT ![c] = Rest(@)]
    /\ UNCHANGED <<now, asked, counted, sent>>

\* No answer in time silences the bot; another failure does not.
Failed(c) ==
    /\ ask[c].at = "asking"
    /\ silent' \in {now, silent}
    /\ ask' = [ask EXCEPT ![c] = Rest(@)]
    /\ UNCHANGED <<now, answers, saved, asked, counted, sent>>

\* Timers are on time: the clock does not pass a question whose pause is over.
Tick ==
    /\ now < MaxTime /\ now' = now + 1
    /\ \A c \in Askers : ask[c].at = "waiting" => ask[c].entry.at > now
    /\ UNCHANGED <<answers, saved, asked, counted, silent, ask, sent>>

\* The server restarts: what was asked is forgotten, with the caps.
Restart ==
    /\ now > 0 /\ sent # {}
    /\ answers' = [q \in Questions |-> Never] /\ asked' = {} /\ counted' = 0 /\ silent' = Never
    /\ ask' = [c \in Askers |-> Rest(ask[c])] /\ sent' = {}
    /\ UNCHANGED <<now, saved>>

Init ==
    /\ now = 0
    /\ answers = [q \in Questions |-> Never] /\ saved = [q \in Questions |-> Never]
    /\ asked = {} /\ counted = 0 /\ silent = Never /\ sent = {}
    /\ ask = [c \in Askers |-> [at |-> "idle", question |-> CHOOSE q \in Questions : TRUE, ahead |-> FALSE,
                                since |-> 0, loaded |-> Never, entry |-> NoEntry]]

Next ==
    \/ \E c \in Askers, q \in Questions : CallerAsks(c, q) \/ AskedAhead(c, q)
    \/ \E c \in Askers : Loaded(c) \/ Send(c) \/ Answered(c) \/ Failed(c)
    \/ Tick
    \/ Restart

Spec == Init /\ [][Next]_vars

-----------------------------------------------------------------------------
(* Properties.                                                                *)

TypeOK ==
    /\ now \in Times /\ answers \in [Questions -> Times \cup {Never}] /\ saved \in [Questions -> Times \cup {Never}]
    /\ asked \subseteq Entry /\ counted \in Nat /\ silent \in Times \cup {Never} /\ ask \in [Askers -> Call]
    /\ sent \subseteq Entry

Within(e, window) == {f \in sent : f.at <= e.at /\ e.at - f.at < window}

\* However many calls ask at once and wait for their turn outside the lock, no hour and no
\* day sees more questions than the caps, counted at the time they really go out and since the
\* server started: it counts in memory, and a restart begins a fresh count.
CapsHold ==
    \A e \in sent :
        /\ Cardinality(Within(e, Hour)) <= PerHour
        /\ Cardinality(Within(e, Day)) <= PerDay
=============================================================================
