-------------------------------- MODULE Door --------------------------------
(***************************************************************************)
(* Letting a call in (callora-runtime server.rs, twilio.rs, settings.rs):  *)
(* the voice webhook decides who may call, starts the customer lookup and  *)
(* answers with a signed token; the media stream of the call comes later   *)
(* with that token and takes what the webhook left for it.                 *)
(*                                                                         *)
(* What the webhook learned waits in memory (`pending`) and is forgotten   *)
(* after PendingFor, at the next call; the token is good for TokenFor.     *)
(* Twilio may repeat a webhook; streams may come late, twice, or never.    *)
(***************************************************************************)
EXTENDS Naturals, FiniteSets

CONSTANTS
    Calls,                   \* call sids
    Numbers,                 \* callers' numbers
    PendingFor, TokenFor,    \* 120 s and 300 s
    MaxTime, MaxStreams      \* bounds: the clock, the streams of a call

Anonymous == "anonymous"     \* no caller id, or one that is not a number
Never == MaxTime + 1

VARIABLES
    now,
    from,      \* [Calls -> the caller's number, as Twilio sends it]
    allowed,   \* the access list of development; production allows anyone
    open,      \* production
    blocked,   \* numbers the owner blocked
    pending,   \* [Calls -> what the webhook learned, and when]
    tokens,    \* the tokens Twilio was given: [call, expires]
    sessions,  \* the sessions that ran, and what each knew
    passed,    \* history: [Calls -> the webhook let the call in, and when last]
    restarted  \* history: the calls that were pending when the server restarted

vars == <<now, from, allowed, open, blocked, pending, tokens, sessions, passed, restarted>>

Nothing == [at |-> Never, customer |-> FALSE]
Allows(n) == open \/ n \in allowed

(* Mutant: every other call's entry is purged, fresh or not.                  *)
VoicePurgesFresh(c) ==
    /\ Allows(from[c]) /\ from[c] \notin blocked
    /\ pending' = [d \in Calls |-> IF d = c THEN [at |-> now, customer |-> from[c] # Anonymous] ELSE Nothing]
    /\ tokens' = tokens \cup {[call |-> c, expires |-> now + TokenFor]}
    /\ passed' = [passed EXCEPT ![c] = now] /\ restarted' = restarted \ {c}
    /\ UNCHANGED <<now, from, allowed, open, blocked, sessions>>

(* POST /voice: who may call, the lookup begun, what is left for the stream. *)
Voice(c) ==
    /\ Allows(from[c]) /\ from[c] \notin blocked
    /\ pending' = [d \in Calls |->
                     IF d = c THEN [at |-> now, customer |-> from[c] # Anonymous]
                     ELSE IF pending[d].at # Never /\ now - pending[d].at >= PendingFor THEN Nothing ELSE pending[d]]
    /\ tokens' = tokens \cup {[call |-> c, expires |-> now + TokenFor]}
    /\ passed' = [passed EXCEPT ![c] = now] /\ restarted' = restarted \ {c}
    /\ UNCHANGED <<now, from, allowed, open, blocked, sessions>>

(* The media stream's start message: the token is this server's, not expired, *)
(* and for this call; the session takes what is pending, if it still is.      *)
Valid(t, c) == t.expires > now /\ t.call = c

Streams(c) == Cardinality({s \in sessions : s.call = c})

Media(c, t) ==
    /\ Streams(c) < MaxStreams
    /\ Valid(t, c)
    /\ LET p == pending[c]
           known == p.at # Never
       IN  sessions' = sessions \cup {[call |-> c, nth |-> Streams(c) + 1,
                                       from |-> IF known THEN from[c] ELSE Anonymous,
                                       customer |-> known /\ p.customer]}
    /\ pending' = [pending EXCEPT ![c] = Nothing]
    /\ UNCHANGED <<now, from, allowed, open, blocked, tokens, passed, restarted>>

\* The owner blocks a number, or changes who may call.
Block(n) ==
    /\ blocked' = IF n \in blocked THEN blocked \ {n} ELSE blocked \cup {n}
    /\ UNCHANGED <<now, from, allowed, open, pending, tokens, sessions, passed, restarted>>

SaveAccess ==
    /\ open' = ~open
    /\ UNCHANGED <<now, from, allowed, blocked, pending, tokens, sessions, passed, restarted>>

Tick ==
    /\ now < MaxTime /\ now' = now + 1
    /\ tokens' = {t \in tokens : t.expires > now'}
    /\ UNCHANGED <<from, allowed, open, blocked, pending, sessions, passed, restarted>>

\* The server restarts: what was pending is gone; the tokens are still good.
Restart ==
    /\ \E c \in Calls : pending[c].at # Never
    /\ restarted' = restarted \cup {c \in Calls : pending[c].at # Never}
    /\ pending' = [c \in Calls |-> Nothing]
    /\ UNCHANGED <<now, from, allowed, open, blocked, tokens, sessions, passed>>

Init ==
    /\ now = 0 /\ from \in [Calls -> Numbers \cup {Anonymous}]
    /\ allowed \in SUBSET Numbers /\ open = TRUE /\ blocked = {}
    /\ pending = [c \in Calls |-> Nothing] /\ tokens = {} /\ sessions = {}
    /\ passed = [c \in Calls |-> Never] /\ restarted = {}

Next ==
    \/ \E c \in Calls : Voice(c) \/ \E t \in tokens : Media(c, t)
    \/ \E n \in Numbers : Block(n)
    \/ SaveAccess
    \/ Tick
    \/ Restart

Spec == Init /\ [][Next]_vars

-----------------------------------------------------------------------------
(* Properties.                                                                *)

TypeOK ==
    /\ now \in 0 .. MaxTime /\ from \in [Calls -> Numbers \cup {Anonymous}]
    /\ allowed \subseteq Numbers /\ blocked \subseteq Numbers /\ open \in BOOLEAN
    /\ tokens \subseteq [call : Calls, expires : 0 .. MaxTime + TokenFor]
    /\ restarted \subseteq Calls

\* A caller the webhook knew is not a stranger to the session that answers: the first stream
\* of a call knows the number, unless it came later than what is pending is kept or the
\* server restarted in between.
KnownIfInTime ==
    \A s \in sessions' \ sessions :
        s.nth = 1 /\ s.call \notin restarted /\ now - passed[s.call] < PendingFor => s.from = from[s.call]
KnownToTheSession == [][KnownIfInTime]_vars
=============================================================================
