------------------------------ MODULE Patience ------------------------------
(***************************************************************************)
(* How long the conversation engine goes on with a caller it gets nothing  *)
(* from: silence and its reprompts, words nobody understood, the same      *)
(* question over and over, a goodbye in the middle of a booking, curses,   *)
(* noise on the line (engine.rs and the counters of state.rs).  What the   *)
(* task machine does meanwhile is module Booking's: here a turn leaves any *)
(* task it could.                                                          *)
(***************************************************************************)
EXTENDS Naturals

CONSTANTS
    MaxReprompts, Patient,      \* silence.max_reprompts, silence.patient_reprompts
    Ladder,                     \* the length of the fallback's ladder
    None

StuckAfter == 5
Strikes == 2

VARIABLES
    phase,      \* "active", "handing_off", "ending"
    task,       \* "none", "empty": no detail yet, "filled", "executing"
    done,       \* "none", "sent": the last task succeeded, "other"
    offered,    \* offered_more
    count,      \* the engine's counters
    waiting,    \* the caller asked to wait
    doubted,    \* goodbye_doubted
    apology,    \* "the line is noisy" was said in this turn
    desk,       \* there is a person to hand over to
    habit,      \* what the caller does from now on, or None
    unanswered  \* history: silences since the caller's last words

vars == <<phase, task, done, offered, count, waiting, doubted, apology, desk, habit, unanswered>>
said == <<done, desk, habit>>

Tasks == {"none", "empty", "filled", "executing"}
Counters ==
    [silence : 0..(MaxReprompts + Patient + 1), level : 0..(Ladder + 1), restarts : 0..1,
     streak : 0..StuckAfter, strikes : 0..Strikes]

Active == phase = "active"
Capped(n) == IF n < StuckAfter THEN n + 1 ELSE n

(* Mutant: the silences before the caller spoke still count.                  *)
TurnKeepsSilence(c, p, t) ==
    /\ phase' = p /\ task' = t /\ count' = c
    /\ waiting' = FALSE /\ apology' = FALSE /\ unanswered' = 0
    /\ UNCHANGED said

\* A turn of the caller's: the silence is over.
Turn(c, p, t) ==
    /\ phase' = p /\ task' = t /\ count' = [c EXCEPT !.silence = 0]
    /\ waiting' = FALSE /\ apology' = FALSE /\ unanswered' = 0
    /\ UNCHANGED said

(* Mutant: the ladder starts again as often as it ends.                       *)
HandOffForgets(c) ==
    IF desk THEN Turn(c, "handing_off", task)
    ELSE Turn([c EXCEPT !.level = 0, !.streak = 1], "active", task)

\* To a person, or the end; the ladder starts again once when there is nobody.
HandOff(c) ==
    IF desk THEN Turn(c, "handing_off", task)
    ELSE IF c.restarts = 0 THEN Turn([c EXCEPT !.restarts = 1, !.level = 0, !.streak = 1], "active", task)
    ELSE Turn(c, "ending", task)

\* Asked the same question again (same), another one, or none.
Asked(c, how) == [c EXCEPT !.streak = CASE how = "same" -> Capped(@) [] how = "other" -> 1 [] OTHER -> 0]

CallerIs(h) == habit \in {None, h}

-----------------------------------------------------------------------------

\* The rules understood something, and the task moves on.
Understood(t, how) ==
    /\ Active /\ habit = None
    /\ Turn(Asked([count EXCEPT !.level = 0], how), "active", t)
    /\ offered' = FALSE /\ UNCHANGED doubted

\* Nothing understood: one step down the ladder.
Fallback(how) ==
    LET c == [count EXCEPT !.level = @ + 1]
    IN  /\ Active /\ CallerIs("mumbles")
        /\ IF c.level > Ladder THEN HandOff(c)
           ELSE Turn(Asked(c, how), "active", task)
        /\ offered' = FALSE /\ UNCHANGED doubted

\* A goodbye of a word or two while a question of a task with details waits for its answer,
\* and none was doubted before; and one said after that.
GoodbyeMidTask == ~doubted /\ ~offered /\ task = "filled" /\ count.streak > 0
InsistsOnGoodbye == doubted

\* A decision of the agent's.  It looks at the questions asked so far before it does
\* anything: at the fifth of the same, a person takes the call or it ends.
AgentTurn(t, how, bye) ==
    LET c == [count EXCEPT !.level = 0]
        lone == bye /\ GoodbyeMidTask
    IN  /\ Active /\ CallerIs(IF bye THEN "leaves" ELSE IF how = "same" /\ t # "executing" THEN "stuck" ELSE "talks")
        /\ IF bye /\ InsistsOnGoodbye THEN Turn(c, "ending", task)
           ELSE IF count.streak >= StuckAfter THEN Turn(c, IF desk THEN "handing_off" ELSE "ending", task)
           ELSE IF lone THEN Turn(Asked(c, how), "active", task)
           ELSE IF bye THEN Turn(c, "ending", task)
           ELSE Turn(Asked(c, how), "active", t)
        /\ offered' = FALSE /\ doubted' = (doubted \/ (lone /\ count.streak < StuckAfter))

\* A curse: nothing is taken, and the second one ends the call.  The agent's path begins a
\* turn of its own first; there a second lone goodbye with a curse in it ends the call too.
Curses(agent) ==
    LET c == [count EXCEPT !.strikes = @ + 1, !.level = IF agent THEN 0 ELSE @]
    IN  /\ Active /\ CallerIs("curses")
        /\ Turn(c, IF c.strikes >= Strikes THEN "ending" ELSE "active", task)
        /\ offered' = (offered /\ ~agent) /\ UNCHANGED doubted

\* "Wait", "again?", "slower": said again, and recorded as said again.  Cancelling the task, going
\* back and asking for a person are in Booking and left out here.
Meta(m) ==
    /\ Active /\ habit = None
    /\ Turn(IF m = "again" /\ count.streak > 0 THEN Asked(count, "same") ELSE count, "active", task)
    /\ UNCHANGED <<offered, doubted>>

Waits ==
    /\ Active /\ habit = None
    /\ count' = [count EXCEPT !.silence = 0] /\ waiting' = TRUE /\ apology' = FALSE /\ unanswered' = 0
    /\ UNCHANGED <<phase, task, offered, doubted>> /\ UNCHANGED said

\* The task's action ended: a ride was sent, or not.  A task that was suspended goes on with
\* its question (Booking says which there is); without one something else is offered.
ActionEnds(ok) ==
    /\ Active /\ task = "executing" /\ done' = (IF ok THEN "sent" ELSE "other")
    /\ \/ task' = "none" /\ offered' = TRUE /\ count' = Asked(count, "other")
       \/ /\ task' \in {"empty", "filled"} /\ UNCHANGED offered
          /\ \E how \in {"same", "other"} : count' = Asked(count, how)
    /\ UNCHANGED <<phase, waiting, doubted, apology, desk, habit, unanswered>>

-----------------------------------------------------------------------------

\* Noise, or a "hello?": the question once more; "the line is noisy" once a turn.  Nothing is
\* counted, and the silence goes on where it was.
OnNoise(hello) ==
    /\ Active /\ habit = None /\ task # "executing"
    /\ apology' = (apology \/ ~hello)
    /\ UNCHANGED <<phase, task, offered, count, waiting, doubted, unanswered>> /\ UNCHANGED said

\* Nothing said for silence_after_ms: after a task was sent the goodbye, else a reprompt, or
\* with details given the patient one, and in the end the goodbye.
OnSilence ==
    LET n == count.silence + 1
        patient == IF task = "filled" THEN Patient ELSE 0
    IN  /\ Active /\ CallerIs("silent") /\ task # "executing"
        /\ waiting' = FALSE /\ unanswered' = IF unanswered <= MaxReprompts + Patient THEN unanswered + 1 ELSE unanswered
        /\ IF offered /\ task = "none" /\ done = "sent"
           THEN phase' = "ending" /\ UNCHANGED count
           ELSE /\ count' = [count EXCEPT !.silence = n]
                /\ phase' = IF n > MaxReprompts + patient THEN "ending" ELSE "active"
        /\ UNCHANGED <<task, offered, doubted, apology>> /\ UNCHANGED said

\* "Thank you" to "anything else?".
OnClosing ==
    /\ Active /\ offered /\ habit = None
    /\ phase' = "ending" /\ offered' = FALSE
    /\ UNCHANGED <<task, done, count, waiting, doubted, apology, desk, habit, unanswered>>

\* From here on the caller does only this.
Becomes(h) ==
    /\ Active /\ habit = None /\ habit' = h
    /\ UNCHANGED <<phase, task, done, offered, count, waiting, doubted, apology, desk, unanswered>>

-----------------------------------------------------------------------------

Init ==
    /\ phase = "active" /\ task = "none" /\ done = "none" /\ offered = FALSE
    /\ count = [silence |-> 0, level |-> 0, restarts |-> 0, streak |-> 1, strikes |-> 0]
    /\ waiting = FALSE /\ doubted = FALSE /\ apology = FALSE /\ desk \in BOOLEAN /\ habit = None
    /\ unanswered = 0

Hows == {"same", "other", "none"}
Habits == {"silent", "mumbles", "stuck", "leaves", "curses"}

Mumbles == Fallback("same")
Stays == \E t \in Tasks \ {"executing"} : AgentTurn(t, "same", FALSE)
Leaves == AgentTurn(task, "same", TRUE)
Swears == \E agent \in BOOLEAN : Curses(agent)
ActionReturns == \E ok \in BOOLEAN : ActionEnds(ok)
KeepsItUp ==
    \/ habit = "mumbles" /\ Mumbles
    \/ habit = "stuck" /\ Stays
    \/ habit = "leaves" /\ Leaves
    \/ habit = "curses" /\ Swears

Next ==
    \/ \E t \in Tasks, how \in Hows : Understood(t, how) \/ AgentTurn(t, how, FALSE)
    \/ \E how \in Hows : Fallback(how) \/ AgentTurn(task, how, TRUE)
    \/ Swears
    \/ \E m \in {"again", "louder"} : Meta(m)
    \/ Waits
    \/ ActionReturns
    \/ \E hello \in BOOLEAN : OnNoise(hello)
    \/ OnSilence
    \/ OnClosing
    \/ \E h \in Habits : Becomes(h)

\* A caller with a habit keeps it up; the silence timer fires and requests end.
Spec ==
    /\ Init /\ [][Next]_vars
    /\ WF_vars(OnSilence) /\ WF_vars(ActionReturns) /\ WF_vars(KeepsItUp)

-----------------------------------------------------------------------------

TypeOK ==
    /\ phase \in {"active", "handing_off", "ending"} /\ task \in Tasks /\ done \in {"none", "sent", "other"}
    /\ offered \in BOOLEAN /\ waiting \in BOOLEAN /\ doubted \in BOOLEAN /\ apology \in BOOLEAN /\ desk \in BOOLEAN
    /\ count \in Counters /\ habit \in Habits \cup {None}
    /\ unanswered \in 0..(MaxReprompts + Patient + 1)

\* Nobody is kept for ever: a caller who falls silent, is never understood, is asked the same
\* thing again and again, keeps saying goodbye or keeps cursing gets a person or the end.
NobodyIsKept == habit # None ~> ~Active

\* Silence ends a call with details given only after all its reprompts, the patient ones
\* included, went unanswered since the caller last spoke.
WaitedFor == OnSilence /\ phase' = "ending" /\ task = "filled" => unanswered' > MaxReprompts + Patient
DetailsAreWaitedFor == [][WaitedFor]_vars

\* A call does not go on after a second curse, however the two were understood.
SecondCurseEnds == Active => count.strikes < Strikes
=============================================================================
