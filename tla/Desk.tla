-------------------------------- MODULE Desk --------------------------------
(***************************************************************************)
(* One transfer of a caller to the dispatch desk                           *)
(* (crates/callora-runtime/src/desk.rs).                                   *)
(*                                                                         *)
(* The caller waits in a conference of their own while every desk number   *)
(* is rung.  Four kinds of tasks share one record behind a mutex: the      *)
(* transfer that dials, its deadline, and the webhook handlers for         *)
(* answers, ended legs, the conference and the caller's own call.  Every   *)
(* action below is one critical section of one of them; what a task does   *)
(* between two critical sections (an awaited REST request, a spawned       *)
(* cancel) is state of its own, so that the others run in between.         *)
(*                                                                         *)
(* Transfers of different callers share nothing but the map they are kept  *)
(* in, so one is modelled.  A leg is named by the number it rings: every   *)
(* distinct number is dialed once.  The phone network (legs, conference,   *)
(* delivery of its callbacks) is external, modelled from the TwiML the     *)
(* code sends and the answers the REST client accepts.                     *)
(***************************************************************************)
EXTENDS Naturals, FiniteSets

CONSTANTS
    Numbers,          \* the distinct desk numbers of the business
    NoLeg,            \* no leg: the None of the code
    ReplyMayBeLost,   \* a dial may fail at the client and still ring
    CallbackMayBeLost,\* a status or conference callback may never arrive
    RestMayFail,      \* a cancel, a redirect or a hangup may fail
    AnswerMayBeLate   \* an answer webhook may come after its leg has ended

ASSUME DeskAssumption ==
    /\ IsFiniteSet(Numbers)
    /\ Numbers # {}
    /\ NoLeg \notin Numbers
    /\ {ReplyMayBeLost, CallbackMayBeLost, RestMayFail, AnswerMayBeLate} \subseteq BOOLEAN

VARIABLES
    pc,        \* where Desk::transfer is
    dialing,   \* the number whose dial request is in flight
    attempted, \* the numbers already tried
    xf,        \* the Transfer record of the map
    timer,     \* the deadline task
    timerLegs, \* the legs the deadline task still has to cancel
    checks,    \* tasks about to enter give_up_if_all_failed
    telling,   \* fallbacks in flight, by cause
    begun,     \* how many fallbacks each cause has begun (history)
    cancels,   \* legs whose cancel request is in flight
    caller,    \* where the caller's call is (external)
    leg,       \* the state of every desk leg (external)
    joinSent,  \* legs that were answered with the join TwiML (history)
    legCb,     \* terminal status callbacks on their way, by leg (external)
    callerCb,  \* the caller's own terminal callback is on its way (external)
    confCb     \* conference callbacks on their way (external)

serverVars == <<pc, dialing, attempted, xf, timer, timerLegs, checks,
                telling, begun, cancels>>
networkVars == <<caller, leg, joinSent, legCb, callerCb, confCb>>
taskVars == <<pc, dialing, attempted, timer, timerLegs>>
vars == <<serverVars, networkVars>>

Causes == {"tail", "timer", "refused", "abandoned"}

(* "late": it ended after it answered, and its answer webhook is still to come. *)
LegStates == {"none", "ringing", "answering", "summary", "joined", "late", "over"}

(* The fields of the record that decide something; `live` says whether the
   map still holds it. *)
Transfer == [live : BOOLEAN, legs : SUBSET Numbers, ended : SUBSET Numbers,
             dialed : BOOLEAN, taken : BOOLEAN, connected : BOOLEAN,
             winner : Numbers \cup {NoLeg}]

NewTransfer == [live |-> TRUE, legs |-> {}, ended |-> {}, dialed |-> FALSE,
                taken |-> FALSE, connected |-> FALSE, winner |-> NoLeg]

(* The type of every variable of the module. *)
TypeOK ==
    /\ pc \in {"idle", "redirecting", "dial", "none_rung", "done"}
    /\ dialing \in Numbers \cup {NoLeg}
    /\ attempted \subseteq Numbers
    /\ xf \in Transfer
    /\ timer \in {"off", "armed", "done"}
    /\ timerLegs \subseteq Numbers
    /\ checks \subseteq Numbers \cup {NoLeg}
    /\ telling \subseteq Causes
    /\ begun \in [Causes -> Nat]
    /\ cancels \subseteq Numbers
    /\ caller \in {"agent", "hold", "told", "gone"}
    /\ leg \in [Numbers -> LegStates]
    /\ joinSent \subseteq Numbers
    /\ legCb \subseteq Numbers
    /\ callerCb \in BOOLEAN
    /\ confCb \subseteq {"start", "end"}

Init ==
    /\ pc = "idle"
    /\ dialing = NoLeg
    /\ attempted = {}
    /\ xf = [NewTransfer EXCEPT !.live = FALSE]
    /\ timer = "off"
    /\ timerLegs = {}
    /\ checks = {}
    /\ telling = {}
    /\ begun = [c \in Causes |-> 0]
    /\ cancels = {}
    /\ caller = "agent"
    /\ leg = [n \in Numbers |-> "none"]
    /\ joinSent = {}
    /\ legCb = {}
    /\ callerCb = FALSE
    /\ confCb = {}

-----------------------------------------------------------------------------
(***************************************************************************)
(* The phone network.                                                      *)
(***************************************************************************)

Ringable == {"ringing", "answering", "summary", "joined"}

Joined == {n \in Numbers : leg[n] = "joined"}

(* The legs of S hang up; each of them owes a terminal callback. *)
LegsEnd(S) ==
    /\ leg' = [n \in Numbers |-> IF n \notin S THEN leg[n]
                               ELSE IF leg[n] = "answering" /\ AnswerMayBeLate THEN "late"
                               ELSE "over"]
    /\ legCb' = legCb \cup S

(* The caller leaves for `where`.  Leaving the hold conference ends it for
   everyone in it (endConferenceOnExit); its end event is certain only when
   the conference had started. *)
CallerMoves(where) ==
    IF caller = "gone" THEN UNCHANGED <<caller, leg, legCb, callerCb, confCb>>
    ELSE /\ caller' = where
         /\ callerCb' = (callerCb \/ where = "gone")
         /\ IF caller = "hold"
            THEN /\ LegsEnd(Joined)
                 /\ \/ confCb' = confCb \cup {"end"}
                    \/ Joined = {} /\ UNCHANGED confCb
            ELSE UNCHANGED <<leg, legCb, confCb>>

(* The caller hangs up, at any time (or the apology's own hangup ends it). *)
CallerHangsUp ==
    /\ caller # "gone"
    /\ CallerMoves("gone")
    /\ UNCHANGED <<serverVars, joinSent>>

(* The dial request reached the network: the number rings. *)
LegRings(n) ==
    /\ dialing = n
    /\ leg[n] = "none"
    /\ leg' = [leg EXCEPT ![n] = "ringing"]
    /\ UNCHANGED <<serverVars, caller, joinSent, legCb, callerCb, confCb>>

(* Someone at the desk picks up; the answer webhook is requested. *)
LegPicksUp(n) ==
    /\ leg[n] = "ringing"
    /\ leg' = [leg EXCEPT ![n] = "answering"]
    /\ UNCHANGED <<serverVars, caller, joinSent, legCb, callerCb, confCb>>

(* A leg refuses, rings out, is given up by the network or hangs up.  When
   it was in the conference with the caller, the conference ends and the
   caller's TwiML goes on to its hangup. *)
LegHangsUp(n) ==
    /\ leg[n] \in Ringable
    /\ IF leg[n] = "joined" /\ caller = "hold"
       THEN CallerMoves("gone")
       ELSE LegsEnd({n}) /\ UNCHANGED <<caller, callerCb, confCb>>
    /\ UNCHANGED <<serverVars, joinSent>>

(* The summary was said: the operator enters the conference, which starts
   when the caller is waiting in it. *)
SummaryEnds(n) ==
    /\ leg[n] = "summary"
    /\ leg' = [leg EXCEPT ![n] = "joined"]
    /\ confCb' = IF caller = "hold" THEN confCb \cup {"start"} ELSE confCb
    /\ UNCHANGED <<serverVars, caller, joinSent, legCb, callerCb>>

(* A callback never arrives. *)
CallbackIsLost ==
    /\ CallbackMayBeLost
    /\ \/ \E n \in legCb : legCb' = legCb \ {n} /\ UNCHANGED <<callerCb, confCb>>
       \/ callerCb /\ callerCb' = FALSE /\ UNCHANGED <<legCb, confCb>>
       \/ \E e \in confCb : confCb' = confCb \ {e} /\ UNCHANGED <<legCb, callerCb>>
    /\ UNCHANGED <<serverVars, caller, leg, joinSent>>

-----------------------------------------------------------------------------
(***************************************************************************)
(* Telling the caller that no one is available.                            *)
(***************************************************************************)

BeginTelling(cause) ==
    /\ telling' = telling \cup {cause}
    /\ begun' = [begun EXCEPT ![cause] = @ + 1]

(* fallback(): redirect the caller to the apology, and hang up when the
   redirect fails.  The deadline's task goes on to its cancels. *)
Fallback(cause) ==
    /\ cause \in telling
    /\ telling' = telling \ {cause}
    /\ \/ CallerMoves("told")
       \/ RestMayFail /\ CallerMoves("gone")
       \/ RestMayFail /\ UNCHANGED <<caller, leg, legCb, callerCb, confCb>>
    /\ cancels' = IF cause = "timer" THEN cancels \cup timerLegs ELSE cancels
    /\ timerLegs' = IF cause = "timer" THEN {} ELSE timerLegs
    /\ UNCHANGED <<pc, dialing, attempted, xf, timer, checks, begun, joinSent>>

(* A cancel request: it stops a ringing leg and ends an answered one.  A task
   cancels its legs one after the other; their order is left open here. *)
Cancel(n) ==
    /\ n \in cancels
    /\ cancels' = cancels \ {n}
    /\ \/ /\ leg[n] \in Ringable
          /\ IF leg[n] = "joined" /\ caller = "hold"
             THEN CallerMoves("gone")
             ELSE LegsEnd({n}) /\ UNCHANGED <<caller, callerCb, confCb>>
       \/ /\ leg[n] \notin Ringable \/ RestMayFail
          /\ UNCHANGED <<caller, leg, legCb, callerCb, confCb>>
    /\ UNCHANGED <<pc, dialing, attempted, xf, timer, timerLegs, checks,
                   telling, begun, joinSent>>

(* Mutant: the refusal does not take the call. *)
GiveUpWithoutTaking(t) ==
    /\ t \in checks
    /\ checks' = checks \ {t}
    /\ IF xf.live /\ ~xf.taken /\ xf.dialed /\ xf.legs # {} /\ xf.legs \subseteq xf.ended
       THEN BeginTelling("refused")
       ELSE UNCHANGED <<telling, begun>>
    /\ UNCHANGED <<taskVars, xf, cancels, networkVars>>

(* give_up_if_all_failed, for the task t that called it. *)
GiveUpIfAllFailed(t) ==
    /\ t \in checks
    /\ checks' = checks \ {t}
    /\ IF xf.live /\ ~xf.taken /\ xf.dialed /\ xf.legs # {} /\ xf.legs \subseteq xf.ended
       THEN xf' = [xf EXCEPT !.taken = TRUE] /\ BeginTelling("refused")
       ELSE UNCHANGED <<xf, telling, begun>>
    /\ UNCHANGED <<taskVars, cancels, networkVars>>

-----------------------------------------------------------------------------
(***************************************************************************)
(* Desk::transfer.                                                         *)
(***************************************************************************)

(* The session hands the caller over: the record is inserted and the
   redirect to the hold conference is requested. *)
BeginTransfer ==
    /\ pc = "idle"
    /\ pc' = "redirecting"
    /\ xf' = NewTransfer
    /\ UNCHANGED <<dialing, attempted, timer, timerLegs, checks, telling, begun,
                   cancels, networkVars>>

(* The redirect was accepted; a call that is already over is a success too
   (TwilioRest::update), so a caller who left just before is dialed for. *)
Redirected ==
    /\ pc = "redirecting"
    /\ pc' = "dial"
    /\ timer' = "armed"
    /\ caller' = IF caller = "agent" THEN "hold" ELSE caller
    /\ UNCHANGED <<dialing, attempted, xf, timerLegs, checks, telling, begun,
                   cancels, leg, joinSent, legCb, callerCb, confCb>>

(* The redirect failed: the transfer is forgotten and the session hangs up. *)
RedirectFails ==
    /\ pc = "redirecting"
    /\ RestMayFail
    /\ pc' = "done"
    /\ xf' = [xf EXCEPT !.live = FALSE]
    /\ \/ CallerMoves("gone")
       \/ UNCHANGED <<caller, leg, legCb, callerCb, confCb>>
    /\ UNCHANGED <<dialing, attempted, timer, timerLegs, checks, telling, begun,
                   cancels, joinSent>>

Dialable == xf.live /\ ~xf.taken

(* The next distinct number, unless someone has taken the call meanwhile. *)
Dial(n) ==
    /\ pc = "dial" /\ dialing = NoLeg
    /\ n \notin attempted
    /\ Dialable
    /\ dialing' = n
    /\ attempted' = attempted \cup {n}
    /\ UNCHANGED <<pc, xf, timer, timerLegs, checks, telling, begun, cancels, networkVars>>

(* Mutant: a leg whose sid came back too late is not cancelled. *)
DialOkKeepsLateLeg ==
    /\ dialing # NoLeg
    /\ leg[dialing] # "none"
    /\ xf' = IF xf.live THEN [xf EXCEPT !.legs = @ \cup {dialing}] ELSE xf
    /\ dialing' = NoLeg
    /\ UNCHANGED <<pc, attempted, timer, timerLegs, checks, telling, begun, cancels,
                   networkVars>>

(* The created call's sid came back: a leg that is too late is cancelled. *)
DialOk ==
    /\ dialing # NoLeg
    /\ leg[dialing] # "none"
    /\ LET late == ~xf.live \/ (xf.taken /\ xf.winner # dialing) IN
       /\ xf' = IF xf.live THEN [xf EXCEPT !.legs = @ \cup {dialing}] ELSE xf
       /\ cancels' = IF late THEN cancels \cup {dialing} ELSE cancels
    /\ dialing' = NoLeg
    /\ UNCHANGED <<pc, attempted, timer, timerLegs, checks, telling, begun, networkVars>>

(* The dial failed, or its reply was lost after the call was created. *)
DialErr ==
    /\ dialing # NoLeg
    /\ leg[dialing] = "none" \/ ReplyMayBeLost
    /\ dialing' = NoLeg
    /\ UNCHANGED <<pc, attempted, xf, timer, timerLegs, checks, telling, begun,
                   cancels, networkVars>>

(* The critical section after the loop: it only decides whether any number
   rang; `taken` is set in a second one (NoneRung). *)
AllDialed ==
    /\ pc = "dial" /\ dialing = NoLeg
    /\ ~Dialable \/ attempted = Numbers
    /\ xf' = IF xf.live THEN [xf EXCEPT !.dialed = TRUE] ELSE xf
    /\ \/ /\ xf.live /\ xf.taken
          /\ pc' = "done" /\ UNCHANGED checks
       \/ /\ xf.live => ~xf.taken /\ xf.legs = {}
          /\ pc' = "none_rung" /\ UNCHANGED checks
       \/ /\ xf.live /\ ~xf.taken /\ xf.legs # {}
          /\ pc' = "done" /\ checks' = checks \cup {NoLeg}
    /\ UNCHANGED <<dialing, attempted, timer, timerLegs, telling, begun, cancels,
                   networkVars>>

(* Mutant: the caller is told without taking the call. *)
NoneRungStaysOpen ==
    /\ pc = "none_rung"
    /\ pc' = "done"
    /\ BeginTelling("tail")
    /\ UNCHANGED <<dialing, attempted, xf, timer, timerLegs, checks, cancels, networkVars>>

(* No desk call could be created: tell the caller. *)
NoneRung ==
    /\ pc = "none_rung"
    /\ pc' = "done"
    /\ xf' = IF xf.live THEN [xf EXCEPT !.taken = TRUE] ELSE xf
    /\ BeginTelling("tail")
    /\ UNCHANGED <<dialing, attempted, timer, timerLegs, checks, cancels, networkVars>>

-----------------------------------------------------------------------------
(***************************************************************************)
(* The deadline and the webhook handlers.                                  *)
(***************************************************************************)

(* Mutants: the deadline does not look at `connected`; it looks at `taken`
   alone; it forgets the legs. *)
TimeoutIgnoresConnected ==
    /\ timer = "armed"
    /\ timer' = "done"
    /\ IF xf.live /\ (~xf.taken \/ xf.winner # NoLeg)
       THEN /\ xf' = [xf EXCEPT !.taken = TRUE, !.winner = NoLeg, !.legs = {}]
            /\ timerLegs' = xf.legs
            /\ BeginTelling("timer")
       ELSE UNCHANGED <<xf, timerLegs, telling, begun>>
    /\ UNCHANGED <<pc, dialing, attempted, checks, cancels, networkVars>>

TimeoutTrustsTaken ==
    /\ timer = "armed"
    /\ timer' = "done"
    /\ IF xf.live /\ ~xf.taken
       THEN /\ xf' = [xf EXCEPT !.taken = TRUE, !.winner = NoLeg, !.legs = {}]
            /\ timerLegs' = xf.legs
            /\ BeginTelling("timer")
       ELSE UNCHANGED <<xf, timerLegs, telling, begun>>
    /\ UNCHANGED <<pc, dialing, attempted, checks, cancels, networkVars>>

TimeoutForgetsLegs ==
    /\ timer = "armed"
    /\ timer' = "done"
    /\ IF xf.live /\ (~xf.taken \/ (xf.winner # NoLeg /\ ~xf.connected))
       THEN /\ xf' = [xf EXCEPT !.taken = TRUE, !.winner = NoLeg, !.legs = {}]
            /\ BeginTelling("timer")
       ELSE UNCHANGED <<xf, telling, begun>>
    /\ UNCHANGED <<pc, dialing, attempted, timerLegs, checks, cancels, networkVars>>

(* arm_timeout: no operator is connected when the wait is over. *)
Timeout ==
    /\ timer = "armed"
    /\ timer' = "done"
    /\ IF xf.live /\ (~xf.taken \/ (xf.winner # NoLeg /\ ~xf.connected))
       THEN /\ xf' = [xf EXCEPT !.taken = TRUE, !.winner = NoLeg, !.legs = {}]
            /\ timerLegs' = xf.legs
            /\ BeginTelling("timer")
       ELSE UNCHANGED <<xf, timerLegs, telling, begun>>
    /\ UNCHANGED <<pc, dialing, attempted, checks, cancels, networkVars>>

(* Mutant: a second answer takes the caller too. *)
MayTakeAgain(n) == xf.live /\ n \notin xf.ended

MayTake(n) == xf.live /\ ~xf.taken /\ n \notin xf.ended

(* answered: the first leg to answer takes the caller, a retried webhook of
   the winner gets the same TwiML, every other leg is hung up.  `lost`: the
   response does not reach the network, which will ask again or give up.  The
   leg may have ended by then, and its end been reported, or not yet. *)
Answered(n, lost) ==
    /\ leg[n] \in {"answering", "late"}
    /\ LET again == xf.live /\ xf.winner = n
           join  == again \/ MayTake(n)
       IN /\ IF ~again /\ MayTake(n)
             THEN /\ xf' = [xf EXCEPT !.taken = TRUE, !.winner = n]
                  /\ cancels' = cancels \cup (xf.legs \ {n})
             ELSE UNCHANGED <<xf, cancels>>
          /\ joinSent' = IF join THEN joinSent \cup {n} ELSE joinSent
          /\ IF lost THEN UNCHANGED <<leg, legCb>>
             ELSE /\ leg' = [leg EXCEPT ![n] =
                                IF join /\ leg[n] = "answering" THEN "summary" ELSE "over"]
                  /\ legCb' = IF join \/ leg[n] = "late" THEN legCb ELSE legCb \cup {n}
    /\ UNCHANGED <<taskVars, checks, telling, begun, caller, callerCb, confCb>>

(* Mutant: a winner lost before the conference started reopens the call. *)
LegEndedReopens(n, again) ==
    /\ n \in legCb
    /\ legCb' = IF again THEN legCb ELSE legCb \ {n}
    /\ \/ /\ xf.live /\ xf.taken /\ xf.winner = n
          /\ xf' = [xf EXCEPT !.winner = NoLeg, !.taken = xf.connected]
       \/ /\ ~(xf.live /\ xf.taken /\ xf.winner = n)
          /\ UNCHANGED xf
    /\ UNCHANGED <<taskVars, checks, telling, begun, cancels, caller, leg, joinSent,
                   callerCb, confCb>>

(* leg_ended, for a terminal status; `again`: the callback is repeated. *)
LegEnded(n, again) ==
    /\ n \in legCb
    /\ legCb' = IF again THEN legCb ELSE legCb \ {n}
    /\ \/ /\ xf.live /\ xf.taken /\ xf.winner = n
          /\ xf' = [xf EXCEPT !.winner = NoLeg]
          /\ IF xf.connected THEN UNCHANGED <<telling, begun>>
             ELSE BeginTelling("abandoned")
          /\ UNCHANGED checks
       \/ /\ xf.live /\ ~xf.taken
          /\ xf' = [xf EXCEPT !.ended = @ \cup {n}]
          /\ checks' = checks \cup {n}
          /\ UNCHANGED <<telling, begun>>
       \/ /\ ~xf.live \/ (xf.taken /\ xf.winner # n)
          /\ UNCHANGED <<xf, checks, telling, begun>>
    /\ UNCHANGED <<taskVars, cancels, caller, leg, joinSent, callerCb, confCb>>

(* caller_ended: stop ringing and invalidate late answers. *)
StopForCaller ==
    IF xf.live
    THEN /\ xf' = [xf EXCEPT !.taken = TRUE, !.winner = NoLeg, !.legs = {}]
         /\ cancels' = cancels \cup xf.legs
    ELSE UNCHANGED <<xf, cancels>>

CallerEnded(again) ==
    /\ callerCb
    /\ callerCb' = again
    /\ StopForCaller
    /\ UNCHANGED <<taskVars, checks, telling, begun, caller, leg, joinSent, legCb, confCb>>

(* conference_event: a start confirms the winner, an end is the caller's. *)
ConferenceStart(again) ==
    /\ "start" \in confCb
    /\ confCb' = IF again THEN confCb ELSE confCb \ {"start"}
    /\ xf' = IF xf.live /\ xf.winner # NoLeg THEN [xf EXCEPT !.connected = TRUE] ELSE xf
    /\ UNCHANGED <<taskVars, checks, telling, begun, cancels, caller, leg, joinSent,
                   legCb, callerCb>>

ConferenceEnd(again) ==
    /\ "end" \in confCb
    /\ confCb' = IF again THEN confCb ELSE confCb \ {"end"}
    /\ StopForCaller
    /\ UNCHANGED <<taskVars, checks, telling, begun, caller, leg, joinSent, legCb, callerCb>>

(* An hour later another caller's transfer sweeps this one out of the map. *)
Sweep ==
    /\ xf.live /\ pc = "done" /\ timer = "done"
    /\ telling = {} /\ checks = {} /\ cancels = {} /\ timerLegs = {}
    /\ xf' = [xf EXCEPT !.live = FALSE]
    /\ UNCHANGED <<taskVars, checks, telling, begun, cancels, networkVars>>

-----------------------------------------------------------------------------
Network ==
    \/ CallerHangsUp
    \/ \E n \in Numbers : LegRings(n) \/ LegPicksUp(n) \/ LegHangsUp(n) \/ SummaryEnds(n)
    \/ CallbackIsLost

TransferTask ==
    \/ BeginTransfer \/ Redirected \/ RedirectFails
    \/ \E n \in Numbers : Dial(n)
    \/ DialOk \/ DialErr \/ AllDialed \/ NoneRung

Requests ==
    \/ \E c \in Causes : Fallback(c)
    \/ \E n \in Numbers : Cancel(n)

Webhooks ==
    \E again \in BOOLEAN :
        \/ \E n \in Numbers : Answered(n, again) \/ LegEnded(n, again)
        \/ CallerEnded(again) \/ ConferenceStart(again) \/ ConferenceEnd(again)

(* When everything has settled nothing is left to do. *)
Settled ==
    /\ pc = "done" /\ timer \in {"off", "done"} /\ ~xf.live
    /\ caller = "gone" /\ ~callerCb /\ legCb = {} /\ confCb = {}
    /\ telling = {} /\ checks = {} /\ cancels = {} /\ timerLegs = {}
    /\ \A n \in Numbers : leg[n] \in {"none", "over"}
    /\ UNCHANGED vars

Next ==
    \/ Network \/ TransferTask \/ Requests \/ Webhooks
    \/ \E t \in Numbers \cup {NoLeg} : GiveUpIfAllFailed(t)
    \/ Timeout \/ Sweep \/ Settled

Spec == Init /\ [][Next]_vars

(* The server's tasks run, a request in flight completes, the deadline
   passes, a delivered answer webhook is handled, and a summary comes to its
   end.  Nobody has to pick up, refuse or hang up. *)
Fairness ==
    /\ WF_vars(TransferTask)
    /\ WF_vars(Timeout)
    /\ WF_vars(\E t \in Numbers \cup {NoLeg} : GiveUpIfAllFailed(t))
    /\ \A c \in Causes : WF_vars(Fallback(c))
    /\ \A n \in Numbers : WF_vars(Cancel(n)) /\ WF_vars(SummaryEnds(n))
    /\ \A n \in Numbers : WF_vars(Answered(n, FALSE))

FairSpec == Spec /\ Fairness

-----------------------------------------------------------------------------
(***************************************************************************)
(* Properties.                                                             *)
(***************************************************************************)

(* Whatever the order of answers, retries, refusals and the deadline, at most
   one leg is ever given the join TwiML of desk.rs `answered`: two operators
   never meet in one caller's conference. *)
OneOperator == \A m, n \in joinSent : m = n

(* The deadline, a refusal of the last number and an operator lost during the
   summary are exclusive: together they tell the caller at most once. *)
EventsTellOnce ==
    \A c, d \in Causes \ {"tail"} :
        /\ begun[c] <= 1
        /\ begun[c] = 1 /\ begun[d] = 1 => c = d

(* Once anyone began to tell the caller that no one is available, no leg is
   given the caller any more. *)
NoJoinAfterTold ==
    [][(\E c \in Causes : begun[c] > 0) => joinSent' = joinSent]_vars

(* A confirmed conversation is not torn apart: neither the deadline nor a late
   or repeated leg callback begins a fallback once the conference start of
   the winner was recorded. *)
ConnectedIsLeftAlone ==
    [][xf.connected => \A c \in Causes \ {"tail"} : begun'[c] = begun[c]]_vars

(* The lifecycle the record stands for. *)
Phase ==
    IF pc = "idle" THEN "none"
    ELSE IF ~xf.live \/ (xf.taken /\ xf.winner = NoLeg) THEN "closed"
    ELSE IF ~xf.taken THEN "offered"
    ELSE IF xf.connected THEN "connected" ELSE "claimed"

Operator == IF xf.live THEN xf.winner ELSE NoLeg

H == INSTANCE Handoff WITH Operators <- Numbers, Nobody <- NoLeg,
                           phase <- Phase, operator <- Operator

(* Seen through Phase and Operator, every step of every task and webhook is a
   step of the abstract transfer or leaves it alone: a claimed caller never
   changes operators and a closed transfer is never revived. *)
ImplementsHandoff == H!Spec

(* The inductive invariant behind the safety properties: while the call is
   not taken nobody was told and nobody was given the caller, and an
   unconfirmed winner is the only leg that was given the caller. *)
Claims ==
    /\ pc = "idle" =>
         ~xf.live /\ joinSent = {} /\ \A c \in Causes : begun[c] = 0
    /\ xf.live /\ ~xf.taken =>
         /\ xf.winner = NoLeg /\ ~xf.connected
         /\ joinSent = {} /\ \A c \in Causes : begun[c] = 0
    /\ xf.live /\ xf.winner # NoLeg => joinSent = {xf.winner}
    /\ xf.live /\ xf.winner # NoLeg /\ ~xf.connected =>
         \A c \in Causes \ {"tail"} : begun[c] = 0

(* A caller on hold is told, gone or talking to an operator in the end: the
   deadline covers every dial, refusal and lost callback. *)
Talking == caller = "hold" /\ Joined # {}
CallerIsServed == []<>(caller = "hold" => Talking)

(* "a dispatcher is never left alone in it": an operator who is in the
   conference without the caller is released in the end, without having to
   hang up. *)
NotLeftAlone ==
    []<>(caller = "hold" \/ \A n \in Numbers : leg[n] # "joined")

(* "the others are cancelled": once the call is taken, a leg that is not the
   winner's stops ringing without having to ring out. *)
OthersStopRinging ==
    []<>(xf.taken => \A n \in Numbers \ {xf.winner} : leg[n] # "ringing")
=============================================================================
