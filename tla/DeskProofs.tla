----------------------------- MODULE DeskProofs -----------------------------
(***************************************************************************)
(* Proofs about Desk.tla, for any set of desk numbers and any reliability  *)
(* of the network.                                                         *)
(*                                                                         *)
(* Every safety property rests on one inductive invariant, Claims: the     *)
(* record's `taken`, `winner` and `connected` decide what the outside has  *)
(* been told.  The network's own steps leave all of that alone, so the     *)
(* work is in the critical sections of the server.                         *)
(***************************************************************************)
EXTENDS Desk, TLAPS

(* What the safety properties look at. *)
watched == <<pc, xf, begun, joinSent>>

(* Leaving the watched variables alone leaves all properties alone. *)
Quiet == UNCHANGED watched

(* Moving the caller keeps the types of everything the network keeps. *)
LEMMA CallerMovesType ==
    ASSUME TypeOK, NEW w \in {"hold", "told", "gone"}, CallerMoves(w)
    PROVE  /\ caller' \in {"agent", "hold", "told", "gone"}
           /\ leg' \in [Numbers -> LegStates]
           /\ legCb' \subseteq Numbers
           /\ callerCb' \in BOOLEAN
           /\ confCb' \subseteq {"start", "end"}
<1>1. CASE caller = "gone"
  BY <1>1 DEF TypeOK, CallerMoves
<1>2. CASE caller # "gone" /\ caller = "hold"
  BY <1>2 DEF TypeOK, CallerMoves, LegsEnd, LegStates, Joined
<1>3. CASE caller # "gone" /\ caller # "hold"
  BY <1>3 DEF TypeOK, CallerMoves
<1> QED
  BY <1>1, <1>2, <1>3

(* Beginning a fallback keeps the types of its bookkeeping. *)
LEMMA BeginTellingType ==
    ASSUME TypeOK, NEW c \in Causes, BeginTelling(c)
    PROVE  telling' \subseteq Causes /\ begun' \in [Causes -> Nat]
  BY DEF TypeOK, BeginTelling

(* Closing the transfer for the caller keeps the record's type. *)
LEMMA StopForCallerType ==
    ASSUME TypeOK, StopForCaller
    PROVE  xf' \in Transfer /\ cancels' \subseteq Numbers
<1>1. CASE xf.live
  <2>1. xf' = [xf EXCEPT !.taken = TRUE, !.winner = NoLeg, !.legs = {}]
    BY <1>1 DEF StopForCaller
  <2>2. xf' \in Transfer
    BY <2>1 DEF TypeOK, Transfer
  <2>3. cancels' = cancels \cup xf.legs
    BY <1>1 DEF StopForCaller
  <2> QED
    BY <2>2, <2>3 DEF TypeOK, Transfer
<1>2. CASE ~xf.live
  BY <1>2 DEF StopForCaller, TypeOK
<1> QED
  BY <1>1, <1>2

(* The four things that can begin a fallback, as the provers need them. *)
LEMMA CausesAre ==
    "tail" \in Causes /\ "timer" \in Causes /\ "refused" \in Causes /\ "abandoned" \in Causes
  BY DEF Causes

(* The type invariant of Desk.tla, for every value of the constants. *)
THEOREM TypeCorrect == Spec => []TypeOK
<1>1. Init => TypeOK
  <2> SUFFICES ASSUME Init PROVE TypeOK
    OBVIOUS
  <2>1. xf \in Transfer
    BY DeskAssumption DEF Init, Transfer, NewTransfer
  <2>2. begun \in [Causes -> Nat] /\ leg \in [Numbers -> LegStates]
    BY DEF Init, LegStates
  <2> QED
    BY <2>1, <2>2 DEF Init, TypeOK
<1>2. TypeOK /\ [Next]_vars => TypeOK'
  <2> SUFFICES ASSUME TypeOK, [Next]_vars PROVE TypeOK'
    OBVIOUS
  <2>1. CASE Network
    <3>1. CASE CallerHangsUp
      BY <3>1, CallerMovesType DEF CallerHangsUp, TypeOK, serverVars
    <3>2. ASSUME NEW n \in Numbers, LegRings(n) \/ LegPicksUp(n) PROVE TypeOK'
      BY <3>2 DEF LegRings, LegPicksUp, TypeOK, serverVars, LegStates
    <3>3. ASSUME NEW n \in Numbers, LegHangsUp(n) PROVE TypeOK'
      <4>1. CASE leg[n] = "joined" /\ caller = "hold"
        BY <3>3, <4>1, CallerMovesType DEF LegHangsUp, TypeOK, serverVars
      <4>2. CASE ~(leg[n] = "joined" /\ caller = "hold")
        BY <3>3, <4>2 DEF LegHangsUp, TypeOK, serverVars, LegsEnd, LegStates
      <4> QED
        BY <4>1, <4>2
    <3>4. ASSUME NEW n \in Numbers, SummaryEnds(n) PROVE TypeOK'
      BY <3>4 DEF SummaryEnds, TypeOK, serverVars, LegStates
    <3>5. CASE CallbackIsLost
      BY <3>5 DEF CallbackIsLost, TypeOK, serverVars
    <3> QED
      BY <2>1, <3>1, <3>2, <3>3, <3>4, <3>5 DEF Network
  <2>2. CASE TransferTask
    <3>1. CASE BeginTransfer
      BY <3>1, DeskAssumption DEF BeginTransfer, TypeOK, networkVars, NewTransfer, Transfer
    <3>2. CASE Redirected
      BY <3>2 DEF Redirected, TypeOK
    <3>3. CASE RedirectFails
      BY <3>3, CallerMovesType DEF RedirectFails, TypeOK, Transfer
    <3>4. ASSUME NEW n \in Numbers, Dial(n) PROVE TypeOK'
      BY <3>4 DEF Dial, TypeOK, networkVars
    <3>5. CASE DialOk
      BY <3>5 DEF DialOk, TypeOK, networkVars, Transfer
    <3>6. CASE DialErr
      BY <3>6 DEF DialErr, TypeOK, networkVars
    <3>7. CASE AllDialed
      BY <3>7 DEF AllDialed, TypeOK, networkVars, Transfer
    <3>8. CASE NoneRung
      <4>1. xf' \in Transfer
        BY <3>8 DEF NoneRung, TypeOK, Transfer
      <4>2. telling' \subseteq Causes /\ begun' \in [Causes -> Nat]
        BY <3>8, BeginTellingType, CausesAre DEF NoneRung, TypeOK
      <4> QED
        BY <3>8, <4>1, <4>2 DEF NoneRung, TypeOK, networkVars
    <3> QED
      BY <2>2, <3>1, <3>2, <3>3, <3>4, <3>5, <3>6, <3>7, <3>8 DEF TransferTask
  <2>3. CASE Requests
    <3>1. ASSUME NEW c \in Causes, Fallback(c) PROVE TypeOK'
      BY <3>1, CallerMovesType DEF Fallback, TypeOK
    <3>2. ASSUME NEW n \in Numbers, Cancel(n) PROVE TypeOK'
      <4>1. CASE leg[n] = "joined" /\ caller = "hold"
        BY <3>2, <4>1, CallerMovesType DEF Cancel, TypeOK
      <4>2. CASE ~(leg[n] = "joined" /\ caller = "hold")
        BY <3>2, <4>2 DEF Cancel, TypeOK, LegsEnd, LegStates
      <4> QED
        BY <4>1, <4>2
    <3> QED
      BY <2>3, <3>1, <3>2 DEF Requests
  <2>4. CASE Webhooks
    <3>1. ASSUME NEW n \in Numbers, NEW b \in BOOLEAN, Answered(n, b) PROVE TypeOK'
      <4>1. xf' \in Transfer
        <5>1. UNCHANGED xf \/ xf' = [xf EXCEPT !.taken = TRUE, !.winner = n]
          BY <3>1 DEF Answered
        <5> QED
          BY <5>1 DEF TypeOK, Transfer
      <4>3. cancels' \subseteq Numbers /\ joinSent' \subseteq Numbers
        BY <3>1 DEF Answered, TypeOK, Transfer
      <4>2. leg' \in [Numbers -> LegStates] /\ legCb' \subseteq Numbers
        BY <3>1 DEF Answered, TypeOK, LegsEnd, LegStates
      <4> QED
        BY <3>1, <4>1, <4>2, <4>3 DEF Answered, TypeOK, taskVars
    <3>2. ASSUME NEW n \in Numbers, NEW b \in BOOLEAN, LegEnded(n, b) PROVE TypeOK'
      <4>1. xf' \in Transfer /\ checks' \subseteq Numbers \cup {NoLeg}
        BY <3>2 DEF LegEnded, TypeOK, Transfer
      <4>2. telling' \subseteq Causes /\ begun' \in [Causes -> Nat]
        BY <3>2, BeginTellingType, CausesAre DEF LegEnded, TypeOK
      <4>3. legCb' \subseteq Numbers
        BY <3>2 DEF LegEnded, TypeOK
      <4> QED
        BY <3>2, <4>1, <4>2, <4>3 DEF LegEnded, TypeOK, taskVars
    <3>3. ASSUME NEW b \in BOOLEAN, CallerEnded(b) PROVE TypeOK'
      <4>1. xf' \in Transfer /\ cancels' \subseteq Numbers
        BY <3>3, StopForCallerType DEF CallerEnded
      <4> QED
        BY <3>3, <4>1 DEF CallerEnded, TypeOK, taskVars
    <3>4. ASSUME NEW b \in BOOLEAN, ConferenceStart(b) PROVE TypeOK'
      <4>1. UNCHANGED xf \/ xf' = [xf EXCEPT !.connected = TRUE]
        BY <3>4 DEF ConferenceStart
      <4>2. xf' \in Transfer
        BY <4>1 DEF TypeOK, Transfer
      <4> QED
        BY <3>4, <4>2 DEF ConferenceStart, TypeOK, taskVars
    <3>5. ASSUME NEW b \in BOOLEAN, ConferenceEnd(b) PROVE TypeOK'
      <4>1. xf' \in Transfer /\ cancels' \subseteq Numbers
        BY <3>5, StopForCallerType DEF ConferenceEnd
      <4> QED
        BY <3>5, <4>1 DEF ConferenceEnd, TypeOK, taskVars
    <3> QED
      BY <2>4, <3>1, <3>2, <3>3, <3>4, <3>5 DEF Webhooks
  <2>5. ASSUME NEW t \in Numbers \cup {NoLeg}, GiveUpIfAllFailed(t) PROVE TypeOK'
    <3>1. xf' \in Transfer
      BY <2>5 DEF GiveUpIfAllFailed, TypeOK, Transfer
    <3>2. telling' \subseteq Causes /\ begun' \in [Causes -> Nat]
      BY <2>5, BeginTellingType, CausesAre DEF GiveUpIfAllFailed, TypeOK
    <3> QED
      BY <2>5, <3>1, <3>2 DEF GiveUpIfAllFailed, TypeOK, taskVars, networkVars
  <2>6. CASE Timeout
    <3>1. xf' \in Transfer /\ timerLegs' \subseteq Numbers
      <4>1. CASE UNCHANGED <<xf, timerLegs>>
        BY <4>1 DEF TypeOK
      <4>2. CASE /\ xf' = [xf EXCEPT !.taken = TRUE, !.winner = NoLeg, !.legs = {}]
                 /\ timerLegs' = xf.legs
        BY <4>2 DEF TypeOK, Transfer
      <4> QED
        BY <2>6, <4>1, <4>2 DEF Timeout
    <3>2. telling' \subseteq Causes /\ begun' \in [Causes -> Nat]
      BY <2>6, BeginTellingType, CausesAre DEF Timeout, TypeOK
    <3> QED
      BY <2>6, <3>1, <3>2 DEF Timeout, TypeOK, networkVars
  <2>7. CASE Sweep
    BY <2>7 DEF Sweep, TypeOK, taskVars, networkVars, Transfer
  <2>8. CASE Settled \/ UNCHANGED vars
    BY <2>8 DEF Settled, TypeOK, vars, serverVars, networkVars
  <2> QED
    BY <2>1, <2>2, <2>3, <2>4, <2>5, <2>6, <2>7, <2>8 DEF Next
<1> QED
  BY <1>1, <1>2, PTL DEF Spec

-----------------------------------------------------------------------------
(* What the network does and what requests in flight do is not watched. *)
LEMMA NetworkIsQuiet == Network \/ Requests => Quiet
<1>1. Network => Quiet
  BY DEF Network, CallerHangsUp, LegRings, LegPicksUp, LegHangsUp, SummaryEnds,
         CallbackIsLost, Quiet, watched, serverVars
<1>2. Requests => Quiet
  BY DEF Requests, Fallback, Cancel, Quiet, watched
<1> QED
  BY <1>1, <1>2

(* A step that is not quiet is one of the server's critical sections. *)
LEMMA NextCases ==
    ASSUME [Next]_vars
    PROVE  \/ Quiet
           \/ BeginTransfer \/ RedirectFails \/ Redirected \/ DialOk \/ AllDialed \/ NoneRung
           \/ \E n \in Numbers : \E b \in BOOLEAN : Answered(n, b) \/ LegEnded(n, b)
           \/ \E b \in BOOLEAN : CallerEnded(b) \/ ConferenceStart(b) \/ ConferenceEnd(b)
           \/ \E t \in Numbers \cup {NoLeg} : GiveUpIfAllFailed(t)
           \/ Timeout \/ Sweep
<1>1. (\E n \in Numbers : Dial(n)) \/ DialErr => Quiet
  BY DEF Dial, DialErr, Quiet, watched, networkVars
<1>2. Settled \/ UNCHANGED vars => Quiet
  BY DEF Settled, Quiet, watched, vars, serverVars, networkVars
<1> QED
  BY <1>1, <1>2, NetworkIsQuiet DEF Next, TransferTask, Webhooks

(* Claims is inductive: what a critical section decides under the lock is
   what the outside may have been told. *)
THEOREM ClaimsHold == Spec => []Claims
<1>1. Init => Claims
  BY DEF Init, Claims, NewTransfer
<1>2. TypeOK /\ Claims /\ [Next]_vars => Claims'
  <2> SUFFICES ASSUME TypeOK, Claims, [Next]_vars PROVE Claims'
    OBVIOUS
  <2> USE CausesAre, DeskAssumption
  <2>1. CASE Quiet
    BY <2>1 DEF Quiet, watched, Claims
  <2>2. CASE BeginTransfer
    BY <2>2 DEF BeginTransfer, Claims, NewTransfer, networkVars
  <2>3. CASE Redirected
    BY <2>3 DEF Redirected, Claims
  <2>4. CASE RedirectFails
    BY <2>4 DEF RedirectFails, Claims, TypeOK, Transfer
  <2>5. CASE DialOk
    BY <2>5 DEF DialOk, Claims, TypeOK, Transfer, networkVars
  <2>6. CASE AllDialed
    BY <2>6 DEF AllDialed, Claims, TypeOK, Transfer, networkVars
  <2>7. CASE NoneRung
    BY <2>7 DEF NoneRung, Claims, TypeOK, Transfer, networkVars, BeginTelling
  <2>8. ASSUME NEW n \in Numbers, NEW b \in BOOLEAN, Answered(n, b) PROVE Claims'
    <3>1. UNCHANGED <<pc, begun>>
      BY <2>8 DEF Answered, taskVars
    <3>2. CASE xf.live /\ xf.winner = n
      <4>1. UNCHANGED <<xf, joinSent>>
        BY <2>8, <3>2 DEF Answered, Claims
      <4> QED
        BY <3>1, <4>1 DEF Claims
    <3>3. CASE ~(xf.live /\ xf.winner = n) /\ MayTake(n)
      <4>1. /\ xf' = [xf EXCEPT !.taken = TRUE, !.winner = n]
            /\ joinSent' = joinSent \cup {n}
        BY <2>8, <3>3 DEF Answered
      <4>2. joinSent = {} /\ ~xf.connected /\ pc # "idle" /\ \A c \in Causes : begun[c] = 0
        BY <3>3 DEF MayTake, Claims
      <4>3. xf'.taken /\ xf'.winner = n /\ joinSent' = {n}
        BY <4>1, <4>2 DEF TypeOK, Transfer
      <4> QED
        BY <3>1, <4>2, <4>3 DEF Claims
    <3>4. CASE ~(xf.live /\ xf.winner = n) /\ ~MayTake(n)
      BY <2>8, <3>1, <3>4 DEF Answered, Claims
    <3> QED
      BY <3>2, <3>3, <3>4
  <2>9. ASSUME NEW n \in Numbers, NEW b \in BOOLEAN, LegEnded(n, b) PROVE Claims'
    BY <2>9 DEF LegEnded, BeginTelling, Claims, TypeOK, Transfer, taskVars
  <2>10. ASSUME NEW b \in BOOLEAN, CallerEnded(b) \/ ConferenceEnd(b) PROVE Claims'
    BY <2>10 DEF CallerEnded, ConferenceEnd, StopForCaller, Claims, TypeOK, Transfer, taskVars
  <2>11. ASSUME NEW b \in BOOLEAN, ConferenceStart(b) PROVE Claims'
    BY <2>11 DEF ConferenceStart, Claims, TypeOK, Transfer, taskVars
  <2>12. ASSUME NEW t \in Numbers \cup {NoLeg}, GiveUpIfAllFailed(t) PROVE Claims'
    BY <2>12 DEF GiveUpIfAllFailed, BeginTelling, Claims, TypeOK, Transfer, taskVars, networkVars
  <2>13. CASE Timeout
    <3>1. UNCHANGED <<pc, joinSent>>
      BY <2>13 DEF Timeout, networkVars
    <3>2. CASE UNCHANGED <<xf, begun>>
      BY <3>1, <3>2 DEF Claims
    <3>3. CASE xf.live /\ xf' = [xf EXCEPT !.taken = TRUE, !.winner = NoLeg, !.legs = {}]
      <4>1. xf'.live /\ xf'.taken /\ xf'.winner = NoLeg
        BY <3>3 DEF TypeOK, Transfer
      <4>2. pc # "idle"
        BY <3>3 DEF Claims
      <4> QED
        BY <3>1, <4>1, <4>2 DEF Claims
    <3> QED
      BY <2>13, <3>2, <3>3 DEF Timeout
  <2>14. CASE Sweep
    BY <2>14 DEF Sweep, Claims, TypeOK, Transfer, taskVars, networkVars
  <2> QED
    BY <2>1, <2>2, <2>3, <2>4, <2>5, <2>6, <2>7, <2>8, <2>9, <2>10, <2>11, <2>12,
       <2>13, <2>14, NextCases
<1> QED
  BY <1>1, <1>2, TypeCorrect, PTL DEF Spec

(* A leg is only given the caller when it is, or becomes, the winner; this
   is the step behind OneOperator and NoJoinAfterTold. *)
LEMMA OnlyTheWinnerJoins ==
    ASSUME TypeOK, Claims, [Next]_vars, joinSent' # joinSent
    PROVE  /\ joinSent = {} /\ \E n \in Numbers : joinSent' = {n}
           /\ \A c \in Causes : begun[c] = 0
<1>1. PICK n \in Numbers, b \in BOOLEAN : Answered(n, b)
  BY NextCases DEF Quiet, watched, BeginTransfer, Redirected, RedirectFails, DialOk, AllDialed,
     NoneRung, LegEnded, CallerEnded, ConferenceStart, ConferenceEnd, GiveUpIfAllFailed,
     Timeout, Sweep, networkVars
<1>2. joinSent' = joinSent \cup {n} /\ (MayTake(n) \/ (xf.live /\ xf.winner = n))
  BY <1>1 DEF Answered
<1>3. ~(xf.live /\ xf.winner = n)
  BY <1>2, DeskAssumption DEF Claims
<1> QED
  BY <1>2, <1>3 DEF MayTake, Claims

(* At most one leg is ever given the caller (OneOperator). *)
THEOREM OneOperatorHolds == Spec => []OneOperator
<1>1. Init => OneOperator
  BY DEF Init, OneOperator
<1>2. TypeOK /\ Claims /\ OneOperator /\ [Next]_vars => OneOperator'
  BY OnlyTheWinnerJoins DEF OneOperator
<1> QED
  BY <1>1, <1>2, TypeCorrect, ClaimsHold, PTL DEF Spec

(* Nobody is given a caller who has been told (NoJoinAfterTold). *)
THEOREM NoJoinAfterToldHolds == Spec => NoJoinAfterTold
<1>1. TypeOK /\ Claims /\ [Next]_vars =>
        [(\E c \in Causes : begun[c] > 0) => joinSent' = joinSent]_vars
  BY OnlyTheWinnerJoins
<1> QED
  BY <1>1, TypeCorrect, ClaimsHold, PTL DEF Spec, NoJoinAfterTold

Events == Causes \ {"tail"}

(* Only three critical sections begin a fallback of an event, and each finds
   that no event began one before and that nobody is connected. *)
LEMMA TellingStep ==
    ASSUME TypeOK, Claims, [Next]_vars, NEW c \in Events, begun'[c] # begun[c]
    PROVE  /\ \A d \in Events : begun[d] = 0
           /\ ~xf.connected
           /\ begun' = [begun EXCEPT ![c] = 1]
<1> USE DEF Events
<1>1. PICK e \in Causes : BeginTelling(e)
  BY NextCases, CausesAre DEF Quiet, watched, BeginTransfer, Redirected, RedirectFails, DialOk,
     AllDialed, NoneRung, Answered, LegEnded, CallerEnded, ConferenceStart, ConferenceEnd,
     GiveUpIfAllFailed, Timeout, Sweep
<1>2. e = c
  BY <1>1 DEF BeginTelling, TypeOK
<1>3. xf.live /\ (~xf.taken \/ (xf.winner # NoLeg /\ ~xf.connected))
  BY <1>1, <1>2, NextCases, DeskAssumption DEF Quiet, watched, BeginTransfer, Redirected, RedirectFails, DialOk,
     AllDialed, NoneRung, BeginTelling, Answered, LegEnded, CallerEnded, ConferenceStart, ConferenceEnd,
     GiveUpIfAllFailed, Timeout, Sweep, TypeOK
<1>4. (\A d \in Events : begun[d] = 0) /\ ~xf.connected
  BY <1>3 DEF Claims
<1>5. begun' = [begun EXCEPT ![c] = begun[c] + 1]
  BY <1>1, <1>2 DEF BeginTelling
<1>6. begun[c] + 1 = 1
  BY <1>4
<1> QED
  BY <1>4, <1>5, <1>6

(* The deadline, the last refusal and the lost operator tell the caller at
   most once between them (EventsTellOnce). *)
THEOREM EventsTellOnceHolds == Spec => []EventsTellOnce
<1>1. Init => EventsTellOnce
  BY DEF Init, EventsTellOnce
<1>2. TypeOK /\ Claims /\ EventsTellOnce /\ [Next]_vars /\ TypeOK' => EventsTellOnce'
  <2> SUFFICES ASSUME TypeOK, Claims, EventsTellOnce, [Next]_vars, TypeOK' PROVE EventsTellOnce'
    OBVIOUS
  <2>1. CASE \E c \in Events : begun'[c] # begun[c]
    BY <2>1, TellingStep DEF EventsTellOnce, Events, TypeOK
  <2>2. CASE \A c \in Events : begun'[c] = begun[c]
    BY <2>2 DEF EventsTellOnce, Events
  <2> QED
    BY <2>1, <2>2
<1> QED
  BY <1>1, <1>2, TypeCorrect, ClaimsHold, PTL DEF Spec

(* No event tears a confirmed conversation apart (ConnectedIsLeftAlone). *)
THEOREM ConnectedIsLeftAloneHolds == Spec => ConnectedIsLeftAlone
<1>1. TypeOK /\ Claims /\ [Next]_vars =>
        [xf.connected => \A c \in Causes \ {"tail"} : begun'[c] = begun[c]]_vars
  BY TellingStep DEF Events
<1> QED
  BY <1>1, TypeCorrect, ClaimsHold, PTL DEF Spec, ConnectedIsLeftAlone

-----------------------------------------------------------------------------
(* The detailed transfer implements the abstract one: each critical section
   is a step of Handoff or a stutter (ImplementsHandoff). *)
THEOREM DeskImplementsHandoff == Spec => ImplementsHandoff
<1>1. Init => H!Init
  BY DEF Init, H!Init, Phase, Operator, NewTransfer
<1>2. TypeOK /\ Claims /\ [Next]_vars => [H!Next]_(H!vars)
  <2> SUFFICES ASSUME TypeOK, Claims, [Next]_vars PROVE [H!Next]_(H!vars)
    OBVIOUS
  <2> USE DeskAssumption DEF H!Next, H!vars, H!Offer, H!Claim, H!Connect, H!Close, Phase, Operator
  <2>1. CASE Quiet
    BY <2>1 DEF Quiet, watched
  <2>2. CASE BeginTransfer
    BY <2>2 DEF BeginTransfer, NewTransfer, Claims
  <2>3. CASE Redirected
    BY <2>3 DEF Redirected
  <2>4. CASE RedirectFails
    BY <2>4 DEF RedirectFails, TypeOK, Transfer
  <2>5. CASE DialOk
    BY <2>5 DEF DialOk, TypeOK, Transfer
  <2>6. CASE AllDialed
    BY <2>6 DEF AllDialed, TypeOK, Transfer
  <2>7. CASE NoneRung
    BY <2>7 DEF NoneRung, TypeOK, Transfer, Claims
  <2>8. ASSUME NEW n \in Numbers, NEW b \in BOOLEAN, Answered(n, b) PROVE [H!Next]_(H!vars)
    <3>1. UNCHANGED pc
      BY <2>8 DEF Answered, taskVars
    <3>2. CASE UNCHANGED xf
      BY <3>1, <3>2
    <3>3. CASE MayTake(n) /\ xf' = [xf EXCEPT !.taken = TRUE, !.winner = n]
      <4>1. xf'.live /\ xf'.taken /\ xf'.winner = n /\ ~xf'.connected
        BY <3>3 DEF MayTake, TypeOK, Transfer, Claims
      <4>2. xf.live /\ ~xf.taken /\ pc # "idle"
        BY <3>3 DEF MayTake, Claims
      <4> QED
        BY <3>1, <4>1, <4>2
    <3> QED
      BY <2>8, <3>2, <3>3 DEF Answered
  <2>9. ASSUME NEW n \in Numbers, NEW b \in BOOLEAN, LegEnded(n, b) PROVE [H!Next]_(H!vars)
    BY <2>9 DEF LegEnded, TypeOK, Transfer, Claims, taskVars
  <2>10. ASSUME NEW b \in BOOLEAN, CallerEnded(b) \/ ConferenceEnd(b) PROVE [H!Next]_(H!vars)
    BY <2>10 DEF CallerEnded, ConferenceEnd, StopForCaller, TypeOK, Transfer, Claims, taskVars
  <2>11. ASSUME NEW b \in BOOLEAN, ConferenceStart(b) PROVE [H!Next]_(H!vars)
    BY <2>11 DEF ConferenceStart, TypeOK, Transfer, Claims, taskVars
  <2>12. ASSUME NEW t \in Numbers \cup {NoLeg}, GiveUpIfAllFailed(t) PROVE [H!Next]_(H!vars)
    BY <2>12 DEF GiveUpIfAllFailed, TypeOK, Transfer, Claims, taskVars
  <2>13. CASE Timeout
    <3>1. UNCHANGED pc
      BY <2>13 DEF Timeout
    <3>2. CASE UNCHANGED xf
      BY <3>1, <3>2
    <3>3. CASE /\ xf.live /\ (~xf.taken \/ (xf.winner # NoLeg /\ ~xf.connected))
               /\ xf' = [xf EXCEPT !.taken = TRUE, !.winner = NoLeg, !.legs = {}]
      <4>1. xf'.live /\ xf'.taken /\ xf'.winner = NoLeg
        BY <3>3 DEF TypeOK, Transfer
      <4> QED
        BY <3>1, <3>3, <4>1 DEF Claims
    <3> QED
      BY <2>13, <3>2, <3>3 DEF Timeout
  <2>14. CASE Sweep
    BY <2>14 DEF Sweep, TypeOK, Transfer, Claims, taskVars
  <2> QED
    BY <2>1, <2>2, <2>3, <2>4, <2>5, <2>6, <2>7, <2>8, <2>9, <2>10, <2>11, <2>12,
       <2>13, <2>14, NextCases
<1> QED
  BY <1>1, <1>2, TypeCorrect, ClaimsHold, PTL DEF Spec, ImplementsHandoff, H!Spec
=============================================================================
