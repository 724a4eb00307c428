----------------------------- MODULE TalkProofs -----------------------------
(***************************************************************************)
(* Proofs about the conversation's patience and its places as MCTalk runs  *)
(* them.  Patience is extended, so its results are of its own              *)
(* specification; P is Places, and its results are of TalkSpec.            *)
(***************************************************************************)
EXTENDS MCTalk, TLAPS

-----------------------------------------------------------------------------
(* Patience, for every number of reprompts and every length of the ladder.    *)
(* The counters stay within their bounds only because each of them ends or    *)
(* hands over the call when it gets there, so the type invariant is not       *)
(* inductive by itself: Bounded says where the counters of a call that goes   *)
(* on can be, and that no silence is counted twice.                           *)

ConfigIsNatural == MaxReprompts \in Nat /\ Patient \in Nat /\ Ladder \in Nat

Bounded ==
    Active =>
        /\ count.silence <= MaxReprompts + Patient
        /\ count.silence <= unanswered
        /\ count.level <= Ladder
        /\ count.strikes < Strikes

IInv == TypeOK /\ Bounded

(* Counting a question keeps the counters of an active call. *)
LEMMA AskedType ==
    ASSUME ConfigIsNatural, NEW c \in Counters, NEW how
    PROVE  /\ Asked(c, how) \in Counters
           /\ Asked(c, how).level = c.level
           /\ Asked(c, how).strikes = c.strikes
<1>1. Capped(c.streak) \in 0 .. StuckAfter
  BY DEF Capped, Counters, StuckAfter
<1> QED
  BY <1>1 DEF Asked, Counters, StuckAfter

(* A turn with legal counters leads to a legal state. *)
LEMMA TurnKeeps ==
    ASSUME ConfigIsNatural, TypeOK, NEW c \in Counters,
           NEW p \in {"active", "handing_off", "ending"}, NEW t \in Tasks,
           p = "active" => c.level <= Ladder /\ c.strikes < Strikes,
           Turn(c, p, t), offered' \in BOOLEAN, doubted' \in BOOLEAN
    PROVE  IInv'
<1>1. count' = [c EXCEPT !.silence = 0] /\ phase' = p /\ task' = t /\ unanswered' = 0
      /\ waiting' = FALSE /\ apology' = FALSE /\ UNCHANGED <<done, desk, habit>>
  BY DEF Turn, said
<1>2. count' \in Counters /\ count'.silence = 0 /\ count'.level = c.level /\ count'.strikes = c.strikes
  BY <1>1 DEF Counters, ConfigIsNatural
<1>3. TypeOK'
  <2>1. unanswered' \in 0 .. (MaxReprompts + Patient + 1)
    BY <1>1 DEF ConfigIsNatural
  <2>2. waiting' \in BOOLEAN /\ apology' \in BOOLEAN
    BY <1>1
  <2>3. desk' \in BOOLEAN /\ done' \in {"none", "sent", "other"} /\ habit' \in Habits \cup {None}
    BY <1>1, Zenon DEF TypeOK
  <2> QED
    BY <1>1, <1>2, <2>1, <2>2, <2>3, Zenon DEF TypeOK
<1>4. Bounded'
  BY <1>1, <1>2 DEF Bounded, Active, ConfigIsNatural
<1> QED
  BY <1>3, <1>4 DEF IInv

(* Handing over does, whether there is a person, one more round, or neither. *)
LEMMA HandOffKeeps ==
    ASSUME ConfigIsNatural, TypeOK, NEW c \in Counters, c.strikes < Strikes,
           HandOff(c), offered' \in BOOLEAN, doubted' \in BOOLEAN
    PROVE  IInv'
<1> DEFINE again == [c EXCEPT !.restarts = 1, !.level = 0, !.streak = 1]
<1>1. again \in Counters /\ again.level = 0 /\ again.strikes = c.strikes
  <2> DEFINE c1 == [c EXCEPT !.restarts = 1]
             c2 == [c1 EXCEPT !.level = 0]
             c3 == [c2 EXCEPT !.streak = 1]
  <2>1. c1 \in Counters /\ c1.strikes = c.strikes
    BY DEF Counters
  <2>2. c2 \in Counters /\ c2.strikes = c.strikes /\ c2.level = 0
    <3> HIDE DEF c1
    <3> QED  BY <2>1 DEF Counters, ConfigIsNatural
  <2>3. c3 \in Counters /\ c3.strikes = c.strikes /\ c3.level = 0
    <3> HIDE DEF c1, c2
    <3> QED  BY <2>2 DEF Counters, StuckAfter
  <2>4. again = c3
    OBVIOUS
  <2> QED
    <3> HIDE DEF c1, c2, c3, again
    <3> QED  BY <2>3, <2>4
<1>2. 0 <= Ladder /\ task \in Tasks
  BY DEF ConfigIsNatural, TypeOK
<1>3. CASE desk
  BY <1>2, <1>3, TurnKeeps DEF HandOff
<1>4. CASE ~desk /\ c.restarts = 0
  <2>1. Turn(again, "active", task)
    BY <1>4 DEF HandOff
  <2> HIDE DEF again
  <2> QED
    BY <1>1, <1>2, <2>1, TurnKeeps
<1>5. CASE ~desk /\ c.restarts # 0
  BY <1>2, <1>5, TurnKeeps DEF HandOff
<1> QED
  BY <1>3, <1>4, <1>5

(* Every step keeps the counters where a call that goes on may have them. *)
LEMMA StepKeeps ==
    ASSUME ConfigIsNatural, IInv, [Next]_vars
    PROVE  IInv'
<1> USE DEF IInv
<1> DEFINE c0 == [count EXCEPT !.level = 0]
<1>0. /\ c0 \in Counters /\ c0.level = 0 /\ c0.strikes = count.strikes /\ 0 <= Ladder
      /\ task \in Tasks /\ offered \in BOOLEAN /\ doubted \in BOOLEAN /\ count \in Counters
  BY DEF TypeOK, Counters, ConfigIsNatural
<1> HIDE DEF c0
<1>1. ASSUME NEW t \in Tasks, NEW how \in Hows, Understood(t, how)
      PROVE  IInv'
  <2>1. Active /\ Turn(Asked(c0, how), "active", t) /\ offered' = FALSE /\ doubted' = doubted
    BY <1>1 DEF Understood, c0
  <2>2. count.strikes < Strikes
    BY <2>1 DEF Bounded
  <2>3. Asked(c0, how) \in Counters /\ Asked(c0, how).level <= Ladder /\ Asked(c0, how).strikes < Strikes
    BY <1>0, <2>2, AskedType
  <2> QED
    BY <1>0, <2>1, <2>3, TurnKeeps
<1>2. ASSUME NEW t \in Tasks, NEW how \in Hows, NEW bye \in BOOLEAN, AgentTurn(t, how, bye)
      PROVE  IInv'
  <2>1. Active /\ offered' = FALSE /\ doubted' \in BOOLEAN
    BY <1>2, <1>0 DEF AgentTurn, GoodbyeMidTask, InsistsOnGoodbye
  <2>2. \/ Turn(c0, "ending", task) \/ Turn(c0, "handing_off", task)
        \/ Turn(Asked(c0, how), "active", task) \/ Turn(Asked(c0, how), "active", t)
    BY <1>2 DEF AgentTurn, GoodbyeMidTask, InsistsOnGoodbye, c0
  <2>3. count.strikes < Strikes
    BY <2>1 DEF Bounded
  <2>4. Asked(c0, how) \in Counters /\ Asked(c0, how).level <= Ladder /\ Asked(c0, how).strikes < Strikes
    BY <1>0, <2>3, AskedType
  <2>5. offered' \in BOOLEAN
    BY <2>1
  <2>6. CASE Turn(c0, "ending", task)
    BY <1>0, <2>1, <2>5, <2>6, TurnKeeps
  <2>7. CASE Turn(c0, "handing_off", task)
    BY <1>0, <2>1, <2>5, <2>7, TurnKeeps
  <2>8. ASSUME NEW u \in Tasks, Turn(Asked(c0, how), "active", u)
        PROVE  IInv'
    BY <2>1, <2>4, <2>5, <2>8, TurnKeeps
  <2> QED
    BY <1>0, <2>2, <2>6, <2>7, <2>8
<1>3. ASSUME NEW how \in Hows, Fallback(how)
      PROVE  IInv'
  <2> DEFINE c == [count EXCEPT !.level = @ + 1]
  <2>1. Active /\ offered' = FALSE /\ doubted' = doubted
        /\ IF c.level > Ladder THEN HandOff(c) ELSE Turn(Asked(c, how), "active", task)
    BY <1>3 DEF Fallback
  <2>2. count.level <= Ladder /\ count.strikes < Strikes
    BY <2>1 DEF Bounded
  <2>3. c \in Counters /\ c.strikes = count.strikes
    BY <1>0, <2>2 DEF Counters, ConfigIsNatural
  <2> HIDE DEF c
  <2>4. CASE c.level > Ladder
    BY <1>0, <2>1, <2>2, <2>3, <2>4, HandOffKeeps
  <2>5. CASE ~(c.level > Ladder)
    <3>1. c.level <= Ladder
      BY <2>3, <2>5 DEF Counters, ConfigIsNatural
    <3>2. Asked(c, how) \in Counters /\ Asked(c, how).level <= Ladder /\ Asked(c, how).strikes < Strikes
      BY <2>2, <2>3, <3>1, AskedType
    <3> QED
      BY <1>0, <2>1, <2>5, <3>2, TurnKeeps
  <2> QED
    BY <2>4, <2>5
<1>4. ASSUME NEW agent \in BOOLEAN, Curses(agent)
      PROVE  IInv'
  <2> DEFINE c == [count EXCEPT !.strikes = @ + 1, !.level = IF agent THEN 0 ELSE @]
             p == IF c.strikes >= Strikes THEN "ending" ELSE "active"
  <2>1. Active /\ Turn(c, p, task) /\ offered' \in BOOLEAN /\ doubted' = doubted
    BY <1>0, <1>4 DEF Curses
  <2>2. count.level <= Ladder /\ count.strikes < Strikes
    BY <2>1 DEF Bounded
  <2>3. c \in Counters /\ c.level <= Ladder
    <3> DEFINE d == [count EXCEPT !.strikes = @ + 1]
    <3>1. d \in Counters /\ d.level = count.level
      BY <1>0, <2>2 DEF Counters, Strikes
    <3>2. c = [d EXCEPT !.level = IF agent THEN 0 ELSE @]
      OBVIOUS
    <3> HIDE DEF d, c
    <3> QED
      BY <1>0, <2>2, <3>1, <3>2 DEF Counters, ConfigIsNatural
  <2>4. p \in {"active", "handing_off", "ending"} /\ (p = "active" => c.strikes < Strikes)
    <3>1. c.strikes \in Nat
      <4> HIDE DEF c
      <4> QED  BY <2>3 DEF Counters
    <3> HIDE DEF c
    <3> QED
      BY <3>1 DEF Strikes
  <2> HIDE DEF c, p
  <2> QED
    BY <1>0, <2>1, <2>3, <2>4, TurnKeeps
<1>5. ASSUME NEW m, Meta(m)
      PROVE  IInv'
  <2> DEFINE c == IF m = "again" /\ count.streak > 0 THEN Asked(count, "same") ELSE count
  <2>1. Active /\ Turn(c, "active", task) /\ offered' = offered /\ doubted' = doubted
    BY <1>5 DEF Meta
  <2>2. count.level <= Ladder /\ count.strikes < Strikes
    BY <2>1 DEF Bounded
  <2>3. c \in Counters /\ c.level <= Ladder /\ c.strikes < Strikes
    BY <1>0, <2>2, AskedType
  <2> HIDE DEF c
  <2> QED
    BY <1>0, <2>1, <2>3, TurnKeeps
<1>6. CASE Waits
  <2>1. Active /\ count' = [count EXCEPT !.silence = 0] /\ unanswered' = 0
    BY <1>6 DEF Waits
  <2>2. count' \in Counters /\ count'.silence = 0 /\ count'.level = count.level /\ count'.strikes = count.strikes
    BY <1>0, <2>1 DEF Counters, ConfigIsNatural
  <2>3. unanswered' \in 0 .. (MaxReprompts + Patient + 1) /\ 0 <= MaxReprompts + Patient
    BY <2>1 DEF ConfigIsNatural
  <2>4. TypeOK'
    BY <1>6, <2>2, <2>3, Zenon DEF Waits, TypeOK, said
  <2> QED
    BY <2>1, <2>2, <2>3, <2>4 DEF Bounded, Active
<1>7. ASSUME NEW ok \in BOOLEAN, ActionEnds(ok)
      PROVE  IInv'
  <2>1. /\ Active /\ UNCHANGED <<phase, unanswered>>
        /\ \E how \in {"same", "other"} : count' = Asked(count, how)
    BY <1>7 DEF ActionEnds
  <2>2. /\ count' \in Counters /\ count'.silence = count.silence /\ count'.level = count.level
        /\ count'.strikes = count.strikes
    BY <1>0, <2>1 DEF Counters, Asked, Capped, StuckAfter
  <2>3. done' \in {"none", "sent", "other"} /\ task' \in Tasks /\ offered' \in BOOLEAN
    BY <1>7 DEF ActionEnds, Tasks, TypeOK
  <2>4. TypeOK'
    BY <1>7, <2>2, <2>3, Zenon DEF ActionEnds, TypeOK
  <2> QED
    BY <2>1, <2>2, <2>4 DEF Bounded, Active
<1>8. ASSUME NEW hello \in BOOLEAN, OnNoise(hello)
      PROVE  IInv'
  <2>1. apology' \in BOOLEAN
    BY <1>8 DEF OnNoise, TypeOK
  <2>2. UNCHANGED <<phase, task, offered, count, waiting, doubted, unanswered, done, desk, habit>>
    BY <1>8 DEF OnNoise, said
  <2>3. TypeOK'
    BY <2>1, <2>2, Zenon DEF TypeOK
  <2> QED
    BY <2>2, <2>3 DEF Bounded, Active
<1>9. CASE OnSilence
  <2>1. CASE offered /\ task = "none" /\ done = "sent"
    <3>1. phase' = "ending" /\ count' = count /\ waiting' = FALSE
      BY <1>9, <2>1 DEF OnSilence
    <3>2. unanswered' \in 0 .. (MaxReprompts + Patient + 1)
      BY <1>9 DEF OnSilence, TypeOK, ConfigIsNatural
    <3>3. TypeOK'
      BY <1>9, <3>1, <3>2, Zenon DEF OnSilence, TypeOK, said
    <3> QED
      BY <3>1, <3>3 DEF Bounded, Active
  <2>2. CASE ~(offered /\ task = "none" /\ done = "sent")
    <3> DEFINE n == count.silence + 1
               patient == IF task = "filled" THEN Patient ELSE 0
    <3>1. /\ Active /\ count' = [count EXCEPT !.silence = n] /\ waiting' = FALSE
          /\ phase' = IF n > MaxReprompts + patient THEN "ending" ELSE "active"
          /\ unanswered' = IF unanswered <= MaxReprompts + Patient THEN unanswered + 1 ELSE unanswered
      BY <1>9, <2>2 DEF OnSilence
    <3>2. count.silence <= MaxReprompts + Patient /\ count.silence <= unanswered /\ count.level <= Ladder
          /\ count.strikes < Strikes
      BY <3>1 DEF Bounded
    <3>3. count' \in Counters /\ count'.silence = n /\ count'.level = count.level /\ count'.strikes = count.strikes
      BY <1>0, <3>1, <3>2 DEF Counters, ConfigIsNatural
    <3>4. unanswered' \in 0 .. (MaxReprompts + Patient + 1) /\ n <= unanswered'
      BY <1>0, <3>1, <3>2 DEF TypeOK, ConfigIsNatural, Counters
    <3>5. phase' \in {"active", "handing_off", "ending"}
      BY <3>1
    <3>6. TypeOK'
      BY <1>9, <3>1, <3>3, <3>4, <3>5, Zenon DEF OnSilence, TypeOK, said
    <3>7. phase' = "active" => n <= MaxReprompts + Patient
      BY <1>0, <3>1 DEF Counters, ConfigIsNatural
    <3> QED
      BY <3>2, <3>3, <3>4, <3>6, <3>7 DEF Bounded, Active
  <2> QED
    BY <2>1, <2>2
<1>10. CASE OnClosing
  <2>1. phase' = "ending" /\ phase' # "active" /\ offered' = FALSE
    BY <1>10 DEF OnClosing
  <2>2. TypeOK'
    BY <1>10, <2>1, Zenon DEF OnClosing, TypeOK
  <2> QED
    BY <2>1, <2>2 DEF Bounded, Active
<1>11. ASSUME NEW h \in Habits, Becomes(h)
       PROVE  IInv'
  <2>1. TypeOK'
    BY <1>11, Zenon DEF Becomes, TypeOK
  <2> QED
    BY <1>11, <2>1 DEF Becomes, Bounded, Active
<1>12. CASE UNCHANGED vars
  BY <1>12 DEF vars, TypeOK, Bounded, Active
<1> QED
  BY <1>0, <1>1, <1>2, <1>3, <1>4, <1>5, <1>6, <1>7, <1>8, <1>9, <1>10, <1>11, <1>12
  DEF Next, Swears, ActionReturns

(* The counters of Patience are what they claim to be in every state of a call. *)
THEOREM Invariant ==
    ASSUME ConfigIsNatural
    PROVE  Spec => []IInv
<1>1. Init => IInv
  <2> SUFFICES ASSUME Init
               PROVE  IInv
    OBVIOUS
  <2>1. count \in Counters /\ count.silence = 0 /\ count.level = 0 /\ count.strikes = 0
    BY DEF Init, ConfigIsNatural, Counters, Strikes, StuckAfter
  <2>2. unanswered = 0 /\ 0 \in 0 .. (MaxReprompts + Patient + 1) /\ 0 <= MaxReprompts + Patient /\ 0 <= Ladder
    BY DEF Init, ConfigIsNatural
  <2>3. TypeOK
    BY <2>1, <2>2 DEF Init, TypeOK, Tasks
  <2> QED
    BY <2>1, <2>2, <2>3 DEF IInv, Bounded, Strikes
<1>2. IInv /\ [Next]_vars => IInv'
  BY StepKeeps
<1> QED
  BY <1>1, <1>2, PTL DEF Spec

(* A call does not go on after a second curse, whichever of the two paths of a  *)
(* turn each of them came by (SecondCurseEnds; refuse_profanity in engine.rs).  *)
THEOREM SecondCurseEndsHolds ==
    ASSUME ConfigIsNatural
    PROVE  Spec => []SecondCurseEnds
<1>1. IInv => SecondCurseEnds
  BY DEF IInv, Bounded, SecondCurseEnds
<1> QED
  BY <1>1, Invariant, PTL

(* With details given, silence ends the call only after every reprompt, the   *)
(* patient ones included, went unanswered (DetailsAreWaitedFor; on_silence).  *)
THEOREM DetailsAreWaitedForHolds ==
    ASSUME ConfigIsNatural
    PROVE  Spec => DetailsAreWaitedFor
<1>1. IInv => WaitedFor
  <2> SUFFICES ASSUME IInv, OnSilence, phase' = "ending", task = "filled"
               PROVE  unanswered' > MaxReprompts + Patient
    BY DEF WaitedFor
  <2>1. Active /\ count.silence + 1 > MaxReprompts + Patient
        /\ unanswered' = IF unanswered <= MaxReprompts + Patient THEN unanswered + 1 ELSE unanswered
    BY DEF OnSilence
  <2>2. count.silence <= unanswered
    BY <2>1 DEF IInv, Bounded
  <2>3. count.silence \in Nat /\ unanswered \in Nat /\ MaxReprompts + Patient \in Nat
    BY DEF IInv, TypeOK, Counters, ConfigIsNatural
  <2> QED
    BY <2>1, <2>2, <2>3
<1>2. IInv /\ [Next]_vars => [WaitedFor]_vars
  BY <1>1
<1>3. Spec => []IInv
  BY Invariant
<1> QED
  BY <1>2, <1>3, PTL DEF Spec, DetailsAreWaitedFor

-----------------------------------------------------------------------------
(* Places, for any cities and any number of misses.  Each of the three        *)
(* outcomes of a lookup is looked at by itself: what value it can leave the   *)
(* slot with.  Nothing about the notes is needed, so both results hold        *)
(* whatever was noted, joined or corrected before.                            *)

(* A place found: a town alone only where no street is needed, and never as unverified. *)
LEMMA FoundValue ==
    ASSUME NEW l, NEW w
    PROVE  LET v == P!CheckFound(l, w).val
           IN  \/ v = val
               \/ v.kind \in {"none", "within"}
               \/ v.kind = "town" /\ ~cfg.precise
<1> DEFINE n == IF l.kind = "address" THEN [note EXCEPT !.doubtedNumber = FALSE] ELSE note
           town == l.kind \in {"town", "numbered_town"}
<1>1. CASE town /\ w.heard = "second" /\ ~note.townChecked
  BY <1>1 DEF P!CheckFound, P!Reject
<1>2. CASE /\ ~(town /\ w.heard = "second" /\ ~note.townChecked)
           /\ ~town /\ l.kind # "landmark" /\ w.heard = "second" /\ ~note.streetChecked
  BY <1>2 DEF P!CheckFound, P!Reject
<1>3. CASE /\ ~(town /\ w.heard = "second" /\ ~note.townChecked)
           /\ ~(~town /\ l.kind # "landmark" /\ w.heard = "second" /\ ~note.streetChecked)
  <2>1. CASE l.kind = "numbered_town"
    BY <1>3, <2>1 DEF P!CheckFound, P!Reject
  <2>2. CASE l.kind # "numbered_town" /\ town /\ (cfg.precise \/ note.city # l.city)
    <3>1. P!CheckFound(l, w).val = P!NoteTown(l.city).val
      BY <1>3, <2>2 DEF P!CheckFound
    <3>2. P!NoteTown(l.city).val \in {val, P!NoPlace}
      BY DEF P!NoteTown
    <3> QED
      BY <3>1, <3>2 DEF P!NoPlace
  <2>3. CASE /\ l.kind # "numbered_town" /\ ~(town /\ (cfg.precise \/ note.city # l.city))
             /\ l.kind = "street" /\ ~note.numberAsked /\ cfg.number
    BY <1>3, <2>3 DEF P!CheckFound, P!Reject
  <2>4. CASE /\ l.kind # "numbered_town" /\ ~(town /\ (cfg.precise \/ note.city # l.city))
             /\ ~(l.kind = "street" /\ ~note.numberAsked /\ cfg.number)
    <3>1. P!CheckFound(l, w).val = [kind |-> IF town THEN "town" ELSE "within", city |-> l.city]
      BY <1>3, <2>4 DEF P!CheckFound, P!Take
    <3>2. town => ~cfg.precise
      BY <2>4
    <3> QED
      BY <3>1, <3>2
  <2> QED
    BY <2>1, <2>2, <2>3, <2>4
<1> QED
  BY <1>1, <1>2, <1>3

(* A place not found: taken as said only after a doubt, or with nobody to ask. *)
LEMMA NotFoundValue ==
    ASSUME NEW l, NEW w, NEW v \in {P!CheckNoCity(w).val, P!CheckNoStreet(l, w).val}
    PROVE  \/ v = val
           \/ v.kind = "within"
           \/ v.kind = "unverified" /\ (note.doubted \/ P!GiveUp)
<1>1. P!CheckNoCity(w).val = val \/ (P!CheckNoCity(w).val = [kind |-> "unverified", city |-> None] /\ P!GiveUp)
  BY DEF P!CheckNoCity, P!Reject, P!Take
<1>2. \/ P!CheckNoStreet(l, w).val = val
      \/ /\ P!CheckNoStreet(l, w).val = [kind |-> IF w.trait = "informal" THEN "within" ELSE "unverified", city |-> l.city]
         /\ w.trait = "informal" \/ note.doubted
  BY DEF P!CheckNoStreet, P!Reject, P!Take
<1>3. CASE v = P!CheckNoCity(w).val
  BY <1>1, <1>3
<1>4. CASE v = P!CheckNoStreet(l, w).val
  BY <1>2, <1>4
<1> QED
  BY <1>3, <1>4

(* What a step may make of the slot. *)
LEMMA StepValue ==
    ASSUME P!Next
    PROVE  /\ cfg' = cfg
           /\ \/ val' = val
              \/ val'.kind \in {"none", "within"}
              \/ val'.kind = "town" /\ ~cfg.precise
              \/ val'.kind = "unverified" /\ (note.doubted \/ P!GiveUp)
<1>0. PICK w \in P!Words : \E l \in P!Lookups(w) : P!AgentPasses(w, l) \/ P!RulesPass(w, l)
  BY DEF P!Next
<1>1. PICK l \in P!Lookups(w) : P!AgentPasses(w, l) \/ P!RulesPass(w, l)
  BY <1>0
<1>2. cfg' = cfg
  BY <1>1 DEF P!AgentPasses, P!RulesPass
<1>3. val' = val \/ val' = P!CheckPlace(l, w).val
  BY <1>1 DEF P!AgentPasses, P!RulesPass, P!Reject
<1>4. l.is \in {"found", "no_city", "no_street"}
  BY DEF P!Lookups, P!Found, P!NoStreet, P!NoCity, P!Within, P!OfStreet
<1>5. CASE l.is = "found"
  <2>1. P!CheckPlace(l, w) = P!CheckFound(l, w)
    BY <1>5 DEF P!CheckPlace
  <2> QED
    BY <1>2, <1>3, <2>1, FoundValue
<1>6. CASE l.is = "no_city"
  <2>1. P!CheckPlace(l, w) = P!CheckNoCity(w)
    BY <1>6 DEF P!CheckPlace
  <2> QED
    BY <1>2, <1>3, <2>1, NotFoundValue
<1>7. CASE l.is = "no_street"
  <2>1. P!CheckPlace(l, w) = P!CheckNoStreet(l, w)
    BY <1>7 DEF P!CheckPlace
  <2> QED
    BY <1>2, <1>3, <2>1, NotFoundValue
<1> QED
  BY <1>4, <1>5, <1>6, <1>7

(* A step of the places is a step of TalkNext in their part. *)
LEMMA PlacesMove ==
    ASSUME [TalkNext]_allVars, part' = "places"
    PROVE  part = "places" /\ (P!Next \/ UNCHANGED P!vars)
<1>1. part = "places"
  BY DEF TalkNext, StepPlaces, StepPatience, StepQuestions, allVars
<1> QED
  BY <1>1 DEF TalkNext, StepPlaces, StepPatience, StepQuestions, allVars, placeVars, P!vars

(* A place that needs its street is never taken as a town alone (StreetIsThere;  *)
(* check_place of engine.rs), for any gazetteer answer.                          *)
THEOREM StreetIsThereHolds == TalkSpec => []StreetIsThere
<1>1. TalkInit => StreetIsThere
  BY DEF TalkInit, StreetIsThere, P!Init, P!StreetIsThere, P!NoPlace
<1>2. StreetIsThere /\ [TalkNext]_allVars => StreetIsThere'
  <2> SUFFICES ASSUME StreetIsThere, [TalkNext]_allVars, part' = "places"
               PROVE  P!StreetIsThere'
    BY DEF StreetIsThere
  <2>1. part = "places" /\ P!StreetIsThere
    BY PlacesMove DEF StreetIsThere
  <2>2. CASE P!Next
    BY <2>1, <2>2, StepValue DEF P!StreetIsThere
  <2>3. CASE UNCHANGED P!vars
    BY <2>1, <2>3 DEF P!StreetIsThere, P!vars
  <2> QED
    BY <2>2, <2>3, PlacesMove
<1> QED
  BY <1>1, <1>2, PTL DEF TalkSpec

(* A place nobody could find is taken as said only after the caller was asked   *)
(* about it, or with nobody to ask (UnverifiedWasDoubted; check_place).          *)
THEOREM UnverifiedWasDoubtedHolds == TalkSpec => UnverifiedWasDoubted
<1>1. [TalkNext]_allVars => [part = "places" => P!DoubtedFirst]_allVars
  <2> SUFFICES ASSUME TalkNext, part = "places", val'.kind = "unverified", val' # val
               PROVE  note.doubted \/ P!GiveUp
    BY DEF P!DoubtedFirst
  <2>1. P!Next
    BY DEF TalkNext, StepPlaces, StepPatience, StepQuestions
  <2> QED
    BY <2>1, StepValue
<1> QED
  BY <1>1, PTL DEF TalkSpec, UnverifiedWasDoubted
=============================================================================
