-------------------------------- MODULE MCTalk --------------------------------
(***************************************************************************)
(* Three parts of the conversation engine for model checking, each by      *)
(* itself: a behaviour is about one `part`, and the variables of the       *)
(* others stand still.  Places gets a place out of the caller, Questions   *)
(* every detail out of one who answers, Patience says how long it goes on  *)
(* with one it gets nothing from.                                          *)
(***************************************************************************)
EXTENDS Patience

CONSTANTS Cities, MaxMisses, Towns, Callers

VARIABLES
    part,   \* the component this behaviour is about
    cfg, note, val, handed, words,
    call, air, turn, finished, caller

placeVars == <<cfg, note, val, handed, words>>
questionVars == <<call, air, turn, finished, caller>>
allVars == <<part, vars, placeVars, questionVars>>

P == INSTANCE Places WITH habit <- words
Q == INSTANCE Questions WITH done <- finished

-----------------------------------------------------------------------------
(* A component that is not looked at stays as it is; Patience where a call begins. *)

PlacesOff ==
    /\ cfg = None /\ note = None /\ val = None /\ handed = None /\ words = None
PatienceOff == Init /\ desk
QuestionsOff ==
    /\ call = None /\ air = None /\ turn = None /\ finished = None /\ caller = None

StepPlaces(A) ==
    /\ part = "places" /\ A
    /\ UNCHANGED <<part, vars, questionVars>>
StepPatience(A) ==
    /\ part = "patience" /\ A
    /\ UNCHANGED <<part, placeVars, questionVars>>
StepQuestions(A) ==
    /\ part = "questions" /\ A
    /\ UNCHANGED <<part, vars, placeVars>>

TalkInit ==
    \/ part = "places" /\ P!Init /\ PatienceOff /\ QuestionsOff
    \/ part = "patience" /\ Init /\ PlacesOff /\ QuestionsOff
    \/ part = "questions" /\ Q!Init /\ PlacesOff /\ PatienceOff

TalkNext ==
    \/ StepPlaces(P!Next)
    \/ StepPatience(Next)
    \/ StepQuestions(Q!IsAnswered)

\* The fairness of each module's own specification; the parts never meet, so one condition
\* serves several.
TalkFairness ==
    /\ WF_allVars(StepPlaces(P!Repeats) \/ StepPatience(OnSilence) \/ StepQuestions(Q!IsAnswered))
    /\ WF_allVars(StepPatience(ActionReturns))
    /\ WF_allVars(StepPatience(KeepsItUp))

TalkSpec == TalkInit /\ [][TalkNext]_allVars /\ TalkFairness

-----------------------------------------------------------------------------
(* Patience's properties are its own: while it stands still they say nothing  *)
(* more.  Those of the others are stated there, and hold of their part.       *)

\* Places: a precise place is never taken as a town alone (check_place).
StreetIsThere == part = "places" => P!StreetIsThere

\* Places: a place nobody could find was doubted first, or there is nobody to ask.
UnverifiedWasDoubted == [][part = "places" => P!DoubtedFirst]_allVars

\* Places: a caller who insists on the same words is taken at them, or gets a person.
InsistingEnds == (part = "places" /\ P!Insists) ~> (val # P!NoPlace \/ handed)

\* Questions: a caller who answers every question gives every required detail.
EveryDetailIsCollected ==
    (part = "questions" /\ caller = "answers") ~>
        (part = "questions" /\ Q!Required \subseteq Q!SlotsOf(call.given))
=============================================================================
