------------------------------- MODULE MCFloor -------------------------------
(***************************************************************************)
(* Whose turn it is and what it makes of the words, for model checking,    *)
(* part by part: a behaviour is about one `part`, and the variables of the *)
(* other stand still.  Floor says who speaks when, Questions what a turn   *)
(* of the language model becomes, with callers who say anything.  The      *)
(* towns are alike, so a call and the same call with them exchanged are    *)
(* one.                                                                    *)
(***************************************************************************)
EXTENDS Floor, TLC

CONSTANTS None, Towns, Callers

VARIABLES
    part,   \* the component this behaviour is about
    call, air, last, done, caller

questionVars == <<call, air, last, done, caller>>

Q == INSTANCE Questions WITH turn <- last

ASSUME NoneAssumption == None \notin Towns \cup Q!Slots

TownsAlike == Permutations(Towns)

StepFloor(A) == part = "floor" /\ A /\ UNCHANGED <<part, questionVars>>
StepQuestions(A) == part = "questions" /\ A /\ UNCHANGED <<part, vars>>

PartsInit ==
    /\ Init
    /\ \/ part = "floor" /\ call = None /\ air = None /\ last = None /\ done = None /\ caller = None
       \/ part = "questions" /\ Q!Init

PartsNext == StepFloor(Next) \/ StepQuestions(Q!Talks)

PartsSpec == PartsInit /\ [][PartsNext]_<<part, vars, questionVars>>

-----------------------------------------------------------------------------
(* NoDeadAir is Floor's; with Floor standing still it says nothing more.      *)

\* Questions: no question goes past a required detail that is missing, but for those it names,
\* the oldest open one asked again among them (on_agent_turn).
AskedInOrder == part = "questions" => Q!AskedInOrder

\* Questions: the answer to a question that was noted is not lost (on_agent_turn).
NotedAnswersAreTaken == [][part = "questions" /\ last'.lost => ~(air \subseteq call.asks)]_questionVars
=============================================================================
