----------------------------- MODULE MCListening -----------------------------
(***************************************************************************)
(* How the caller is heard, for model checking, part by part: a behaviour  *)
(* is about one `part`, and the variables of the others stand still.  Ears *)
(* finds the voice, Hearing has it transcribed, Deciding brings the words  *)
(* to the engine.                                                          *)
(***************************************************************************)
EXTENDS Hearing

CONSTANTS
    Modes, MaxMail, MaxIdle,
    MaxLevel, Threshold0, Trigger, MaxSpeech, EndpointShort, Endpoint, EndpointLong, Confirm,
    ConfirmGreeting, ConfirmReadBack, MinVoiced, MinWords, SingleWord, Strong, StrongRatio

VARIABLES
    part,   \* the component this behaviour is about
    mode, heard, talking, idle, unfinished, second, hearings, pend, asking, mail, turn, taken,
        dropped, said,
    speech, silence, voice, length, loudness, threshold, partial, busy, phase, pending, voiced,
        words, murmur, reason, theirs, steady

decidingVars == <<mode, heard, talking, idle, unfinished, second, hearings, pend, asking, mail,
        turn, taken, dropped, said>>
earsVars == <<speech, silence, voice, length, loudness, threshold, partial, busy, phase, pending,
        voiced, words, murmur, reason, theirs, steady>>
allVars == <<part, vars, decidingVars, earsVars>>

D == INSTANCE Deciding WITH speaking <- talking, task <- asking
E == INSTANCE Ears WITH speaking <- voice, spoken <- length, listening <- murmur

-----------------------------------------------------------------------------
(* A component that is not looked at stays as it is; Hearing where a call begins. *)

HearingOff == Init /\ ~down
DecidingOff ==
    /\ mode = None /\ heard = None /\ talking = None /\ idle = None /\ unfinished = None
    /\ second = None /\ hearings = None /\ pend = None /\ asking = None /\ mail = None
    /\ turn = None /\ taken = None /\ dropped = None /\ said = None
EarsOff ==
    /\ speech = None /\ silence = None /\ voice = None /\ length = None /\ loudness = None
    /\ threshold = None /\ partial = None /\ busy = None /\ phase = None /\ pending = None
    /\ voiced = None /\ words = None /\ murmur = None /\ reason = None /\ theirs = None
    /\ steady = None

StepHearing(A) ==
    /\ part = "hearing" /\ A
    /\ UNCHANGED <<part, decidingVars, earsVars>>
StepDeciding(A) ==
    /\ part = "deciding" /\ A
    /\ UNCHANGED <<part, vars, earsVars>>
StepEars(A) ==
    /\ part = "ears" /\ A
    /\ UNCHANGED <<part, vars, decidingVars>>

ListeningInit ==
    \/ part = "hearing" /\ Init /\ DecidingOff /\ EarsOff
    \/ part = "deciding" /\ D!Init /\ HearingOff /\ EarsOff
    \/ part = "ears" /\ E!Init /\ HearingOff /\ DecidingOff

ListeningNext ==
    \/ StepHearing(Next)
    \/ StepDeciding(D!Next)
    \/ StepEars(E!Next)

\* The fairness of each module's own specification; the parts never meet, so one condition
\* serves several of them.
ListeningFairness ==
    /\ WF_allVars(StepHearing(Connecting) \/ StepDeciding(D!Deliver) \/ StepEars(E!GoesOn))
    /\ WF_allVars(StepHearing(FinalOverdue) \/ StepDeciding(D!TaskSends))
    /\ WF_allVars(StepHearing(Final) \/ StepDeciding(D!SecondHears))
    /\ WF_allVars(StepDeciding(D!SpeechEnds))
    /\ SF_allVars(StepDeciding(D!UnfinishedDue))

ListeningSpec == ListeningInit /\ [][ListeningNext]_allVars /\ ListeningFairness

-----------------------------------------------------------------------------
(* Hearing's properties are its own: of a call that begins they hold.  Those  *)
(* of the others are stated there, and hold of their part.                    *)

\* Deciding: words are never dropped, and never with the engine twice.
WordsKept == part = "deciding" => D!WordsKept

\* Deciding: what the caller says is answered.
EveryWordIsAnswered ==
    []<>(part = "deciding" => \A u \in 1 .. heard : u \in D!Elements(taken) \cup dropped)

\* Ears: a noise that does not change is learned, and starts no more speech.
SteadyNoiseIsLearned == <>[](part = "ears" /\ steady # E!Unsettled => ~voice)

\* Ears: an interruption by words is by words of this voice.
OwnWordsInterrupt == part = "ears" => E!OwnWordsInterrupt
=============================================================================
