-------------------------------- MODULE Ears --------------------------------
(***************************************************************************)
(* Who is talking (callora-audio vad.rs, callora-runtime barge.rs and the  *)
(* audio half of session/hearing.rs): the energy of the caller's track     *)
(* starts and ends speech, a steady noise is learned and becomes the       *)
(* threshold, and a voice over the agent interrupts it or not.             *)
(*                                                                         *)
(* Time is counted in frames and loudness in whole levels.  A frame's      *)
(* `voice` is what RNNoise makes of it: 0 no voice (or drowned in the      *)
(* background), 1 enough to go on, 2 enough to start; energy alone is 2.   *)
(***************************************************************************)
EXTENDS Naturals

CONSTANTS
    MaxLevel, Threshold0,                        \* loudness, and the configured threshold
    Trigger, MaxSpeech,                          \* speech that counts; speech too long to be speech
    EndpointShort, Endpoint, EndpointLong,       \* the silence that ends an utterance
    Confirm, ConfirmGreeting, ConfirmReadBack,   \* a voice this long interrupts
    MinVoiced, MinWords, SingleWord, Strong,     \* words and loudness that interrupt sooner
    StrongRatio                                  \* how many times the threshold is loud

VARIABLES
    speech, silence, speaking,   \* Vad
    spoken, loudness,            \* speaking_ms and the sum of its frames' levels
    threshold,                   \* times Scale
    partial,                     \* last_partial: "none", "unfinished", "short" or "other"
    busy, phase,                 \* the agent speaks, and what; "normal" while it does not
    pending, voiced,             \* barge_pending, voiced_ms
    words, listening,            \* barge_words
    reason,                      \* why the last step interrupted the agent, or "none"
    theirs,                      \* history: real words were heard since this voice began
    steady                       \* the frame the line has settled on: a noise that does not change

vars == <<speech, silence, speaking, spoken, loudness, threshold, partial, busy, phase, pending, voiced,
          words, listening, reason, theirs, steady>>

\* Silence has no voice in it.
Frames == {f \in [level : 0 .. MaxLevel, voice : 0 .. 2] : f.level = 0 => f.voice = 0}
Unsettled == [level |-> 0, voice |-> 3]
\* The threshold after a steady noise is 1.2 times its mean over MaxSpeech frames.
Scale == 5 * MaxSpeech
Phases == {"normal", "greeting", "read_back"}

Least(a, b) == IF a < b THEN a ELSE b
Most(a, b) == IF a > b THEN a ELSE b

-----------------------------------------------------------------------------
(* barge::classify, over what is known of the voice.                          *)

ConfirmFor(p) == CASE p = "normal" -> Confirm [] p = "greeting" -> ConfirmGreeting [] OTHER -> ConfirmReadBack

\* mean_rms >= threshold * strong_rms_ratio, with nothing divided.  The floor below which no
\* voice is loud, strong_min_rms, is left out: it only makes fewer of them loud.
Loud(sum, n, thr) == n > 0 /\ sum * Scale >= thr * StrongRatio * n

Classify(v, w, quiet, loud) ==
    IF v >= ConfirmFor(phase) THEN "voiced"
    ELSE IF quiet THEN "none"
    ELSE IF (w >= Most(MinWords, 1) /\ v >= MinVoiced) \/ (w >= 1 /\ v >= SingleWord) THEN "words"
    ELSE IF Strong > 0 /\ phase # "greeting" /\ v >= Strong /\ loud THEN "loud"
    ELSE "none"

-----------------------------------------------------------------------------
(* Session::on_audio: Vad::push_with, then what starts and ends with speech,  *)
(* then the voice over the agent.                                             *)

\* adapt_endpoint: by what has been heard, once the caller pauses.
EndpointNow ==
    IF ~speaking \/ silence = 0 THEN Endpoint
    ELSE CASE partial = "unfinished" -> EndpointLong [] partial = "short" -> EndpointShort [] OTHER -> Endpoint

Voiced(f) == f.level * Scale >= threshold /\ f.voice >= IF speaking THEN 1 ELSE 2

Steady(f) == speaking /\ spoken + 1 >= MaxSpeech
Started(sp) == ~speaking /\ sp >= Trigger
Ended(f, sil) == speaking /\ (Steady(f) \/ sil >= EndpointNow)

(* Mutant: speech that is too long ends, and nothing is learned of it.        *)
PushLearnsNothing(f) ==
    LET sp == IF Voiced(f) THEN Least(speech + 1, 2 * Trigger) ELSE IF speech > 2 THEN speech - 2 ELSE 0
        sil == IF Voiced(f) THEN 0 ELSE Least(silence + 1, EndpointLong)
    IN  /\ speech' = IF Ended(f, sil) THEN 0 ELSE sp
        /\ silence' = IF Steady(f) THEN 0 ELSE sil
        /\ speaking' = (Started(sp) \/ (speaking /\ ~Ended(f, sil)))
        /\ spoken' = IF Started(sp) THEN 0 ELSE IF speaking THEN spoken + 1 ELSE spoken
        /\ loudness' = IF Started(sp) THEN 0 ELSE IF speaking THEN loudness + f.level ELSE loudness
        /\ UNCHANGED threshold

Push(f) ==
    LET sp == IF Voiced(f) THEN Least(speech + 1, 2 * Trigger) ELSE IF speech > 2 THEN speech - 2 ELSE 0
        sil == IF Voiced(f) THEN 0 ELSE Least(silence + 1, EndpointLong)
    IN  /\ speech' = IF Ended(f, sil) THEN 0 ELSE sp
        /\ silence' = IF Steady(f) THEN 0 ELSE sil
        /\ speaking' = (Started(sp) \/ (speaking /\ ~Ended(f, sil)))
        /\ spoken' = IF Started(sp) THEN 0 ELSE IF speaking THEN spoken + 1 ELSE spoken
        /\ loudness' = IF Started(sp) THEN 0 ELSE IF speaking THEN loudness + f.level ELSE loudness
        /\ threshold' = IF Steady(f) THEN Most(threshold, 6 * (loudness + f.level)) ELSE threshold

\* What belongs to an utterance is forgotten when the next begins.
Begins == ~speaking /\ speaking'
Ends == speaking /\ ~speaking'

Bargein(cut) ==
    /\ reason' = cut
    /\ busy' = (busy /\ cut = "none")
    /\ phase' = IF cut = "none" THEN phase ELSE "normal"

(* Mutant: the words of the last voice are still there when the next begins.   *)
AudioKeepsWords(f) ==
    /\ steady \in {Unsettled, f}
    /\ Push(f)
    /\ partial' = IF Begins THEN "none" ELSE partial
    /\ UNCHANGED <<words, listening, steady>>
    /\ theirs' = (theirs /\ ~Begins)
    /\ voiced' = Least((IF Begins THEN 0 ELSE voiced) + (IF speaking' THEN 1 ELSE 0), ConfirmGreeting)
    /\ LET heard == (pending \/ (Begins /\ busy)) /\ ~Ends
           cut == IF heard /\ busy
                    THEN Classify(voiced', words', listening', Loud(loudness', spoken', threshold')) ELSE "none"
       IN  Bargein(cut) /\ pending' = (heard /\ busy /\ cut = "none")

Audio(f) ==
    /\ steady \in {Unsettled, f}
    /\ Push(f)
    /\ partial' = IF Begins THEN "none" ELSE partial
    /\ words' = IF Begins THEN 0 ELSE words
    /\ listening' = (listening /\ ~Begins)
    /\ theirs' = (theirs /\ ~Begins)
    /\ voiced' = Least((IF Begins THEN 0 ELSE voiced) + (IF speaking' THEN 1 ELSE 0), ConfirmGreeting)
    /\ LET heard == (pending \/ (Begins /\ busy)) /\ ~Ends
           cut == IF heard /\ busy
                    THEN Classify(voiced', words', listening', Loud(loudness', spoken', threshold')) ELSE "none"
       IN  /\ Bargein(cut)
           /\ pending' = (heard /\ busy /\ cut = "none")
    /\ UNCHANGED steady

\* A partial transcript, with real words, none, or only listening sounds.  The last transcript
\* of a voice, weighed once more when it comes after the voice ended, is left out.
Partial(text, w, quiet) ==
    /\ partial' = text
    /\ theirs' = (theirs \/ w > 0)
    /\ IF pending
         THEN LET cut == IF busy THEN Classify(voiced, w, quiet, Loud(loudness, spoken, threshold)) ELSE "none"
              IN  /\ words' = IF busy THEN w ELSE words
                  /\ listening' = IF busy THEN quiet ELSE listening
                  /\ Bargein(cut) /\ pending' = (busy /\ cut = "none")
         ELSE Bargein("none") /\ UNCHANGED <<words, listening, pending>>
    /\ UNCHANGED <<speech, silence, speaking, spoken, loudness, threshold, voiced, steady>>

Heard == {<<"short", 0, TRUE>>, <<"short", 1, FALSE>>, <<"unfinished", 2, FALSE>>,
          <<"other", 0, FALSE>>, <<"other", 2, FALSE>>}

\* The agent starts to say something, and stops.
AgentSpeaks ==
    /\ ~busy /\ busy' = TRUE /\ phase' \in Phases
    /\ reason' = "none"
    /\ UNCHANGED <<speech, silence, speaking, spoken, loudness, threshold, partial, pending, voiced, words,
                   listening, theirs, steady>>

AgentEnds ==
    /\ busy /\ busy' = FALSE /\ phase' = "normal" /\ reason' = "none"
    /\ UNCHANGED <<speech, silence, speaking, spoken, loudness, threshold, partial, pending, voiced, words,
                   listening, theirs, steady>>

\* From here on the line carries one noise only.
Settles(f) ==
    /\ steady = Unsettled /\ steady' = f /\ reason' = "none"
    /\ UNCHANGED <<speech, silence, speaking, spoken, loudness, threshold, partial, busy, phase, pending, voiced,
                   words, listening, theirs>>

Init ==
    /\ speech = 0 /\ silence = 0 /\ speaking = FALSE /\ spoken = 0 /\ loudness = 0
    /\ threshold = Threshold0 * Scale /\ partial = "none" /\ busy = FALSE /\ phase = "normal"
    /\ pending = FALSE /\ voiced = 0 /\ words = 0 /\ listening = FALSE /\ reason = "none" /\ theirs = FALSE
    /\ steady = Unsettled

Hears == \E f \in Frames : Audio(f)

Next ==
    \/ Hears
    \/ \E h \in Heard : Partial(h[1], h[2], h[3])
    \/ AgentSpeaks
    \/ AgentEnds
    \/ \E f \in Frames : Settles(f)

\* The caller's track is never without frames: one comes every 20 ms.
GoesOn == steady # Unsettled /\ Audio(steady)
Spec == Init /\ [][Next]_vars /\ WF_vars(GoesOn)

-----------------------------------------------------------------------------
(* Properties.                                                                *)

TypeOK ==
    /\ speech \in 0 .. 2 * Trigger /\ silence \in 0 .. EndpointLong /\ spoken \in 0 .. MaxSpeech
    /\ loudness \in 0 .. MaxLevel * MaxSpeech /\ threshold \in Nat
    /\ {speaking, busy, pending, listening, theirs} \subseteq BOOLEAN
    /\ partial \in {"none", "unfinished", "short", "other"} /\ phase \in Phases
    /\ voiced \in 0 .. ConfirmGreeting /\ words \in 0 .. 2 /\ reason \in {"none", "voiced", "words", "loud"}
    /\ steady \in Frames \cup {Unsettled}

\* A noise that does not change is learned: whatever was said before, the line that carries it
\* alone ends the utterance and never starts another, so the call does not wait for the end of
\* a sentence that never comes.
SteadyNoiseIsLearned == <>[](steady # Unsettled => ~speaking)

\* An interruption by words of a partial transcript is by words of this voice: never by those
\* of an earlier one that was let pass.
OwnWordsInterrupt == reason = "words" => theirs
=============================================================================
