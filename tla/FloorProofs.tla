---------------------------- MODULE FloorProofs ----------------------------
(***************************************************************************)
(* The caller is never left in silence: Floor's NoDeadAir, for every bound *)
(* on what is queued and on what is on its way, on a line where nothing    *)
(* goes wrong (no Trouble), with a playout that sounds every item, and     *)
(* with an agent that waits for the whole sentence.                        *)
(*                                                                         *)
(* The argument: whatever a handler leaves behind, either something is     *)
(* under way that will bring another handler (words to be heard, a         *)
(* decision, an action, half a sentence, the end of the call) or the       *)
(* silence timer is on.  That the session's count of what is queued is     *)
(* never more than what the playout has still to report is what makes      *)
(* "words to be heard" true of the playout, and not only of the count.     *)
(*                                                                         *)
(* The second part is about Questions (Q), which the same run checks: its  *)
(* argument stands before its lemmas.                                      *)
(***************************************************************************)
EXTENDS MCFloor, FiniteSetTheorems, SequenceTheorems, TLAPS

-----------------------------------------------------------------------------
(* The inductive invariant.                                                *)

\* The items on their way to the playout.
Enqueues(cs) == Cardinality({i \in 1 .. Len(cs) : cs[i] = "enqueue"})

\* The items whose end is on its way to the session: at most two events are.
Pending(es) ==
    IF es = <<>> THEN 0
    ELSE IF Len(es) = 1 THEN es[1].n ELSE es[1].n + es[2].n

Sent == {"enqueue", "soft"}

Typed ==
    /\ cmds \in Seq(Sent)
    /\ items \in Nat
    /\ queued \in Nat
    /\ actions \in {0, 1}
    /\ agent \in {"none", "turn", "spoke"}

(* The session takes the events before the playout goes on, so they are those
   of one step, and if that step ended the sound the idle is the last. *)
EventsSettle ==
    /\ evs \in Seq(Events) /\ Len(evs) <= 2
    /\ \A i \in 1 .. Len(evs) : evs[i].kind = "idle" => i = Len(evs) /\ evs[i].n = 0
    /\ evs # <<>> => sounding \/ evs[Len(evs)].kind = "idle"

(* What the session counts as queued the playout has still to report. *)
Accounted == queued <= Enqueues(cmds) + items + Pending(evs)

(* A call that is to end has its end under way. *)
EndIsComing == Live /\ after => queued > 0 \/ sounding \/ evs # <<>> \/ terminateNow

(* The question again after speech without words is for a caller who is silent. *)
NoWordsSilent == noWords => ~vad /\ ~heard

(* Nothing is under way, the caller's own voice included, unless it is one of
   which nothing will come. *)
Idling ==
    /\ Live /\ queued = 0 /\ ~sounding /\ evs = <<>>
    /\ agent \in {"none", "spoke"} /\ ~second /\ ~unfinished
    /\ actions = 0 /\ ~terminateNow
    /\ overAgent \/ ~noWords
    /\ vad => heard \/ overAgent

Prompted == Idling => ~after /\ silence

FInv ==
    /\ Typed
    /\ EventsSettle
    /\ Accounted
    /\ EndIsComing
    /\ NoWordsSilent
    /\ Prompted

-----------------------------------------------------------------------------
(* Counting the items on their way.                                        *)

LEMMA EnqueuesType ==
    ASSUME NEW cs \in Seq(Sent)
    PROVE  /\ IsFiniteSet({i \in 1 .. Len(cs) : cs[i] = "enqueue"})
           /\ Enqueues(cs) \in Nat
<1>1. IsFiniteSet(1 .. Len(cs))
  BY FS_Interval
<1>2. IsFiniteSet({i \in 1 .. Len(cs) : cs[i] = "enqueue"})
  BY <1>1, FS_Subset
<1> QED BY <1>2, FS_CardinalityType DEF Enqueues

LEMMA EnqueuesNone == Enqueues(<<>>) = 0
<1>1. {i \in 1 .. Len(<<>>) : <<>>[i] = "enqueue"} = {}
  OBVIOUS
<1> QED BY <1>1, FS_EmptySet DEF Enqueues

LEMMA EnqueuesItem ==
    ASSUME NEW cs \in Seq(Sent)
    PROVE  Enqueues(cs \o <<"enqueue">>) = Enqueues(cs) + 1
<1> DEFINE S == {i \in 1 .. Len(cs) : cs[i] = "enqueue"}
           ds == cs \o <<"enqueue">>
<1>1. Len(ds) = Len(cs) + 1 /\ Len(cs) \in Nat
  OBVIOUS
<1>2. ds[Len(cs) + 1] = "enqueue"
  OBVIOUS
<1>3. \A i \in 1 .. Len(cs) : ds[i] = cs[i]
  OBVIOUS
<1>4. {i \in 1 .. Len(ds) : ds[i] = "enqueue"} = S \cup {Len(cs) + 1}
  BY <1>1, <1>2, <1>3
<1>5. Len(cs) + 1 \notin S
  BY <1>1
<1>6. Cardinality(S \cup {Len(cs) + 1}) = Cardinality(S) + 1
  BY <1>5, EnqueuesType, FS_AddElement
<1> QED BY <1>4, <1>6 DEF Enqueues

LEMMA EnqueuesSoft ==
    ASSUME NEW cs \in Seq(Sent)
    PROVE  Enqueues(cs \o <<"soft">>) = Enqueues(cs)
<1> DEFINE ds == cs \o <<"soft">>
<1>1. Len(ds) = Len(cs) + 1 /\ Len(cs) \in Nat
  OBVIOUS
<1>2. ds[Len(cs) + 1] # "enqueue"
  OBVIOUS
<1>3. \A i \in 1 .. Len(cs) : ds[i] = cs[i]
  OBVIOUS
<1>4. {i \in 1 .. Len(ds) : ds[i] = "enqueue"} = {i \in 1 .. Len(cs) : cs[i] = "enqueue"}
  BY <1>1, <1>2, <1>3
<1> QED BY <1>4 DEF Enqueues

\* Taking the first command takes an item, if it is one.
LEMMA EnqueuesTail ==
    ASSUME NEW cs \in Seq(Sent), cs # <<>>
    PROVE  /\ Tail(cs) \in Seq(Sent)
           /\ Enqueues(cs) = Enqueues(Tail(cs)) + (IF Head(cs) = "enqueue" THEN 1 ELSE 0)
<1> DEFINE ds == Tail(cs)
           S == {i \in 1 .. Len(ds) : ds[i] = "enqueue"}
           T == {i \in 2 .. Len(cs) : cs[i] = "enqueue"}
           f == [i \in S |-> i + 1]
<1>1. /\ Len(cs) \in Nat /\ Len(cs) > 0 /\ Len(ds) = Len(cs) - 1
      /\ ds \in Seq(Sent)
      /\ \A i \in 1 .. Len(ds) : ds[i] = cs[i + 1]
  OBVIOUS
<1>2. f \in [S -> T]
  BY <1>1
<1>3. \A i, j \in S : f[i] = f[j] => i = j
  OBVIOUS
<1>4. \A t \in T : \E i \in S : f[i] = t
  <2> TAKE t \in T
  <2>1. t - 1 \in S
    BY <1>1
  <2>2. f[t - 1] = t
    BY <2>1
  <2> QED BY <2>1, <2>2, Zenon
<1>5. f \in Bijection(S, T)
  BY <1>2, <1>3, <1>4, Zenon DEF Bijection, Injection, Surjection, IsInjective
<1>6. IsFiniteSet(S)
  BY <1>1, EnqueuesType
<1>7. IsFiniteSet(T) /\ Cardinality(T) = Cardinality(S)
  BY <1>5, <1>6, FS_Bijection DEF ExistsBijection
<1>8. CASE Head(cs) = "enqueue"
  <2>1. {i \in 1 .. Len(cs) : cs[i] = "enqueue"} = T \cup {1}
    BY <1>1, <1>8
  <2>2. 1 \notin T
    OBVIOUS
  <2>3. Cardinality(T \cup {1}) = Cardinality(T) + 1
    BY <1>7, <2>2, FS_AddElement
  <2> QED BY <1>1, <1>7, <1>8, <2>1, <2>3 DEF Enqueues
<1>9. CASE Head(cs) # "enqueue"
  <2>1. {i \in 1 .. Len(cs) : cs[i] = "enqueue"} = T
    BY <1>1, <1>9
  <2>2. Enqueues(ds) \in Nat
    BY <1>1, EnqueuesType
  <2>3. Enqueues(cs) = Enqueues(ds)
    BY <1>7, <2>1 DEF Enqueues
  <2> HIDE DEF ds
  <2>4. Enqueues(cs) = Enqueues(ds) + 0
    BY <2>2, <2>3
  <2> QED BY <1>1, <1>9, <2>4 DEF ds
<1> QED BY <1>8, <1>9

-----------------------------------------------------------------------------
(* What the handlers leave behind.                                         *)

(* What was said is on its way and counted. *)
Told ==
    /\ cmds' \in Seq(Sent) /\ queued' \in Nat
    /\ queued' >= queued
    /\ Enqueues(cmds') + queued = Enqueues(cmds) + queued'

(* The same, and if the call is to end its end is under way. *)
EndIs(a, q, t) == a => q > 0 \/ sounding \/ t

(* Nothing is left under way but with the silence timer on. *)
Handled ==
    ~(\/ sounding \/ queued' > 0 \/ agent' = "turn" \/ second' \/ unfinished'
      \/ actions' = 1 \/ terminateNow')
    => ~after' /\ silence'

LEMMA QueueTold ==
    ASSUME Typed, NEW cut \in {<<>>, <<"soft">>}, NEW r, Queue(cut, r)
    PROVE  /\ Told
           /\ "say" \in r => queued' > 0
<1>0. cut \in Seq(Sent)
  <2>1. <<>> \in Seq(Sent) /\ <<"soft">> \in Seq(Sent)
    BY DEF Sent
  <2> QED BY <2>1
<1>1. cmds \in Seq(Sent) /\ cmds \o cut \in Seq(Sent)
  BY <1>0 DEF Typed
<1>2. Enqueues(cmds \o cut) = Enqueues(cmds)
  <2>1. CASE cut = <<>>
    BY <1>1, <2>1
  <2>2. CASE cut = <<"soft">>
    BY <1>1, <2>2, EnqueuesSoft
  <2> QED BY <2>1, <2>2
<1>3. Enqueues(cmds) \in Nat
  BY <1>1, EnqueuesType
<1>4. CASE "say" \in r
  <2>1. cmds' = (cmds \o cut) \o <<"enqueue">> /\ queued' = queued + 1
    BY <1>4 DEF Queue
  <2>2. cmds' \in Seq(Sent)
    BY <1>1, <2>1 DEF Sent
  <2>3. Enqueues(cmds') = Enqueues(cmds) + 1
    BY <1>1, <1>2, <2>1, EnqueuesItem
  <2> QED BY <1>3, <2>1, <2>2, <2>3 DEF Told, Typed
<1>5. CASE "say" \notin r
  <2>1. cmds' = (cmds \o cut) \o <<>> /\ queued' = queued + 0
    BY <1>5 DEF Queue
  <2>2. cmds' = cmds \o cut
    BY <1>1, <2>1
  <2> QED BY <1>1, <1>2, <1>3, <1>5, <2>1, <2>2 DEF Told, Typed
<1> QED BY <1>4, <1>5

LEMMA NothingTold ==
    ASSUME Typed, UNCHANGED <<cmds, queued>>
    PROVE  Told
BY EnqueuesType DEF Told, Typed

\* Session::execute: the end of the call waits for words, or is under way.
LEMMA ExecuteEnds ==
    ASSUME Typed, NEW cut \in {<<>>, <<"soft">>}, NEW r, Execute(cut, r)
    PROVE  /\ Told
           /\ actions' \in {0, 1}
           /\ EndIs(after', queued', terminateNow')
           /\ after' => queued' > 0 \/ terminateNow'
           /\ r = {} => (after' <=> after)
           /\ "say" \in r => queued' > 0
<1>1. Told /\ ("say" \in r => queued' > 0)
  BY QueueTold DEF Execute
<1>2. queued' \in Nat
  BY <1>1 DEF Told
<1>3. actions' \in {0, 1}
  BY DEF Execute, Typed
<1>4. after' => queued' > 0 \/ terminateNow'
  <2>1. CASE queued' = 0
    BY <2>1 DEF Execute
  <2>2. CASE queued' # 0
    BY <1>2, <2>2
  <2> QED BY <2>1, <2>2
<1>5. r = {} => (after' <=> after)
  BY DEF Execute
<1> QED BY <1>1, <1>3, <1>4, <1>5 DEF EndIs

\* What the engine answers always leaves something under way.
LEMMA EngineHandles ==
    ASSUME Typed, NEW cut \in {<<>>, <<"soft">>}, NEW r \in Engine \cup Replies, Execute(cut, r)
    PROVE  queued' > 0 \/ actions' = 1 \/ terminateNow'
<1>1. CASE after
  <2>1. after'
    BY <1>1 DEF Execute
  <2> QED BY <2>1, ExecuteEnds
<1>2. CASE "say" \in r
  BY <1>2, ExecuteEnds
<1>3. CASE "run" \in r
  BY <1>3 DEF Execute, Typed
<1>4. CASE "end" \in r
  <2>1. after'
    BY <1>4 DEF Execute
  <2> QED BY <2>1, ExecuteEnds
<1>5. after \/ "say" \in r \/ "run" \in r \/ "end" \in r
  BY DEF Engine, Replies
<1> QED BY <1>1, <1>2, <1>3, <1>4, <1>5

(* What a transcript's handler does to the turn and to what is queued. *)
Took ==
    /\ Told
    /\ actions' \in {0, 1}
    /\ agent' \in {"none", "turn", "spoke"}
    /\ EndIs(after', queued', terminateNow')
    /\ Handled

\* on_noise: with nothing to say, the silence reprompt waits.
LEMMA NoiseTakes ==
    ASSUME Typed, EndIs(after, queued, terminateNow), OnNoise,
           agent' \in {"none", "turn", "spoke"}
    PROVE  Took
<1>1. CASE Busy /\ UNCHANGED <<cmds, mouth, timers>>
  BY <1>1, NothingTold DEF Took, Handled, EndIs, Busy, mouth, Typed
<1>2. CASE Execute(<<>>, {"say"})
  BY <1>2, ExecuteEnds DEF Took, Handled
<1>3. CASE Execute(<<>>, {}) /\ ArmSilence
  BY <1>3, ExecuteEnds DEF Took, Handled, ArmSilence
<1>4. CASE /\ ~Busy
           /\ silence' = TRUE /\ unheard' = TRUE
           /\ UNCHANGED <<cmds, mouth>>
  BY <1>4, NothingTold DEF Took, Handled, EndIs, Busy, mouth, Typed
<1> QED BY <1>1, <1>2, <1>3, <1>4 DEF OnNoise, NoiseHeard

LEMMA SpeakEnds ==
    ASSUME Typed, NEW cut \in {<<>>, <<"soft">>}, NEW r, Speak(cut, r),
           EndIs(after, queued, terminateNow)
    PROVE  /\ Told
           /\ actions' \in {0, 1}
           /\ EndIs(after', queued', terminateNow')
           /\ "say" \in r => queued' > 0
<1>1. Told /\ ("say" \in r => queued' > 0)
  BY QueueTold DEF Speak
<1> QED BY <1>1 DEF Speak, Told, Typed, EndIs

LEMMA AnswerTakes ==
    ASSUME Typed, EndIs(after, queued, terminateNow),
           NEW cut \in {<<>>, <<"soft">>}, Answer(cut)
    PROVE  Took
<1>1. ASSUME NEW r \in Engine, Execute(cut, r), agent' = "none"
      PROVE  Took
  BY <1>1, ExecuteEnds, EngineHandles DEF Took, Handled
<1>2. ASSUME NEW r, Speak(cut, r), second' = TRUE, agent' = "none"
      PROVE  Took
  BY <1>2, SpeakEnds DEF Took, Handled
<1>3. ASSUME agent' = "turn", Speak(cut, {})
      PROVE  Took
  BY <1>3, SpeakEnds DEF Took, Handled
<1>4. agent # "guess"
  BY DEF Typed
<1> QED BY <1>1, <1>2, <1>3, <1>4 DEF Answer

LEMMA CutsAre ==
    ASSUME NEW prot, NEW cut \in Cuts(prot)
    PROVE  cut \in {<<>>, <<"soft">>}
BY DEF Cuts

\* Session::on_final: every transcript leaves something under way.
LEMMA FinalTakes ==
    ASSUME Typed, EndIs(after, queued, terminateNow),
           NEW kind, NEW prot, NEW held, OnFinal(kind, prot, held)
    PROVE  Took
<1>1. CASE /\ \E r \in Engine : Execute(<<>>, r)
           /\ UNCHANGED turn
  BY <1>1, ExecuteEnds, EngineHandles DEF Took, Handled, turn, Typed
<1>2. CASE OnNoise /\ UNCHANGED turn
  BY <1>2, NoiseTakes DEF turn, Typed
<1>3. CASE Busy /\ UNCHANGED <<cmds, mouth, timers, turn>>
  BY <1>3, NothingTold DEF Took, Handled, EndIs, Busy, mouth, turn, Typed
<1>4. CASE Execute(<<>>, IF after THEN {} ELSE {"say"}) /\ UNCHANGED turn
  <2>1. CASE after
    <3>1. Execute(<<>>, {}) /\ {} \in Engine
      BY <1>4, <2>1 DEF Engine
    <3> QED BY <1>1, <1>4, <3>1
  <2>2. CASE ~after
    <3>1. Execute(<<>>, {"say"}) /\ {"say"} \in Engine
      BY <1>4, <2>2 DEF Engine, Replies
    <3> QED BY <1>1, <1>4, <3>1
  <2> QED BY <2>1, <2>2
<1>5. ASSUME OnWords(prot, kind = "half")
      PROVE  Took
  <2>1. PICK cut \in Cuts(prot) :
           /\ unfinished' = (kind = "half")
           /\ IF kind = "half" THEN Speak(cut, {}) /\ UNCHANGED turn ELSE Answer(cut)
    BY <1>5 DEF OnWords
  <2>2. CASE kind = "half"
    BY <2>1, <2>2, CutsAre, SpeakEnds DEF Took, Handled, turn, Typed
  <2>3. CASE kind # "half"
    BY <2>1, <2>3, CutsAre, AnswerTakes
  <2> QED BY <2>2, <2>3
<1> QED BY <1>1, <1>2, <1>3, <1>4, <1>5 DEF OnFinal

-----------------------------------------------------------------------------
(* The steps.                                                              *)

LEMMA PendingType ==
    ASSUME EventsSettle
    PROVE  /\ Pending(evs) \in Nat
           /\ \A i \in 1 .. Len(evs) : evs[i] \in Events /\ evs[i].n \in Nat
<1>1. \A i \in 1 .. Len(evs) : evs[i] \in Events
  BY DEF EventsSettle
<1>2. \A e \in Events : e.n \in Nat
  BY DEF Events
<1>3. \A i \in 1 .. Len(evs) : evs[i] \in Events /\ evs[i].n \in Nat
  BY <1>1, <1>2
<1>4. evs = <<>> \/ Len(evs) = 1 \/ Len(evs) = 2
  <2>1. Len(evs) \in Nat /\ Len(evs) <= 2 /\ (Len(evs) = 0 => evs = <<>>)
    BY EmptySeq DEF EventsSettle
  <2>0. \A n \in Nat : n <= 2 => n = 0 \/ n = 1 \/ n = 2
    OBVIOUS
  <2>2. Len(evs) = 0 \/ Len(evs) = 1 \/ Len(evs) = 2
    BY ONLY <2>0, <2>1, Zenon
  <2> QED BY ONLY <2>1, <2>2, Zenon
<1>5. CASE evs = <<>>
  BY <1>3, <1>5 DEF Pending
<1>6. CASE Len(evs) = 1
  BY <1>3, <1>6 DEF Pending
<1>7. CASE Len(evs) = 2
  <2>1. evs[1].n \in Nat /\ evs[2].n \in Nat
    BY <1>3, <1>7
  <2>2. evs # <<>> /\ Len(evs) # 1
    BY <1>7
  <2> QED BY <1>3, <2>1, <2>2 DEF Pending
<1> QED BY <1>4, <1>5, <1>6, <1>7

\* A handler that says something, or nothing, while the playout waits.
LEMMA TellingKeeps ==
    ASSUME FInv, Told, actions' \in {0, 1}, agent' \in {"none", "turn", "spoke"},
           UNCHANGED <<items, sounding, evs>>,
           EndIsComing', NoWordsSilent', Prompted'
    PROVE  FInv'
<1>1. Typed'
  BY DEF FInv, Typed, Told
<1>2. EventsSettle'
  BY DEF FInv, EventsSettle
<1>3. /\ queued \in Nat /\ queued' \in Nat /\ items \in Nat
      /\ Enqueues(cmds) \in Nat /\ Enqueues(cmds') \in Nat
  BY EnqueuesType DEF FInv, Typed, Told
<1>4. Pending(evs) \in Nat
  BY PendingType DEF FInv
<1>5. Accounted'
  <2>1. queued' <= Enqueues(cmds') + items + Pending(evs)
    BY <1>3, <1>4 DEF FInv, Accounted, Told
  <2> QED BY <2>1 DEF Accounted
<1> QED BY <1>1, <1>2, <1>5 DEF FInv

\* A handler that leaves something under way, after the last event.
LEMMA TookKeeps ==
    ASSUME FInv, Took, Live,
           UNCHANGED <<items, sounding, evs, over>>, evs = <<>>,
           NoWordsSilent'
    PROVE  FInv'
<1>1. EndIsComing'
  BY DEF Took, EndIs, EndIsComing
<1>2. Prompted'
  <2> SUFFICES ASSUME Idling' PROVE ~after' /\ silence'
    BY DEF Prompted
  <2>1. ~(\/ sounding \/ queued' > 0 \/ agent' = "turn" \/ second' \/ unfinished'
          \/ actions' = 1 \/ terminateNow')
    BY DEF Idling
  <2> QED BY <2>1 DEF Took, Handled
<1> QED BY <1>1, <1>2, TellingKeeps DEF Took

\* The call is over: nothing is under way and nobody is there.
LEMMA OverKeeps ==
    ASSUME NEW how \in {"agent", "caller", "limit"}, Over(how)
    PROVE  FInv'
<1>1. Typed'
  BY DEF Over, Typed
<1>2. EventsSettle'
  BY DEF Over, EventsSettle
<1>3. Accounted'
  <2>1. queued' = 0 /\ items' = 0 /\ Enqueues(cmds') = 0 /\ Pending(evs') = 0
    BY EnqueuesNone DEF Over, Pending
  <2> QED BY <2>1 DEF Accounted
<1>4. EndIsComing' /\ NoWordsSilent' /\ Prompted'
  BY DEF Over, EndIsComing, NoWordsSilent, Prompted, Idling, Live
<1> QED BY <1>1, <1>2, <1>3, <1>4 DEF FInv

LEMMA CalmEnds ==
    ASSUME FInv, Calm
    PROVE  Live /\ evs = <<>> /\ EndIs(after, queued, terminateNow)
BY DEF FInv, Calm, EndIsComing, EndIs

LEMMA InitKeeps == Init => FInv
<1> SUFFICES ASSUME Init PROVE FInv
  OBVIOUS
<1>1. Typed
  BY DEF Init, Typed, Sent
<1>2. EventsSettle
  BY DEF Init, EventsSettle
<1>3. Enqueues(cmds) = 1
  <2>1. cmds = <<>> \o <<"enqueue">> /\ <<>> \in Seq(Sent)
    BY DEF Init
  <2>2. Enqueues(<<>> \o <<"enqueue">>) = Enqueues(<<>>) + 1
    BY ONLY <2>1, EnqueuesItem
  <2>3. Enqueues(cmds) = Enqueues(<<>>) + 1
    BY <2>1, <2>2
  <2> QED BY <2>3, EnqueuesNone
<1>4. Accounted
  BY <1>3 DEF Init, Accounted, Pending
<1>5. EndIsComing /\ NoWordsSilent /\ Prompted
  BY DEF Init, EndIsComing, NoWordsSilent, Prompted, Idling, Live
<1> QED BY <1>1, <1>2, <1>4, <1>5 DEF FInv

\* The caller's voice (Session::on_audio).
LEMMA CallerKeeps ==
    ASSUME FInv, Caller, Trouble = {}, Speculate = FALSE
    PROVE  FInv'
<1>1. CASE SpeechStarts
  <2>1. Told
    BY <1>1, NothingTold DEF SpeechStarts, FInv, mouth
  <2>2. agent' \in {"none", "turn", "spoke"} /\ agent' = agent
    BY <1>1 DEF SpeechStarts, FInv, Typed
  <2>3. /\ vad' /\ ~heard' /\ ~noWords' /\ (overAgent' <=> Busy)
    BY <1>1 DEF SpeechStarts, Busy
  <2>4. NoWordsSilent' /\ Prompted'
    BY <1>1, <2>3 DEF SpeechStarts, NoWordsSilent, Prompted, Idling, Busy, mouth, FInv, Typed
  <2>5. EndIsComing'
    BY <1>1 DEF SpeechStarts, FInv, EndIsComing, Live, mouth, playout
  <2> QED BY <1>1, <2>1, <2>2, <2>4, <2>5, TellingKeeps
          DEF SpeechStarts, mouth, playout, FInv, Typed
<1>2. CASE VoiceGoesOn
  <2>1. Told /\ UNCHANGED <<after, terminateNow, actions, queued>>
    <3>1. CASE Busy /\ ~protecting
      <4>1. Speak(<<"soft">>, {})
        BY <1>2, <3>1 DEF VoiceGoesOn
      <4>2. Told
        BY <4>1, QueueTold DEF Speak, FInv
      <4>3. queued' = queued
        BY <4>1 DEF Speak, Queue, FInv, Typed
      <4> QED BY <4>1, <4>2, <4>3 DEF Speak
    <3>2. CASE ~(Busy /\ ~protecting)
      BY <1>2, <3>2, NothingTold DEF VoiceGoesOn, FInv, mouth
    <3> QED BY <3>1, <3>2
  <2>2. NoWordsSilent' /\ Prompted' /\ EndIsComing'
    BY <1>2, <2>1 DEF VoiceGoesOn, FInv, NoWordsSilent, Prompted, Idling, EndIsComing, Live,
                      playout, timers, turn
  <2> QED BY <1>2, <2>1, <2>2, TellingKeeps
          DEF VoiceGoesOn, playout, turn, FInv, Typed
<1>3. CASE SpeechEnds
  <2>1. Told
    BY <1>3, NothingTold DEF SpeechEnds, FInv, mouth
  <2>2. agent' = agent
    BY <1>3 DEF SpeechEnds
  <2>3. vad /\ ~vad' /\ (noWords' <=> noWords \/ ~heard) /\ UNCHANGED <<heard, overAgent>>
    BY <1>3 DEF SpeechEnds
  <2>4. NoWordsSilent'
    BY <2>3 DEF FInv, NoWordsSilent
  <2>5. Prompted'
    BY <1>3, <2>2, <2>3 DEF SpeechEnds, FInv, Prompted, Idling, Live, mouth, playout, timers
  <2>6. EndIsComing'
    BY <1>3 DEF SpeechEnds, FInv, EndIsComing, Live, mouth, playout
  <2> QED BY <1>3, <2>1, <2>2, <2>4, <2>5, <2>6, TellingKeeps
          DEF SpeechEnds, mouth, playout, FInv, Typed
<1>4. CASE CallEnds("caller")
  BY <1>4, OverKeeps DEF CallEnds
<1> QED BY <1>1, <1>2, <1>3, <1>4 DEF Caller

\* The recognizer (Session::on_stt): giving up says so and ends the call.
LEMMA GiveUpTakes ==
    ASSUME Typed, GiveUp, UNCHANGED agent
    PROVE  Took
<1>1. Execute(<<>>, IF after THEN {} ELSE {"say", "end"})
  BY DEF GiveUp
<1>2. PICK r \in Engine : Execute(<<>>, r)
  BY <1>1 DEF Engine, Replies
<1> QED BY <1>2, ExecuteEnds, EngineHandles DEF Took, Handled, Typed

\* A step that says nothing and moves no timer of the session's own.
LEMMA StillKeeps ==
    ASSUME FInv, UNCHANGED <<cmds, items, sounding, evs, queued, after, terminateNow, actions,
                             vad, overAgent, heard, silence, noWords, unfinished, agent,
                             second, over>>
    PROVE  FInv'
<1>1. Told /\ actions' \in {0, 1} /\ agent' \in {"none", "turn", "spoke"}
  BY NothingTold DEF FInv, Typed
<1>2. NoWordsSilent' /\ Prompted' /\ EndIsComing'
  BY DEF FInv, NoWordsSilent, Prompted, Idling, EndIsComing, Live
<1> QED BY <1>1, <1>2, TellingKeeps

LEMMA SttKeeps ==
    ASSUME FInv, Stt
    PROVE  FInv'
<1>1. ASSUME NEW kind \in Kinds, Final(kind)
      PROVE  FInv'
  <2>1. Took
    BY <1>1, CalmEnds, FinalTakes DEF Final, FInv
  <2>2. NoWordsSilent'
    BY <1>1 DEF Final, NoWordsSilent
  <2> QED BY <1>1, <2>1, <2>2, CalmEnds, TookKeeps DEF Final, playout
<1>2. CASE FinalEmpty
  BY <1>2, StillKeeps DEF FinalEmpty, playout, mouth, ear, timers, turn
<1>3. CASE FinalEcho
  <2>1. Told /\ actions' \in {0, 1} /\ agent' \in {"none", "turn", "spoke"}
    BY <1>3, NothingTold DEF FinalEcho, FInv, Typed, mouth, turn
  <2>2. NoWordsSilent' /\ EndIsComing'
    BY <1>3 DEF FinalEcho, FInv, NoWordsSilent, EndIsComing, Live, mouth, playout
  <2>3. Prompted'
    BY <1>3 DEF FinalEcho, FInv, Prompted, Idling, Live, mouth, playout, timers, turn
  <2> QED BY <1>3, <2>1, <2>2, <2>3, TellingKeeps DEF FinalEcho, playout
<1>4. ASSUME NEW owed, Calm, Closed(owed),
             UNCHANGED <<playout, evs, protecting, ear, timers, noWords, unfinished, turn, over>>
      PROVE  FInv'
  <2>1. CASE UNCHANGED <<cmds, mouth>>
    BY <1>4, <2>1, StillKeeps DEF playout, mouth, ear, timers, turn
  <2>2. CASE GiveUp
    <3>1. Took
      BY <1>4, <2>2, GiveUpTakes DEF FInv, turn
    <3>2. NoWordsSilent'
      BY <1>4 DEF FInv, NoWordsSilent, ear
    <3> QED BY <1>4, <3>1, <3>2, CalmEnds, TookKeeps DEF playout
  <2> QED BY <1>4, <2>1, <2>2 DEF Closed
<1>5. CASE SttCloses
  BY <1>4, <1>5 DEF SttCloses
<1>6. CASE SttReady
  BY <1>6, StillKeeps DEF SttReady, playout, mouth, ear, timers, turn
<1>7. CASE SttFails
  <2>1. Took
    BY <1>7, GiveUpTakes DEF FInv, turn, SttFails
  <2>2. NoWordsSilent'
    BY <1>7 DEF FInv, NoWordsSilent, ear, SttFails
  <2> QED BY <1>7, <2>1, <2>2, CalmEnds, TookKeeps DEF playout, SttFails
<1> QED BY <1>1, <1>2, <1>3, <1>5, <1>6, <1>7 DEF Stt

\* A transcript that is overdue (Session::on_event).
LEMMA OverdueKeeps ==
    ASSUME FInv, FinalOverdue
    PROVE  FInv'
<1>1. CASE UNCHANGED <<cmds, mouth>>
  BY <1>1, StillKeeps DEF FinalOverdue, playout, mouth, ear, timers, turn
<1>2. CASE GiveUp
  <2>1. Took
    BY <1>2, GiveUpTakes DEF FInv, turn, FinalOverdue
  <2>2. NoWordsSilent'
    BY DEF FInv, NoWordsSilent, ear, FinalOverdue
  <2> QED BY <2>1, <2>2, CalmEnds, TookKeeps DEF playout, FinalOverdue
<1> QED BY <1>1, <1>2 DEF FinalOverdue, Closed

\* The silence timer: it asks, or something else is under way.
LEMMA SilenceKeeps ==
    ASSUME FInv, SilenceFires, Trouble = {}
    PROVE  FInv'
<1>1. Calm /\ UNCHANGED <<items, sounding, evs, over, vad, overAgent, heard, noWords,
                          unfinished, agent, second>>
  BY DEF SilenceFires, playout, ear, turn
<1>2. NoWordsSilent'
  BY <1>1 DEF FInv, NoWordsSilent
<1>3. CASE Free /\ ~second /\ ~unfinished
  <2>1. PICK r \in {{"say"}, {"say", "end"}} : Execute(<<>>, r)
    BY <1>3 DEF SilenceFires
  <2>2. r \in Replies
    BY DEF Replies
  <2>3. Took
    BY <1>1, <2>1, <2>2, ExecuteEnds, EngineHandles DEF Took, Handled, FInv, Typed
  <2> QED BY <1>1, <1>2, <2>3, CalmEnds, TookKeeps
<1>4. CASE ~(Free /\ ~second /\ ~unfinished)
  <2>1. UNCHANGED <<cmds, mouth>>
    BY <1>4 DEF SilenceFires
  <2>2. Told /\ actions' \in {0, 1} /\ agent' \in {"none", "turn", "spoke"}
    BY <1>1, <2>1, NothingTold DEF FInv, Typed, mouth
  <2>3. EndIsComing'
    BY <1>1, <2>1 DEF FInv, EndIsComing, Live, mouth
  <2>4. ~Idling'
    <3> SUFFICES ASSUME Idling' PROVE FALSE
      OBVIOUS
    <3>1. Idling
      BY <1>1, <2>1 DEF Idling, Live, mouth
    <3>2. ~after
      BY <3>1 DEF FInv, Prompted
    <3>3. ~vad
      BY <3>1 DEF SilenceFires, Idling
    <3>4. ~Thinking
      BY <3>1 DEF SilenceFires, Idling, Busy, Thinking
    <3> QED BY <1>4, <3>1, <3>2, <3>3, <3>4 DEF Free, Idling, Busy
  <2> QED BY <1>1, <1>2, <2>2, <2>3, <2>4, TellingKeeps DEF Prompted
<1> QED BY <1>3, <1>4

\* The question again after noise.
LEMMA UnheardKeeps ==
    ASSUME FInv, UnheardFires
    PROVE  FInv'
<1>1. Calm /\ UNCHANGED <<items, sounding, evs, over, vad, overAgent, heard, noWords,
                          unfinished, agent, second>>
  BY DEF UnheardFires, playout, ear, turn
<1>2. NoWordsSilent'
  BY <1>1 DEF FInv, NoWordsSilent
<1>3. CASE Execute(<<>>, {"say"})
  <2>1. Took
    BY <1>1, <1>3, ExecuteEnds DEF Took, Handled, FInv, Typed
  <2> QED BY <1>1, <1>2, <2>1, CalmEnds, TookKeeps
<1>4. CASE Execute(<<>>, {}) /\ ArmSilence
  <2>1. Took
    BY <1>1, <1>4, ExecuteEnds DEF Took, Handled, FInv, Typed, ArmSilence
  <2> QED BY <1>1, <1>2, <2>1, CalmEnds, TookKeeps
<1>5. CASE UNCHANGED <<silence, cmds, mouth>>
  BY <1>1, <1>5, StillKeeps DEF mouth
<1> QED BY <1>3, <1>4, <1>5 DEF UnheardFires

\* Speech that brought no words: the question again, or later, or the call ends.
LEMMA NoWordsKeeps ==
    ASSUME FInv, NoWordsFires
    PROVE  FInv'
<1>1. /\ Calm /\ noWords /\ ~vad /\ ~heard
      /\ UNCHANGED <<items, sounding, evs, over, vad, overAgent, heard, unfinished, second>>
  BY DEF NoWordsFires, playout, ear, FInv, NoWordsSilent
<1>2. agent' = agent /\ agent' \in {"none", "turn", "spoke"}
  BY DEF NoWordsFires, FInv, Typed
<1>3. NoWordsSilent'
  BY <1>1 DEF NoWordsSilent
<1>4. CASE NoiseHeard
  <2>1. CASE Execute(<<>>, {"say"})
    <3>1. Took
      BY <1>2, <2>1, ExecuteEnds DEF Took, Handled, FInv
    <3> QED BY <1>1, <1>3, <3>1, CalmEnds, TookKeeps
  <2>2. CASE Execute(<<>>, {}) /\ ArmSilence
    <3>1. Took
      BY <1>2, <2>2, ExecuteEnds DEF Took, Handled, FInv, ArmSilence
    <3> QED BY <1>1, <1>3, <3>1, CalmEnds, TookKeeps
  <2> QED BY <1>4, <2>1, <2>2 DEF NoiseHeard
<1>5. CASE noWords' = (~vad /\ ~after) /\ UNCHANGED <<cmds, mouth, timers>>
  <2>1. Told /\ actions' \in {0, 1}
    BY <1>5, NothingTold DEF FInv, Typed, mouth
  <2>2. EndIsComing'
    BY <1>1, <1>5 DEF FInv, EndIsComing, Live, mouth
  <2>3. CASE after
    <3>1. ~Idling'
      BY <1>1, <1>5, <2>3, CalmEnds DEF Idling, EndIs, mouth, FInv, Typed
    <3> QED BY <1>1, <1>2, <1>3, <2>1, <2>2, <3>1, TellingKeeps DEF Prompted
  <2>4. CASE ~after
    <3>1. noWords'
      BY <1>1, <1>5, <2>4
    <3>2. Prompted'
      BY <1>1, <1>2, <1>5, <3>1 DEF FInv, Prompted, Idling, Live, mouth, timers
    <3> QED BY <1>1, <1>2, <1>3, <2>1, <2>2, <3>2, TellingKeeps
  <2> QED BY <2>3, <2>4
<1> QED BY <1>4, <1>5 DEF NoWordsFires

\* Half a sentence that stayed one is answered.
LEMMA UnfinishedKeeps ==
    ASSUME FInv, UnfinishedDue
    PROVE  FInv'
<1>1. Took
  BY CalmEnds, FinalTakes DEF UnfinishedDue, FInv
<1>2. NoWordsSilent'
  BY DEF UnfinishedDue, FInv, NoWordsSilent, ear
<1> QED BY <1>1, <1>2, CalmEnds, TookKeeps DEF UnfinishedDue, playout

LEMMA TimerKeeps ==
    ASSUME FInv, Timer, Trouble = {}
    PROVE  FInv'
<1>1. CASE CallEnds("limit")
  BY <1>1, OverKeeps DEF CallEnds
<1> QED BY <1>1, SilenceKeeps, UnheardKeeps, NoWordsKeeps, UnfinishedKeeps, OverdueKeeps
        DEF Timer

\* An action of the business ended.
LEMMA ActionKeeps ==
    ASSUME FInv, ActionResult, Trouble = {}
    PROVE  FInv'
<1>1. Calm /\ UNCHANGED <<items, sounding, evs, over, vad, heard, noWords, agent>>
  BY DEF ActionResult, playout, ear, turn
<1>2. NoWordsSilent'
  BY <1>1 DEF FInv, NoWordsSilent
<1>3. PICK r \in Replies \cup (IF after THEN {{}} ELSE {}) :
        /\ Queue(<<>>, r)
        /\ after' = (after \/ "end" \in r)
        /\ actions' = IF "run" \in r THEN actions ELSE actions - 1
        /\ terminateNow' = (terminateNow \/ (after' /\ queued' = 0))
  BY DEF ActionResult
<1>4. actions = 1
  BY DEF ActionResult, FInv, Typed
<1>5. Told /\ ("say" \in r => queued' > 0) /\ queued' \in Nat
  BY <1>3, QueueTold DEF FInv, Told
<1>6. actions' \in {0, 1} /\ ("run" \in r => actions' = 1)
  BY <1>3, <1>4
<1>7. after' => queued' > 0 \/ terminateNow'
  <2>1. CASE queued' = 0
    BY <1>3, <2>1
  <2>2. CASE queued' # 0
    BY <1>5, <2>2
  <2> QED BY <2>1, <2>2
<1>8. after \/ "say" \in r \/ "run" \in r \/ "end" \in r
  BY DEF Replies
<1>9. queued' > 0 \/ actions' = 1 \/ terminateNow'
  <2>1. CASE after \/ "end" \in r
    BY <1>3, <1>7, <2>1
  <2> QED BY <1>5, <1>6, <1>8, <2>1
<1>10. Took
  BY <1>1, <1>5, <1>6, <1>7, <1>9 DEF Took, Handled, EndIs, FInv, Typed
<1> QED BY <1>1, <1>2, <1>10, CalmEnds, TookKeeps

\* The decision: a second hearing, a sound while it takes, its words, its end.
LEMMA ResultKeeps ==
    ASSUME FInv, Result, Trouble = {}
    PROVE  FInv'
<1>1. CASE SecondHearing
  <2>1. Told /\ actions' \in {0, 1}
    BY <1>1, NothingTold DEF SecondHearing, FInv, Typed, mouth
  <2>2. NoWordsSilent' /\ EndIsComing'
    BY <1>1 DEF SecondHearing, FInv, NoWordsSilent, EndIsComing, Live, mouth, playout, ear
  <2>3. Prompted'
    BY <1>1 DEF SecondHearing, Prompted, Idling
  <2> QED BY <1>1, <2>1, <2>2, <2>3, TellingKeeps DEF SecondHearing, playout
<1>2. ASSUME Calm, Speak(<<>>, {"say"}), agent' \in {"turn", "spoke"},
             UNCHANGED <<playout, evs, protecting, ear, noWords, over>>
      PROVE  FInv'
  <2>1. Took
    BY <1>2, CalmEnds, SpeakEnds DEF Took, Handled, FInv
  <2>2. NoWordsSilent'
    BY <1>2 DEF FInv, NoWordsSilent, ear
  <2> QED BY <1>2, <2>1, <2>2, CalmEnds, TookKeeps DEF playout
<1>3. CASE FillerDue
  BY <1>2, <1>3 DEF FillerDue
<1>4. CASE AgentSpeaks
  BY <1>2, <1>4 DEF AgentSpeaks
<1>5. CASE AgentDone
  <2>1. Calm /\ agent' = "none" /\ UNCHANGED <<items, sounding, evs, over, noWords, vad,
                                               overAgent, heard, unfinished, second>>
    BY <1>5 DEF AgentDone, playout, ear
  <2>2. NoWordsSilent'
    BY <2>1 DEF FInv, NoWordsSilent
  <2>3. CASE OnNoise
    <3>1. Took
      BY <2>1, <2>3, CalmEnds, NoiseTakes DEF FInv
    <3> QED BY <2>1, <2>2, <3>1, CalmEnds, TookKeeps
  <2>4. CASE \E r \in Engine : Execute(<<>>, r)
    <3>1. Took
      BY <2>1, <2>4, ExecuteEnds, EngineHandles DEF Took, Handled, FInv
    <3> QED BY <2>1, <2>2, <3>1, CalmEnds, TookKeeps
  <2>5. CASE agent = "spoke" /\ Execute(<<>>, {}) /\ UNCHANGED timers /\ ~after
    <3>1. /\ Told /\ actions' \in {0, 1} /\ EndIs(after', queued', terminateNow')
          /\ ~after'
      BY <2>5, ExecuteEnds DEF FInv
    <3>2. queued' = queued /\ actions' = actions /\ (terminateNow' <=> terminateNow)
      <4>1. queued' = queued + 0 /\ actions' = actions + 0
        BY <2>5 DEF Execute, Queue
      <4>2. terminateNow' <=> terminateNow
        BY <2>5, <3>1 DEF Execute
      <4> QED BY <4>1, <4>2 DEF FInv, Typed
    <3>3. EndIsComing'
      BY <3>1 DEF EndIsComing
    <3>4. Prompted'
      BY <2>1, <2>5, <3>1, <3>2 DEF FInv, Prompted, Idling, Live, timers
    <3> QED BY <2>1, <2>2, <3>1, <3>3, <3>4, TellingKeeps
  <2>6. {} \in Engine \/ ~after
    BY DEF Engine
  <2> QED BY <1>5, <2>3, <2>4, <2>5, <2>6 DEF AgentDone
<1>6. CASE TerminateNow
  BY <1>6, OverKeeps DEF TerminateNow
<1> QED BY <1>1, <1>3, <1>4, <1>5, <1>6, ActionKeeps DEF Result

\* The end of an item (Session::on_playout): the last event of a step of the
\* playout leaves it sounding, or is the idle.
LEMMA ItemKeeps ==
    ASSUME FInv, ItemEnds
    PROVE  FInv'
<1>1. /\ evs \in Seq(Events) /\ evs # <<>> /\ evs' = Tail(evs)
      /\ Head(evs) = evs[1] /\ evs[1].kind # "idle"
      /\ UNCHANGED <<cmds, items, sounding, after, terminateNow, actions, vad, overAgent, heard,
                     silence, noWords, unfinished, agent, second, over>>
  BY DEF ItemEnds, FInv, EventsSettle, playout, ear, timers, turn
<1>2. Len(evs) = 1 \/ Len(evs) = 2
  <2>1. Len(evs) \in Nat /\ Len(evs) <= 2 /\ Len(evs) # 0
    BY <1>1, EmptySeq DEF FInv, EventsSettle
  <2>2. \A n \in Nat : n <= 2 => n = 0 \/ n = 1 \/ n = 2
    OBVIOUS
  <2> QED BY ONLY <2>1, <2>2, Zenon
<1>3. \A i \in 1 .. Len(evs) : evs[i] \in Events /\ evs[i].n \in Nat
  BY PendingType DEF FInv
<1>4. evs[1].n \in Nat /\ queued \in Nat
  BY <1>2, <1>3 DEF FInv, Typed
<1>5. queued' = IF evs[1].n > queued THEN 0 ELSE queued - evs[1].n
  BY <1>1 DEF ItemEnds
<1>6. queued' \in Nat /\ (queued' = 0 \/ queued' = queued - evs[1].n)
  BY <1>4, <1>5
<1>7. Typed'
  BY <1>1, <1>6 DEF FInv, Typed
<1>8. NoWordsSilent'
  BY <1>1 DEF FInv, NoWordsSilent
<1>9. Enqueues(cmds) \in Nat /\ items \in Nat
  BY EnqueuesType DEF FInv, Typed
<1>10. CASE Len(evs) = 1
  <2>1. evs' = <<>> /\ sounding
    BY <1>1, <1>10 DEF FInv, EventsSettle
  <2>2. EventsSettle'
    BY <2>1 DEF EventsSettle
  <2>3. queued <= Enqueues(cmds) + items + evs[1].n
    BY <1>1, <1>10 DEF FInv, Accounted, Pending
  <2>4. queued' <= Enqueues(cmds) + items + 0
    BY <1>4, <1>6, <1>9, <2>3
  <2>5. Accounted'
    BY <1>1, <2>1, <2>4 DEF Accounted, Pending
  <2>6. EndIsComing' /\ Prompted'
    BY <1>1, <2>1 DEF EndIsComing, Prompted, Idling
  <2> QED BY <1>7, <1>8, <2>2, <2>5, <2>6 DEF FInv
<1>11. CASE Len(evs) = 2
  <2>1. /\ Len(evs') = 1 /\ evs' \in Seq(Events) /\ evs'[1] = evs[2] /\ evs' # <<>>
    <3> DEFINE es == Tail(evs)
    <3>1. es \in Seq(Events) /\ Len(es) = 1 /\ es[1] = evs[2]
      BY <1>1, <1>11
    <3> HIDE DEF es
    <3>2. es # <<>>
      BY <3>1
    <3> QED BY <1>1, <3>1, <3>2 DEF es
  <2>2. evs[2].n \in Nat
    BY <1>3, <1>11
  <2>3. EventsSettle'
    BY <1>1, <1>11, <2>1 DEF FInv, EventsSettle
  <2>4. queued <= Enqueues(cmds) + items + (evs[1].n + evs[2].n)
    BY <1>1, <1>11 DEF FInv, Accounted, Pending
  <2>5. queued' <= Enqueues(cmds) + items + evs[2].n
    BY <1>4, <1>6, <1>9, <2>2, <2>4
  <2>6. Pending(evs') = evs[2].n
    BY <2>1 DEF Pending
  <2>7. Accounted'
    BY <1>1, <2>5, <2>6 DEF Accounted
  <2>8. EndIsComing' /\ Prompted'
    BY <2>1 DEF EndIsComing, Prompted, Idling
  <2> QED BY <1>7, <1>8, <2>3, <2>7, <2>8 DEF FInv
<1> QED BY <1>2, <1>10, <1>11

\* All was heard (Session::on_playout, Idle).
LEMMA IdleKeeps ==
    ASSUME FInv, Idle
    PROVE  FInv'
<1>1. CASE after /\ Over("agent")
  BY <1>1, OverKeeps
<1>2. ASSUME ~after, evs' = Tail(evs), UNCHANGED <<playout, ear, noWords, stt, over>>,
             \/ OnFinal("listening", FALSE, unfinished)
             \/ ArmSilence /\ UNCHANGED <<cmds, mouth, unfinished, due, turn>>
      PROVE  FInv'
  <2>1. /\ evs \in Seq(Events) /\ evs # <<>> /\ Head(evs) = evs[1] /\ evs[1].kind = "idle"
        /\ Live
    BY DEF Idle, FInv, EventsSettle
  <2>2. Len(evs) = 1 /\ evs[1].n = 0
    <3>1. 1 \in 1 .. Len(evs)
      BY <2>1, EmptySeq
    <3> QED BY <2>1, <3>1 DEF FInv, EventsSettle
  <2>3. evs' = <<>> /\ Pending(evs) = 0 /\ Pending(evs') = 0
    BY <1>2, <2>1, <2>2 DEF Pending
  <2>4. EventsSettle'
    BY <2>3 DEF EventsSettle
  <2>5. NoWordsSilent'
    BY <1>2 DEF FInv, NoWordsSilent, ear
  <2>6. ASSUME Told, actions' \in {0, 1}, agent' \in {"none", "turn", "spoke"}
        PROVE  Typed' /\ Accounted'
    <3>1. Typed'
      BY <1>2, <2>6 DEF FInv, Typed, Told, playout
    <3>2. /\ queued \in Nat /\ queued' \in Nat /\ items \in Nat
          /\ Enqueues(cmds) \in Nat /\ Enqueues(cmds') \in Nat
      BY <2>6, EnqueuesType DEF FInv, Typed, Told
    <3>3. queued' <= Enqueues(cmds') + items + 0
      BY <2>3, <2>6, <3>2 DEF FInv, Accounted, Told
    <3> QED BY <1>2, <2>3, <3>1, <3>3 DEF Accounted, playout
  <2>7. CASE OnFinal("listening", FALSE, unfinished)
    <3>1. EndIs(after, queued, terminateNow)
      BY <1>2 DEF EndIs
    <3>2. Took
      BY <2>7, <3>1, FinalTakes DEF FInv
    <3>3. EndIsComing'
      BY <1>2, <3>2 DEF Took, EndIs, EndIsComing, playout
    <3>4. Prompted'
      BY <1>2, <3>2 DEF Took, Handled, Prompted, Idling, playout
    <3> QED BY <2>4, <2>5, <2>6, <3>2, <3>3, <3>4 DEF FInv, Took
  <2>8. CASE ArmSilence /\ UNCHANGED <<cmds, mouth, unfinished, due, turn>>
    <3>1. Told /\ actions' \in {0, 1} /\ agent' \in {"none", "turn", "spoke"}
      BY <2>8, NothingTold DEF FInv, Typed, mouth, turn
    <3>2. EndIsComing' /\ Prompted'
      BY <1>2, <2>8 DEF EndIsComing, Prompted, mouth, ArmSilence
    <3> QED BY <2>4, <2>5, <2>6, <3>1, <3>2 DEF FInv
  <2> QED BY <1>2, <2>7, <2>8
<1> QED BY <1>1, <1>2 DEF Idle

LEMMA Joined ==
    ASSUME NEW a, NEW b
    PROVE  /\ (<<>> \o <<a>>) \o <<b>> = <<a, b>>
           /\ (<<>> \o <<>>) \o <<b>> = <<b>>
<1>1. <<>> \in Seq({a, b}) /\ <<a>> \in Seq({a, b}) /\ <<b>> \in Seq({a, b})
  OBVIOUS
<1>2. <<>> \o <<a>> = <<a>> /\ <<>> \o <<b>> = <<b>> /\ <<>> \o <<>> = <<>>
  BY <1>1, ConcatEmptySeq
<1>3. <<a>> \o <<b>> = <<a, b>>
  <2> DEFINE s == <<a>> \o <<b>>
             t == <<a, b>>
  <2>1. s \in Seq({a, b}) /\ Len(s) = 2 /\ s[1] = a /\ s[2] = b
    BY <1>1
  <2>2. t \in Seq({a, b}) /\ Len(t) = 2 /\ t[1] = a /\ t[2] = b
    OBVIOUS
  <2> HIDE DEF s, t
  <2>3. \A i \in 1 .. Len(s) : s[i] = t[i]
    BY <2>1, <2>2
  <2>4. s = t
    BY <2>1, <2>2, <2>3, SeqEqual
  <2> QED BY <2>4 DEF s, t
<1> QED BY <1>2, <1>3

\* The playout itself, on a line where an interruption cuts off only what was heard.
LEMMA PlayingKeeps ==
    ASSUME FInv, Playing, Trouble = {}, MayBeSilent = FALSE
    PROVE  FInv'
<1>1. /\ Live /\ evs = <<>>
      /\ UNCHANGED <<queued, after, terminateNow, actions, vad, overAgent, heard, silence,
                     noWords, unfinished, agent, second, over>>
  BY DEF Playing, Calm, mouth, ear, timers, turn
<1>2. /\ cmds \in Seq(Sent) /\ items \in Nat /\ queued \in Nat /\ Enqueues(cmds) \in Nat
      /\ queued <= Enqueues(cmds) + items + 0
  BY <1>1, EnqueuesType DEF FInv, Typed, Accounted, Pending
<1>3. NoWordsSilent'
  BY <1>1 DEF FInv, NoWordsSilent
<1>4. ASSUME sounding' = sounding, evs' = evs
      PROVE  EndIsComing' /\ Prompted'
  BY <1>1, <1>4 DEF FInv, EndIsComing, Prompted, Idling, Live
<1>5. ASSUME evs' # <<>>
      PROVE  EndIsComing' /\ Prompted'
  BY <1>5 DEF EndIsComing, Prompted, Idling
<1>6. ASSUME NEW k \in Events, evs' = <<k>>, sounding' \/ k.kind = "idle",
             k.kind = "idle" => k.n = 0
      PROVE  EventsSettle' /\ evs' # <<>> /\ Pending(evs') = k.n
  <2>1. evs' \in Seq(Events) /\ Len(evs') = 1 /\ evs'[1] = k /\ evs' # <<>>
    BY <1>6
  <2> QED BY <1>6, <2>1 DEF EventsSettle, Pending
<1>7. ASSUME NEW j \in Events, NEW k \in Events, evs' = <<j, k>>, j.kind # "idle",
             sounding' \/ k.kind = "idle", k.kind = "idle" => k.n = 0
      PROVE  EventsSettle' /\ evs' # <<>> /\ Pending(evs') = j.n + k.n
  <2>1. evs' \in Seq(Events) /\ Len(evs') = 2 /\ evs'[1] = j /\ evs'[2] = k /\ evs' # <<>>
    BY <1>7
  <2> QED BY <1>7, <2>1 DEF EventsSettle, Pending
<1>8. ASSUME evs' = <<>>
      PROVE  EventsSettle' /\ Pending(evs') = 0
  BY <1>8 DEF EventsSettle, Pending
<1>9. ASSUME cmds' \in Seq(Sent), items' \in Nat, NEW n \in Nat, Pending(evs') = n,
             Enqueues(cmds) + items <= Enqueues(cmds') + items' + n
      PROVE  Typed' /\ Accounted'
  <2>1. Enqueues(cmds') \in Nat
    BY <1>9, EnqueuesType
  <2>2. queued <= Enqueues(cmds') + items' + n
    BY <1>2, <1>9, <2>1
  <2>3. Accounted'
    BY <1>1, <1>9, <2>2 DEF Accounted
  <2>4. Typed'
    BY <1>1, <1>9 DEF FInv, Typed
  <2> QED BY <2>3, <2>4
<1>10. CASE Accept
  <2>1. cmds' = Tail(cmds) /\ items' = items + 1 /\ sounding' = sounding /\ evs' = evs
    BY <1>10 DEF Accept
  <2>2. cmds' \in Seq(Sent) /\ Enqueues(cmds) = Enqueues(cmds') + 1
    BY <1>2, <1>10, <2>1, EnqueuesTail DEF Accept
  <2>3. Enqueues(cmds') \in Nat
    BY <2>2, EnqueuesType
  <2>4. EventsSettle' /\ Pending(evs') = 0
    BY <1>1, <1>8, <2>1
  <2>5. Enqueues(cmds) + items <= Enqueues(cmds') + items' + 0
    BY <1>2, <2>1, <2>2, <2>3
  <2>6. Typed' /\ Accounted'
    BY <1>2, <1>9, <2>1, <2>2, <2>4, <2>5
  <2> QED BY <1>3, <1>4, <2>1, <2>4, <2>6 DEF FInv
<1>11. CASE Sound
  <2>1. cmds' = cmds /\ items' = items /\ sounding' /\ evs' = <<>>
    BY <1>1, <1>11 DEF Sound
  <2>2. EventsSettle' /\ Pending(evs') = 0
    BY <1>8, <2>1
  <2>3. Typed' /\ Accounted'
    BY <1>2, <1>9, <2>1, <2>2
  <2>4. EndIsComing' /\ Prompted'
    BY <2>1 DEF EndIsComing, Prompted, Idling
  <2> QED BY <1>3, <2>2, <2>3, <2>4 DEF FInv
<1>12. CASE Finish
  <2> DEFINE k == [kind |-> "finished", n |-> 1]
  <2>1. cmds' = cmds /\ items > 0 /\ items' = items - 1 /\ sounding' = sounding /\ sounding
    BY <1>12 DEF Finish
  <2>2. evs' = <<k>>
    BY <1>1, <1>12 DEF Finish, Event
  <2>3. k \in Events /\ k.kind # "idle" /\ k.n = 1
    BY DEF Events, EventKinds
  <2> HIDE DEF k
  <2>4. EventsSettle' /\ evs' # <<>> /\ Pending(evs') = 1
    BY <1>6, <2>1, <2>2, <2>3
  <2>5. items' \in Nat /\ Enqueues(cmds) + items <= Enqueues(cmds') + items' + 1
    BY <1>2, <2>1
  <2>6. Typed' /\ Accounted'
    BY <1>2, <1>9, <2>1, <2>4, <2>5
  <2> QED BY <1>3, <1>5, <2>4, <2>6 DEF FInv
<1>13. CASE Rest
  <2> DEFINE k == [kind |-> "idle", n |-> 0]
  <2>1. cmds' = cmds /\ items' = items
    BY <1>13 DEF Rest
  <2>2. evs' = <<k>>
    BY <1>1, <1>13 DEF Rest, Event
  <2>3. k \in Events /\ k.kind = "idle" /\ k.n = 0
    BY DEF Events, EventKinds
  <2> HIDE DEF k
  <2>4. EventsSettle' /\ evs' # <<>> /\ Pending(evs') = 0
    BY <1>6, <2>2, <2>3
  <2>5. Typed' /\ Accounted'
    BY <1>2, <1>9, <2>1, <2>4
  <2> QED BY <1>3, <1>5, <2>4, <2>5 DEF FInv
<1>14. ASSUME cmds # <<>>, Head(cmds) = "soft", cmds' = Tail(cmds)
       PROVE  /\ cmds' \in Seq(Sent) /\ Enqueues(cmds') = Enqueues(cmds)
              /\ items > 0 => sounding
  <2>1. Tail(cmds) \in Seq(Sent) /\ Enqueues(cmds) = Enqueues(Tail(cmds)) + 0
    BY <1>2, <1>14, EnqueuesTail
  <2>2. Enqueues(Tail(cmds)) \in Nat
    BY <2>1, EnqueuesType
  <2>3. cmds' # cmds
    BY <1>2, <1>14
  <2>4. ~CutsUnheard
    BY <2>3 DEF Playing
  <2> QED BY <1>14, <2>1, <2>2, <2>4 DEF CutsUnheard
<1>15. CASE Stop
  <2>1. /\ cmds # <<>> /\ Head(cmds) = "soft" /\ cmds' = Tail(cmds) /\ items' = 0
        /\ sounding' = FALSE
    BY <1>2, <1>15 DEF Stop, Sent
  <2>2. cmds' \in Seq(Sent) /\ Enqueues(cmds') = Enqueues(cmds) /\ (items > 0 => sounding)
    BY <1>14, <2>1
  <2> DEFINE j == [kind |-> "cancelled", n |-> items]
             k == [kind |-> "idle", n |-> 0]
  <2>3. j \in Events /\ j.kind # "idle" /\ j.n = items
    BY <1>2 DEF Events, EventKinds
  <2>4. k \in Events /\ k.kind = "idle" /\ k.n = 0
    BY DEF Events, EventKinds
  <2>5. \/ items > 0 /\ evs' = <<j, k>>
        \/ items = 0 /\ sounding /\ evs' = <<k>>
        \/ items = 0 /\ ~sounding /\ evs' = <<>>
    <3>1. CASE items > 0
      <4>1. evs' = (<<>> \o <<j>>) \o <<k>>
        BY <1>1, <1>15, <2>2, <3>1 DEF Stop, EventIf, Event
      <4> HIDE DEF j, k
      <4>2. evs' = <<j, k>>
        BY <4>1, Joined
      <4> QED BY <3>1, <4>2
    <3>2. CASE ~(items > 0) /\ sounding
      <4>1. evs' = (<<>> \o <<>>) \o <<k>>
        BY <1>1, <1>15, <3>2 DEF Stop, EventIf, Event
      <4> QED BY <1>2, <3>2, <4>1
    <3>3. CASE ~(items > 0) /\ ~sounding
      <4>1. evs' = (<<>> \o <<>>) \o <<>>
        BY <1>1, <1>15, <3>3 DEF Stop, EventIf, Event
      <4> QED BY <1>2, <3>3, <4>1
    <3> QED BY <3>1, <3>2, <3>3
  <2> HIDE DEF j, k
  <2>6. CASE items > 0 /\ evs' = <<j, k>>
    <3>1. EventsSettle' /\ evs' # <<>> /\ Pending(evs') = items + 0
      BY <1>7, <2>3, <2>4, <2>6
    <3>2. Typed' /\ Accounted'
      BY <1>2, <1>9, <2>1, <2>2, <3>1
    <3> QED BY <1>3, <1>5, <3>1, <3>2 DEF FInv
  <2>7. CASE items = 0 /\ sounding /\ evs' = <<k>>
    <3>1. EventsSettle' /\ evs' # <<>> /\ Pending(evs') = 0
      BY <1>6, <2>4, <2>7
    <3>2. Typed' /\ Accounted'
      BY <1>2, <1>9, <2>1, <2>2, <2>7, <3>1
    <3> QED BY <1>3, <1>5, <3>1, <3>2 DEF FInv
  <2>8. CASE items = 0 /\ ~sounding /\ evs' = <<>>
    <3>1. EventsSettle' /\ Pending(evs') = 0
      BY <1>8, <2>8
    <3>2. Typed' /\ Accounted'
      BY <1>2, <1>9, <2>1, <2>2, <2>8, <3>1
    <3>3. EndIsComing' /\ Prompted'
      BY <1>1, <2>1, <2>8 DEF FInv, EndIsComing, Prompted, Idling, Live
    <3> QED BY <1>3, <3>1, <3>2, <3>3 DEF FInv
  <2> QED BY <2>5, <2>6, <2>7, <2>8
<1>16. CASE Spare
  <2>1. PICK kept \in {0, 1}, told \in BOOLEAN :
          /\ kept <= items
          /\ told => kept = 1
          /\ items' = kept
          /\ evs' = evs \o EventIf(told, "protected", 0)
                        \o EventIf(items > kept, "cancelled", items - kept)
    BY <1>16 DEF Spare
  <2>2. /\ cmds # <<>> /\ Head(cmds) = "soft" /\ cmds' = Tail(cmds) /\ sounding' = sounding
    BY <1>16 DEF Spare
  <2>3. cmds' \in Seq(Sent) /\ Enqueues(cmds') = Enqueues(cmds) /\ (items > 0 => sounding)
    BY <1>14, <2>2
  <2> DEFINE j == [kind |-> "protected", n |-> 0]
             k == [kind |-> "cancelled", n |-> items - kept]
  <2>4. j \in Events /\ j.kind # "idle" /\ j.n = 0
    BY DEF Events, EventKinds
  <2>5. /\ items - kept \in Nat /\ items' \in Nat
        /\ Enqueues(cmds) + items <= Enqueues(cmds') + items' + (items - kept)
    BY <1>2, <2>1, <2>3
  <2>6. k \in Events /\ k.kind # "idle" /\ k.n = items - kept
    BY <2>5 DEF Events, EventKinds
  <2>7. CASE told
    <3>1. items > 0 /\ sounding
      BY <1>2, <2>1, <2>3, <2>7
    <3>2. CASE items > kept
      <4>1. evs' = (<<>> \o <<j>>) \o <<k>>
        BY <1>1, <2>1, <2>7, <3>2 DEF EventIf, Event
      <4> HIDE DEF j, k
      <4>2. evs' = <<j, k>>
        BY <4>1, Joined
      <4>3. EventsSettle' /\ evs' # <<>> /\ Pending(evs') = items - kept
        BY <1>7, <2>2, <2>4, <2>5, <2>6, <3>1, <4>2
      <4>4. Typed' /\ Accounted'
        BY <1>2, <1>9, <2>3, <2>5, <4>3
      <4> QED BY <1>3, <1>5, <4>3, <4>4 DEF FInv
    <3>3. CASE ~(items > kept)
      <4>1. evs' = (<<>> \o <<j>>) \o <<>>
        BY <1>1, <2>1, <2>7, <3>3 DEF EventIf, Event
      <4>2. evs' = <<j>>
        BY <4>1
      <4> HIDE DEF j, k
      <4>3. EventsSettle' /\ evs' # <<>> /\ Pending(evs') = 0
        BY <1>6, <2>2, <2>4, <3>1, <4>2
      <4>4. items' = items
        BY <1>2, <2>1, <3>3
      <4>5. Typed' /\ Accounted'
        BY <1>2, <1>9, <2>3, <4>3, <4>4
      <4> QED BY <1>3, <1>5, <4>3, <4>5 DEF FInv
    <3> QED BY <3>2, <3>3
  <2>8. CASE ~told
    <3>1. CASE items > kept
      <4>1. evs' = (<<>> \o <<>>) \o <<k>>
        BY <1>1, <2>1, <2>8, <3>1 DEF EventIf, Event
      <4> HIDE DEF j, k
      <4>2. evs' = <<k>>
        BY <4>1, Joined
      <4>20. sounding
        BY <1>2, <2>1, <2>3, <3>1
      <4>3. EventsSettle' /\ evs' # <<>> /\ Pending(evs') = items - kept
        BY <1>6, <2>2, <2>6, <4>2, <4>20
      <4>4. Typed' /\ Accounted'
        BY <1>2, <1>9, <2>3, <2>5, <4>3
      <4> QED BY <1>3, <1>5, <4>3, <4>4 DEF FInv
    <3>2. CASE ~(items > kept)
      <4>1. evs' = (<<>> \o <<>>) \o <<>>
        BY <1>1, <2>1, <2>8, <3>2 DEF EventIf, Event
      <4>2. evs' = <<>>
        BY <4>1
      <4>3. EventsSettle' /\ Pending(evs') = 0
        BY <1>8, <4>2
      <4>4. items' = items
        BY <1>2, <2>1, <3>2
      <4>5. Typed' /\ Accounted'
        BY <1>2, <1>9, <2>3, <4>3, <4>4
      <4>6. EndIsComing' /\ Prompted'
        BY <1>1, <1>4, <2>2, <4>2
      <4> QED BY <1>3, <4>3, <4>5, <4>6 DEF FInv
    <3> QED BY <3>1, <3>2
  <2> QED BY <2>7, <2>8
<1> QED BY <1>10, <1>11, <1>12, <1>13, <1>15, <1>16 DEF Playing, Play

-----------------------------------------------------------------------------
(* The theorems.                                                           *)

\* FInv is inductive: every step of the session or of the playout keeps it.
THEOREM Invariant ==
    ASSUME Trouble = {}, Speculate = FALSE, MayBeSilent = FALSE
    PROVE  PartsSpec => []FInv
<1>1. Init => FInv
  BY InitKeeps
<1>2. FInv /\ [Next]_vars => FInv'
  <2> SUFFICES ASSUME FInv, [Next]_vars PROVE FInv'
    OBVIOUS
  <2>1. CASE UNCHANGED vars
    BY <2>1, StillKeeps DEF vars, playout, mouth, ear, timers, turn
  <2>2. CASE PlayoutEvents
    BY <2>2, ItemKeeps, IdleKeeps DEF PlayoutEvents
  <2> QED BY <2>1, <2>2, PlayingKeeps, CallerKeeps, SttKeeps, TimerKeeps, ResultKeeps DEF Next
<1>3. PartsInit => Init
  BY DEF PartsInit
<1>4. [PartsNext]_<<part, vars, questionVars>> => [Next]_vars
  BY DEF PartsNext, StepFloor, StepQuestions
<1> QED BY <1>1, <1>2, <1>3, <1>4, PTL DEF PartsSpec

(* "Never leave the caller in silence" (session.rs): whenever nobody speaks
   and nothing is under way, a timer that asks again is on, however much the
   agent has queued and however many commands are on their way. *)
THEOREM NoDeadAirHolds ==
    ASSUME Trouble = {}, Speculate = FALSE, MayBeSilent = FALSE
    PROVE  PartsSpec => []NoDeadAir
<1>1. FInv => NoDeadAir
  <2> SUFFICES ASSUME FInv, Quiet, ~noWords PROVE agent # "guess" /\ ~after /\ silence
    BY DEF NoDeadAir
  <2>1. cmds = <<>> /\ items = 0 /\ evs = <<>> /\ queued \in Nat
    BY DEF Quiet, FInv, Typed
  <2>2. queued <= 0 + 0 + 0
    BY <2>1, EnqueuesNone DEF FInv, Accounted, Pending
  <2>3. queued = 0 /\ agent = "none"
    BY <2>1, <2>2 DEF FInv, Typed, Quiet, Thinking
  <2>4. Idling
    BY <2>1, <2>3 DEF Quiet, Idling
  <2> QED BY <2>3, <2>4 DEF FInv, Prompted
<1> QED BY <1>1, Invariant, PTL

-----------------------------------------------------------------------------
(* Questions.  No question is asked past a required detail that is missing,   *)
(* whatever the language model asks and whatever is said, and no answer to a  *)
(* question that was noted is dropped.                                        *)
(*                                                                            *)
(* The engine's own questions are the first of what is missing; a detail it   *)
(* goes back to was asked for before.  The model's own question was let pass  *)
(* by the gate, on a copy of the call: what remains is that the engine, which *)
(* takes the values after it, with two corrections the gate does not know (a  *)
(* town that changes places, a street passed as nothing), gives every detail  *)
(* that the gate thought given (TakeAgrees; StreetHeard for the second, the   *)
(* first is set apart in the property).                                       *)

(* The kinds of things said and of values passed. *)
ThingKinds == {"town", "address", "street", "nowhere", "number", "many", "name"}

Values ==
    {x \in [slot : Q!Slots, is : ThingKinds, town : Towns \cup {None}, with : Q!Slots \cup {None}] :
        x.is = "town" => x.slot \in Q!Places /\ x.town \in Towns}

Things ==
    {i \in [is : ThingKinds, town : Towns \cup {None}, with : Q!Slots \cup {None}] :
        /\ i.is = "town" => i.with \in Q!Places \cup {None} /\ i.town \in Towns
        /\ i.is # "town" => i.with \in {"passengers", None}}

(* A call keeps values under details, of a town noted in part the town, and
   asks for one detail at a time. *)
CallOK(c) ==
    /\ c \in [given : SUBSET Values, city : SUBSET {x \in Values : x.is = "town"}, asks : SUBSET Q!Slots,
              asked : SUBSET Q!Slots, open : [Q!Slots -> Nat], same : BOOLEAN]
    /\ \A a, b \in c.asks : a = b

(* The details of the booking. *)
LEMMA SlotsAre ==
    /\ Q!Slots = {"pickup", "destination", "passengers", "customer_name"}
    /\ Q!Places = {"pickup", "destination"}
    /\ Q!Required = {"pickup", "destination", "passengers"}
    /\ Q!Rank \in [Q!Slots -> Nat]
    /\ Q!Rank["pickup"] = 1 /\ Q!Rank["destination"] = 2 /\ Q!Rank["passengers"] = 3 /\ Q!Rank["customer_name"] = 4
  BY DEF Q!Slots, Q!Rank, Q!Places, Q!Required

LEMMA SlotsFinite == IsFiniteSet(Q!Slots)
<1>1. IsFiniteSet({} \cup {"pickup"})
  BY FS_EmptySet, FS_AddElement, Zenon
<1>2. IsFiniteSet(({} \cup {"pickup"}) \cup {"destination"})
  BY <1>1, FS_AddElement, Zenon
<1>3. IsFiniteSet((({} \cup {"pickup"}) \cup {"destination"}) \cup {"passengers"})
  BY <1>2, FS_AddElement, Zenon
<1>4. IsFiniteSet(((({} \cup {"pickup"}) \cup {"destination"}) \cup {"passengers"}) \cup {"customer_name"})
  BY <1>3, FS_AddElement, Zenon
<1>5. Q!Slots = ((({} \cup {"pickup"}) \cup {"destination"}) \cup {"passengers"}) \cup {"customer_name"}
  BY SlotsAre
<1> QED
  BY <1>4, <1>5

(* Of some details one comes first. *)
LEMMA EarliestIs ==
    ASSUME NEW place \in [Q!Slots -> Nat], NEW S \in SUBSET Q!Slots, S # {}
    PROVE  /\ Q!Earliest(place, S) \in S
           /\ \A z \in S : place[Q!Earliest(place, S)] <= place[z]
<1>1. \E s \in S : \A z \in S : place[s] <= place[z]
  <2> SUFFICES ASSUME \A s \in S : \E z \in S : place[z] < place[s]
               PROVE  FALSE
    <3>1. \A s \in S : place[s] \in Nat
      OBVIOUS
    <3> QED
      BY <3>1
  <2>1. PICK a \in S : TRUE
    OBVIOUS
  <2>2. PICK b \in S : place[b] < place[a]
    OBVIOUS
  <2>3. PICK c \in S : place[c] < place[b]
    OBVIOUS
  <2>4. PICK d \in S : place[d] < place[c]
    OBVIOUS
  <2>5. PICK e \in S : place[e] < place[d]
    OBVIOUS
  <2>6. \A s \in {a, b, c, d, e} : place[s] \in Nat
    OBVIOUS
  <2>7. a # b /\ a # c /\ a # d /\ a # e /\ b # c /\ b # d /\ b # e /\ c # d /\ c # e /\ d # e
    BY <2>2, <2>3, <2>4, <2>5, <2>6
  <2> QED
    BY <2>7, SlotsAre
<1> QED
  BY <1>1 DEF Q!Earliest

LEMMA FirstOfIs ==
    ASSUME NEW S \in SUBSET Q!Slots, S # {}
    PROVE  Q!FirstOf(S) \in S /\ \A z \in S : z \notin Q!Before(Q!FirstOf(S))
<1>1. Q!FirstOf(S) \in S /\ \A z \in S : Q!Rank[Q!FirstOf(S)] <= Q!Rank[z]
  BY EarliestIs, SlotsAre DEF Q!FirstOf
<1>2. ASSUME NEW z \in S, z \in Q!Before(Q!FirstOf(S))
      PROVE  FALSE
  <2>1. Q!Rank[z] < Q!Rank[Q!FirstOf(S)] /\ Q!Rank[Q!FirstOf(S)] <= Q!Rank[z]
    BY <1>1, <1>2 DEF Q!Before
  <2>2. Q!Rank[z] \in Nat /\ Q!Rank[Q!FirstOf(S)] \in Nat
    BY <1>1, SlotsAre
  <2> QED
    BY <2>1, <2>2
<1> QED
  BY <1>1, <1>2

SaidOK(w) == w.items \subseteq Things /\ IsFiniteSet(w.items)

(* What is said, and what is passed of it. *)
LEMMA SaidThings ==
    ASSUME NEW h \in Q!Heard
    PROVE  SaidOK(h.words) /\ h.fields \subseteq Values
<1>1. PICK w \in Q!Words : h.words = w /\ h.fields \in Q!Fields(w)
  BY DEF Q!Heard
<1>2. w.items \in Q!Said
  BY DEF Q!Words
<1>3. ASSUME NEW i \in w.items
      PROVE  i \in Q!PlaceThings \cup Q!NumberThings \cup {Q!NameThing}
  BY <1>2, <1>3, SlotsAre DEF Q!Said, Q!PlaceThings, Q!NumberThings, Q!NameThing, Q!Thing
<1>4. ASSUME NEW i \in Q!PlaceThings
      PROVE  i \in Things
  BY <1>4, SlotsAre DEF Q!PlaceThings, Q!Thing, Things, ThingKinds
<1>5. ASSUME NEW i \in Q!NumberThings \cup {Q!NameThing}
      PROVE  i \in Things /\ i.is # "town"
  BY <1>5, SlotsAre DEF Q!NumberThings, Q!NameThing, Q!Thing, Things, ThingKinds
<1>6. w.items \subseteq Things
  BY <1>3, <1>4, <1>5
<1>7. ASSUME NEW x \in h.fields
      PROVE  x \in Values
  <2>1. PICK i \in w.items : \E s \in Q!Fits(i) : x = Q!Field(s, i)
    BY <1>1, <1>7 DEF Q!Fields
  <2>0. PICK s \in Q!Fits(i) : x = Q!Field(s, i)
    BY <2>1
  <2>2. s \in Q!Slots /\ (i.is = "town" => s \in Q!Places)
    BY <2>0, <1>3, <1>5, SlotsAre DEF Q!Fits
  <2>3. i \in Things
    BY <1>6, <2>1
  <2> QED
    BY <2>0, <2>2, <2>3 DEF Q!Field, Values, Things
<1>8. IsFiniteSet(w.items)
  <2>1. \/ w.items = {}
        \/ \E i : w.items = {i}
        \/ \E i, j : w.items = {i} \cup {j}
    <3>1. CASE w.items \in {{i} : i \in Q!PlaceThings \cup Q!NumberThings \cup {Q!NameThing}}
      BY <3>1
    <3>2. CASE \E t, u : w.items = {Q!Thing("town", t, "pickup"), Q!Thing("town", u, "destination")}
      <4>1. PICK t, u : w.items = {Q!Thing("town", t, "pickup"), Q!Thing("town", u, "destination")}
        BY <3>2
      <4>2. w.items = {Q!Thing("town", t, "pickup")} \cup {Q!Thing("town", u, "destination")}
        BY <4>1
      <4> QED
        BY <4>2
    <3>3. CASE \E t : w.items = {Q!Thing("address", t, None), Q!Thing("number", None, "passengers")}
      <4>1. PICK t : w.items = {Q!Thing("address", t, None), Q!Thing("number", None, "passengers")}
        BY <3>3
      <4>2. w.items = {Q!Thing("address", t, None)} \cup {Q!Thing("number", None, "passengers")}
        BY <4>1
      <4> QED
        BY <4>2
    <3> QED
      BY <1>2, <3>1, <3>2, <3>3 DEF Q!Said
  <2>2. ASSUME NEW i
        PROVE  IsFiniteSet({i})
    BY FS_Singleton, Zenon
  <2>3. ASSUME NEW i, NEW j
        PROVE  IsFiniteSet({i} \cup {j})
    BY <2>2, FS_AddElement, Zenon
  <2>4. IsFiniteSet({})
    BY FS_EmptySet
  <2>5. CASE \E i : w.items = {i}
    <3>1. PICK i : w.items = {i}
      BY <2>5
    <3>2. IsFiniteSet({i})
      BY <2>2
    <3> QED
      BY <3>1, <3>2, Zenon
  <2>6. CASE \E i, j : w.items = {i} \cup {j}
    <3>1. PICK i, j : w.items = {i} \cup {j}
      BY <2>6
    <3>2. IsFiniteSet({i} \cup {j})
      BY <2>3
    <3> QED
      BY <3>1, <3>2, Zenon
  <2> QED
    BY <2>1, <2>4, <2>5, <2>6, Zenon
<1> QED
  BY <1>1, <1>6, <1>7, <1>8 DEF SaidOK

(* The town of a detail is a town, or there is none. *)
LEMMA TownAtIs ==
    ASSUME NEW f \in SUBSET Values, NEW s
    PROVE  Q!TownAt(f, s) \in Towns \cup {None}
<1>1. CASE \E x \in f : x.slot = s
  <2>1. (CHOOSE x \in f : x.slot = s) \in f
    BY <1>1
  <2> QED
    BY <1>1, <2>1 DEF Q!TownAt, Values
<1> QED
  BY <1>1 DEF Q!TownAt

LEMMA TownThing ==
    ASSUME NEW p \in Q!Places, NEW t \in Towns, NEW k \in {"town", "address"}
    PROVE  Q!Field(p, Q!Thing(k, t, None)) \in Values
  BY SlotsAre DEF Q!Field, Q!Thing, Values, ThingKinds

LEMMA NamedAre ==
    ASSUME NEW w, w.items \subseteq Things
    PROVE  Q!TownsNamed(w) \subseteq Towns
  BY DEF Q!TownsNamed, Things

LEMMA ByPrepositionTyped ==
    ASSUME NEW f \in SUBSET Values
    PROVE  Q!ByPreposition(f) \subseteq Values
<1> SUFFICES ASSUME NEW x \in f, x.slot \in Q!Places
             PROVE  [x EXCEPT !.slot = Q!Other(@)] \in Values
  BY DEF Q!ByPreposition
<1>1. Q!Other(x.slot) \in Q!Places /\ Q!Other(x.slot) \in Q!Slots
  BY SlotsAre DEF Q!Other
<1> QED
  BY <1>1 DEF Values

LEMMA WithPatternsTyped ==
    ASSUME NEW c, NEW w, w.items \subseteq Things, NEW f \in SUBSET Values
    PROVE  Q!WithPatterns(c, w, f) \subseteq Values
<1> SUFFICES ASSUME NEW i \in w.items, i.with # None
             PROVE  Q!Field(i.with, i) \in Values
  BY DEF Q!WithPatterns
<1> QED
  BY SlotsAre DEF Things, Values, Q!Field

LEMMA WithCityCorrectionTyped ==
    ASSUME NEW c, CallOK(c), NEW w, w.items \subseteq Things, NEW f \in SUBSET Values
    PROVE  Q!WithCityCorrection(c, w, f) \subseteq Values
<1> DEFINE focus == c.asks \cap Q!SlotsOf(c.city)
<1> SUFFICES ASSUME focus # {}, NEW t \in Q!TownsNamed(w)
             PROVE  Q!Field(Q!FirstOf(focus), Q!Thing("town", t, None)) \in Values
  BY DEF Q!WithCityCorrection
<1>1. focus \subseteq Q!Places
  BY DEF CallOK, Q!SlotsOf, Values
<1>2. Q!FirstOf(focus) \in Q!Places
  BY <1>1, FirstOfIs, SlotsAre
<1> QED
  BY <1>2, TownThing, NamedAre

LEMMA CorrectedTyped ==
    ASSUME NEW c, CallOK(c), NEW w, w.items \subseteq Things, NEW f \in SUBSET Values
    PROVE  Q!Corrected(c, w, f) \subseteq Values
<1>1. Q!WithPatterns(c, w, Q!ByPreposition(f)) \subseteq Values
  BY ByPrepositionTyped, WithPatternsTyped
<1> DEFINE a == Q!AnswerInPlace(c, w, Q!WithPatterns(c, w, Q!ByPreposition(f)))
<1>2. a \subseteq Values
  BY <1>1 DEF Q!AnswerInPlace
<1>3. Q!WithCues(c, w, a) \subseteq Values
  BY <1>2 DEF Q!WithCues
<1> QED
  BY <1>3, WithCityCorrectionTyped DEF Q!Corrected

LEMMA WithSameCityTyped ==
    ASSUME NEW c, CallOK(c), NEW w, w.items \subseteq Things, NEW f \in SUBSET Values
    PROVE  Q!WithSameCity(c, w, f) \subseteq Values
<1> DEFINE townOf(p) ==
            IF Q!TownAt(f, p) # None THEN Q!TownAt(f, p)
            ELSE IF Q!TownAt(c.city, p) # None THEN Q!TownAt(c.city, p) ELSE Q!TownAt(c.given, p)
           towns == IF \A p \in Q!Places : townOf(p) = None THEN Q!TownsNamed(w)
                    ELSE {townOf(p) : p \in Q!Places} \ {None}
<1>1. \A p : townOf(p) \in Towns \cup {None}
  BY TownAtIs DEF CallOK
<1>2. towns \subseteq Towns
  BY <1>1, NamedAre
<1>3. \A p \in Q!Places, t \in towns, k \in {"town", "address"} : Q!Field(p, Q!Thing(k, t, None)) \in Values
  BY <1>2, TownThing
<1> HIDE DEF towns, townOf
<1>4. ASSUME NEW x \in Q!WithSameCity(c, w, f), x \notin f
      PROVE  \E p \in Q!Places, t \in towns, k \in {"town", "address"} : x = Q!Field(p, Q!Thing(k, t, None))
  BY <1>4 DEF Q!WithSameCity, towns, townOf
<1> QED
  BY <1>3, <1>4

LEMMA StreetAnswerTyped ==
    ASSUME NEW c, CallOK(c), NEW w, w.items \subseteq Things, NEW f \in SUBSET Values
    PROVE  Q!StreetAnswer(c, w, f) \subseteq Values
<1> DEFINE wanted == (c.asks \cap Q!SlotsOf(c.city)) \ Q!SlotsOf(c.given)
           p == Q!FirstOf(wanted)
           found(i) ==
              CASE i.is = "street" -> Q!Thing("address", Q!TownAt(c.city, p), None)
                [] i.is = "town" /\ i.town = Q!TownAt(c.city, p) -> Q!Thing("town", i.town, None)
                [] OTHER -> Q!Thing("nowhere", None, None)
<1> SUFFICES ASSUME wanted # {}, NEW i \in w.items
             PROVE  Q!Field(p, found(i)) \in Values
  BY DEF Q!StreetAnswer
<1>1. wanted \subseteq Q!Places
  BY DEF CallOK, Q!SlotsOf, Values
<1>2. p \in Q!Places /\ p \in Q!Slots
  BY <1>1, FirstOfIs, SlotsAre
<1>3. Q!TownAt(c.city, p) \in Towns \cup {None} /\ (i.is = "town" => i.town \in Towns)
  BY TownAtIs DEF CallOK, Things
<1> HIDE DEF p
<1>4. found(i) \in {Q!Thing("address", Q!TownAt(c.city, p), None), Q!Thing("nowhere", None, None)} \/ (i.is = "town" /\ found(i) = Q!Thing("town", i.town, None))
  OBVIOUS
<1> HIDE DEF found
<1> QED
  BY <1>2, <1>3, <1>4 DEF Q!Field, Q!Thing, Values, ThingKinds

(* Taking the values leaves the questions as they are. *)
LEMMA ApplyTyped ==
    ASSUME NEW c, CallOK(c), NEW f \in SUBSET Values
    PROVE  CallOK(Q!Apply(c, f)) /\ Q!Apply(c, f).open = c.open /\ Q!Apply(c, f).asks = c.asks
<1>1. \A x \in f : Q!Kept(c, x) \in Values
  <2> SUFFICES ASSUME NEW x \in f PROVE Q!Kept(c, x) \in Values
    OBVIOUS
  <2>1. Q!Known(c, x.slot) \in Towns \cup {None}
    BY TownAtIs DEF Q!Known, CallOK
  <2>2. CASE x.is = "street"
    BY <2>1, <2>2 DEF Q!Kept, Q!Field, Q!Thing, Values, ThingKinds
  <2>3. CASE x.is # "street"
    BY <2>3 DEF Q!Kept, Values
  <2> QED
    BY <2>2, <2>3
<1>2. \A x \in Q!Noted(c, f) : x \in f /\ Q!Kept(c, x).is = "town"
  BY DEF Q!Noted, Q!Kept, Values
<1> DEFINE noted == Q!Noted(c, f)
           taken == f \ (Q!Refused(c, f) \cup noted)
           replaced == Q!SlotsOf(taken)
           stale(y) == \E x \in noted : x.slot = y.slot /\ x.town # y.town
           given == {y \in c.given : y.slot \notin replaced /\ ~stale(y)} \cup {Q!Kept(c, x) : x \in taken}
           city == {y \in c.city : y.slot \notin replaced \cup Q!SlotsOf(noted)} \cup {Q!Kept(c, x) : x \in noted}
<1>3. Q!Apply(c, f) = [c EXCEPT !.given = given, !.city = city]
  BY DEF Q!Apply
<1>4. given \in SUBSET Values
  BY <1>1 DEF CallOK
<1>5. city \in SUBSET {x \in Values : x.is = "town"}
  BY <1>1, <1>2 DEF CallOK
<1> HIDE DEF given, city
<1> QED
  BY <1>3, <1>4, <1>5 DEF CallOK

LEMMA SameSizeQ ==
    ASSUME NEW S
    PROVE  Q!Cardinality(S) = Cardinality(S)
  BY Zenon DEF Q!Cardinality, Cardinality

(* The details are as they were. *)
Kept(c, d) == d.given = c.given /\ d.city = c.city

(* Noting a question leaves them so. *)
LEMMA NoteAskedTyped ==
    ASSUME NEW c, CallOK(c), NEW S \in SUBSET Q!Slots, \A a, b \in S : a = b
    PROVE  CallOK(Q!NoteAsked(c, S)) /\ Kept(c, Q!NoteAsked(c, S))
<1> DEFINE new == S \ Q!Open(c)
           line == IF new = {} THEN c.open ELSE [c.open EXCEPT ![Q!FirstOf(new)] = Q!Cardinality(Q!Open(c)) + 1]
           left == Q!StillOpen(c, line)
           place(s) == Q!Cardinality({z \in left : line[z] <= line[s]})
           open == [s \in Q!Slots |-> IF s \in left THEN place(s) ELSE 0]
<1>1. Q!NoteAsked(c, S) = [c EXCEPT !.asks = S, !.asked = @ \cup (S \ Q!Required), !.open = open]
  BY DEF Q!NoteAsked
<1> HIDE DEF line
<1>2. \A s : place(s) \in Nat
  <2> SUFFICES ASSUME NEW s PROVE place(s) \in Nat
    OBVIOUS
  <2> DEFINE P == {z \in left : line[z] <= line[s]}
  <2>1. P \subseteq Q!Slots
    BY SlotsAre DEF Q!StillOpen
  <2> HIDE DEF P
  <2>2. Cardinality(P) \in Nat
    BY <2>1, SlotsFinite, FS_Subset, FS_CardinalityType
  <2> QED
    BY <2>2, SameSizeQ DEF P
<1> HIDE DEF place
<1>3. open \in [Q!Slots -> Nat]
  BY <1>2
<1> HIDE DEF open
<1>4. c.asked \cup (S \ Q!Required) \in SUBSET Q!Slots
  BY DEF CallOK
<1> QED
  BY <1>1, <1>3, <1>4 DEF CallOK, Kept

-----------------------------------------------------------------------------
(* The order. *)

(* No required detail before those of S is missing. *)
Ordered(c, S) == \A s \in S : Q!Required \cap Q!Before(s) \subseteq Q!SlotsOf(c.given)

(* The detail that is next in the order may be asked. *)
LEMMA ExpectedIsFirst ==
    ASSUME NEW c, NEW S, Q!ExpectedSlot(c) \in S \cup {None}, \A a, b \in S : a = b, S \subseteq Q!Slots
    PROVE  Ordered(c, S)
<1>1. Q!Required \cap Q!Missing(c) \subseteq Q!Wanted(c) /\ Q!Wanted(c) \subseteq Q!Slots
  BY DEF Q!Wanted, Q!Missing
<1>2. CASE Q!Wanted(c) = {}
  BY <1>1, <1>2, SlotsAre DEF Ordered, Q!Missing
<1>3. CASE Q!Wanted(c) # {}
  <2>1. Q!ExpectedSlot(c) = Q!FirstOf(Q!Wanted(c))
    BY <1>3 DEF Q!ExpectedSlot
  <2>2. Q!ExpectedSlot(c) \in Q!Wanted(c) /\ \A z \in Q!Wanted(c) : z \notin Q!Before(Q!ExpectedSlot(c))
    BY <2>1, <1>1, <1>3, FirstOfIs
  <2>3. Q!ExpectedSlot(c) \in S
    BY <2>2, <1>1, NoneAssumption
  <2>4. S = {Q!ExpectedSlot(c)}
    BY <2>3
  <2> QED
    BY <2>2, <2>4, <1>1, SlotsAre DEF Ordered, Q!Missing, Q!Before
<1> QED
  BY <1>2, <1>3

(* An outcome with the details of c, which are read back when they are all there. *)
Whole(c, o) ==
    /\ CallOK(o.call) /\ Kept(c, o.call)
    /\ o.done => Q!Required \subseteq Q!SlotsOf(o.call.given)

(* And whose question may be asked. *)
Settled(c, o) == Whole(c, o) /\ Ordered(c, o.air)

LEMMA AskTyped ==
    ASSUME NEW c, CallOK(c), NEW s \in Q!Slots
    PROVE  Whole(c, Q!Ask(c, s)) /\ Q!Ask(c, s).air = {s}
  BY NoteAskedTyped DEF Q!Ask, Q!Outcome, Whole

LEMMA NextQuestionSettles ==
    ASSUME NEW c, CallOK(c)
    PROVE  Settled(c, Q!NextQuestion(c, Q!ExpectedSlot(c)))
<1> DEFINE next == Q!ExpectedSlot(c)
<1>1. CASE next = None
  <2>1. Q!Wanted(c) = {}
    <3> SUFFICES ASSUME Q!Wanted(c) # {} PROVE FALSE
      OBVIOUS
    <3>1. Q!ExpectedSlot(c) \in Q!Wanted(c) /\ Q!Wanted(c) \subseteq Q!Slots
      BY FirstOfIs DEF Q!ExpectedSlot, Q!Wanted, Q!Missing
    <3> QED
      BY <1>1, <3>1, NoneAssumption
  <2>2. Q!Required \subseteq Q!SlotsOf(c.given)
    BY <2>1, SlotsAre DEF Q!Wanted, Q!Missing
  <2> QED
    BY <1>1, <2>2 DEF Q!NextQuestion, Q!ReadBack, Q!Outcome, Settled, Whole, Kept, Ordered
<1>2. CASE next # None
  <2>1. next \in Q!Slots
    <3>1. Q!Wanted(c) \subseteq Q!Slots /\ Q!Wanted(c) # {}
      BY <1>2 DEF Q!Wanted, Q!Missing, Q!ExpectedSlot
    <3> QED
      BY <3>1, FirstOfIs DEF Q!ExpectedSlot
  <2>2. Ordered(c, {next})
    BY <2>1, ExpectedIsFirst
  <2> QED
    BY <1>2, <2>1, <2>2, AskTyped DEF Q!NextQuestion, Settled
<1> QED
  BY <1>1, <1>2

LEMMA AdvanceSettles ==
    ASSUME NEW c, CallOK(c)
    PROVE  Settled(c, Q!Advance(c))
<1> DEFINE left == Q!Required \cap Q!Missing(c)
<1>1. CASE left = {}
  <2>1. Q!Required \subseteq Q!SlotsOf(c.given)
    BY <1>1, SlotsAre DEF Q!Missing
  <2> QED
    BY <1>1, <2>1 DEF Q!Advance, Q!ReadBack, Q!Outcome, Settled, Whole, Kept, Ordered
<1>2. CASE left # {}
  <2>1. left \subseteq Q!Slots
    BY DEF Q!Missing
  <2>2. Q!FirstOf(left) \in left /\ \A z \in left : z \notin Q!Before(Q!FirstOf(left))
    BY <2>1, <1>2, FirstOfIs
  <2>3. Ordered(c, {Q!FirstOf(left)})
    BY <2>2, SlotsAre DEF Ordered, Q!Missing, Q!Before
  <2> QED
    BY <1>2, <2>1, <2>2, <2>3, AskTyped DEF Q!Advance, Settled
<1> QED
  BY <1>1, <1>2

-----------------------------------------------------------------------------
(* The gate and the engine.                                                *)

(* The details there are once the values are taken. *)
LEMMA GivenAfter ==
    ASSUME NEW c, CallOK(c), NEW f \in SUBSET Values, NEW s
    PROVE  s \in Q!SlotsOf(Q!Apply(c, f).given) <=>
             \/ \E x \in f : x.slot = s /\ x \notin Q!Refused(c, f) \cup Q!Noted(c, f)
             \/ \E y \in c.given : y.slot = s /\ \A x \in Q!Noted(c, f) : x.slot = s => x.town = y.town
<1> DEFINE noted == Q!Noted(c, f)
           taken == f \ (Q!Refused(c, f) \cup noted)
           replaced == Q!SlotsOf(taken)
           stale(y) == \E x \in noted : x.slot = y.slot /\ x.town # y.town
           given == {y \in c.given : y.slot \notin replaced /\ ~stale(y)} \cup {Q!Kept(c, x) : x \in taken}
<1>1. Q!Apply(c, f).given = given
  BY DEF Q!Apply, CallOK
<1>2. \A x \in f : Q!Kept(c, x).slot = x.slot
  BY DEF Q!Kept, Q!Field, Values
<1>3. s \in Q!SlotsOf(given) <=>
        \/ \E x \in taken : x.slot = s
        \/ \E y \in c.given : y.slot = s /\ s \notin replaced /\ ~stale(y)
  BY <1>2 DEF Q!SlotsOf
<1>4. s \in replaced <=> \E x \in taken : x.slot = s
  BY DEF Q!SlotsOf
<1> QED
  BY <1>1, <1>3, <1>4

(* The values taken depend on the details alone. *)
LEMMA SameDetails ==
    ASSUME NEW c, CallOK(c), NEW b, CallOK(b), b.given = c.given, b.city = c.city, NEW f \in SUBSET Values
    PROVE  Q!SlotsOf(Q!Apply(b, f).given) = Q!SlotsOf(Q!Apply(c, f).given)
<1>1. Q!Refused(b, f) = Q!Refused(c, f) /\ Q!Noted(b, f) = Q!Noted(c, f)
  BY DEF Q!Refused, Q!Noted, Q!Known
<1>2. \A s : s \in Q!SlotsOf(Q!Apply(b, f).given) <=> s \in Q!SlotsOf(Q!Apply(c, f).given)
  BY <1>1, GivenAfter
<1> QED
  BY <1>2

(* The words that answer a question for a street, when the model passed nothing: what the
   engine makes of them gives every detail that the gate thought given. *)
LEMMA StreetHeard ==
    ASSUME NEW c, CallOK(c), NEW w, SaidOK(w), Q!StreetAnswer(c, w, {}) # {}
    PROVE  Q!SlotsOf(Q!Apply(c, Q!Corrected(c, w, {})).given)
             \subseteq Q!SlotsOf(Q!Apply(c, Q!Corrected(c, w, Q!StreetAnswer(c, w, {}))).given)
<1> DEFINE wanted == (c.asks \cap Q!SlotsOf(c.city)) \ Q!SlotsOf(c.given)
           p == Q!FirstOf(wanted)
           town == Q!TownAt(c.city, p)
           found(i) ==
              CASE i.is = "street" -> Q!Thing("address", town, None)
                [] i.is = "town" /\ i.town = town -> Q!Thing("town", i.town, None)
                [] OTHER -> Q!Thing("nowhere", None, None)
<1>1. /\ wanted # {} /\ Q!Cardinality(w.items) = 1 /\ ~w.correct
      /\ Q!StreetAnswer(c, w, {}) = {Q!Field(p, found(i)) : i \in w.items}
  BY DEF Q!StreetAnswer
<1>2. PICK i : w.items = {i}
  <2>1. Cardinality(w.items) = 1
    BY <1>1, SameSizeQ
  <2> QED
    BY <2>1, FS_Singleton DEF SaidOK
<1>3. /\ wanted \subseteq Q!Places /\ wanted \subseteq Q!Slots
  BY SlotsAre DEF CallOK, Q!SlotsOf, Values
<1>4. /\ p \in Q!Places /\ p \in c.asks /\ p \in Q!SlotsOf(c.city) /\ p \notin Q!SlotsOf(c.given)
  BY <1>1, <1>3, FirstOfIs
<1>5. c.asks = {p}
  BY <1>4 DEF CallOK
<1>6. Q!FirstOf(c.asks \cap Q!SlotsOf(c.city)) = p
  <2>1. c.asks \cap Q!SlotsOf(c.city) = wanted
    BY <1>4, <1>5
  <2> QED
    BY <2>1
<1> DEFINE v == Q!Field(p, found(i))
           own == {Q!Field(j.with, j) : j \in {j \in w.items :
                      /\ j.with # None
                      /\ j.with \in Q!Places => j.is = "town"
                      /\ j.with \notin Q!SlotsOf(c.given)}}
<1>7. v \in Values /\ v.slot = p /\ v.with = None /\ Q!StreetAnswer(c, w, {}) = {v}
  <2>1. Q!StreetAnswer(c, w, {}) = {v}
    BY <1>1, <1>2
  <2>2. v \in Values
    BY <2>1, StreetAnswerTyped DEF SaidOK
  <2>3. found(i).with = None
    BY DEF Q!Thing
  <2> QED
    BY <2>1, <2>2, <2>3 DEF Q!Field
<1>8. i.is = "town" /\ i.town = town => v.is = "town" /\ v.town = town
  BY DEF Q!Thing, Q!Field
<1> HIDE DEF v, p, found, wanted, town
<1>9. \A x \in own : /\ x \in Values /\ x = Q!Field(i.with, i) /\ x.slot = i.with /\ x.is = i.is /\ x.town = i.town
                     /\ x.slot \notin Q!SlotsOf(c.given)
                     /\ x.slot \in Q!Places => x.is = "town"
  BY <1>2, SlotsAre DEF Q!Field, Things, Values, SaidOK
<1> DEFINE gate == Q!Corrected(c, w, {})
           taken == Q!Corrected(c, w, {v})
           others == {x \in own : x.slot # p}
<1>10. Q!WithPatterns(c, w, Q!ByPreposition({})) = own
  BY DEF Q!WithPatterns, Q!ByPreposition, Q!SlotsOf
<1>11. Q!AnswerInPlace(c, w, own) = own
  BY <1>9 DEF Q!AnswerInPlace
<1>12. Q!WithCues(c, w, own) = own
  BY <1>2, <1>9 DEF Q!WithCues
<1>13. gate = Q!WithCityCorrection(c, w, own)
  BY <1>10, <1>11, <1>12 DEF Q!Corrected
<1>14. own \subseteq gate /\ \A x \in gate : x \in own \/ (x.slot = p /\ x.is = "town" /\ x.town # town)
  <2> DEFINE towns == Q!TownsNamed(w) \ {town}
             more == {Q!Field(p, Q!Thing("town", t, None)) : t \in towns}
  <2> HIDE DEF own
  <2>1. gate = own \/ gate = own \cup more
    BY <1>13, <1>6 DEF Q!WithCityCorrection, town
  <2>2. \A x \in more : x.slot = p /\ x.is = "town" /\ x.town # town
    BY DEF Q!Field, Q!Thing
  <2> QED
    BY <2>1, <2>2
<1>15. Q!ByPreposition({v}) = {v}
  BY <1>7, SlotsAre, NoneAssumption DEF Q!ByPreposition, Q!Other
<1>16. Q!WithPatterns(c, w, {v}) = {v} \cup others
  <2>1. Q!SlotsOf({v}) = {p}
    BY <1>7 DEF Q!SlotsOf
  <2>2. Q!WithPatterns(c, w, {v}) = {v} \cup {Q!Field(j.with, j) : j \in {j \in w.items :
                      /\ j.with # None
                      /\ j.with \in Q!Places => j.is = "town"
                      /\ j.with \notin {p} \cup Q!SlotsOf(c.given)}}
    BY <2>1 DEF Q!WithPatterns
  <2>3. \A j : Q!Field(j.with, j).slot = j.with
    BY DEF Q!Field
  <2> QED
    BY <2>2, <2>3
<1> HIDE DEF own
<1>17. Q!AnswerInPlace(c, w, {v} \cup others) = {v} \cup others
  BY <1>4, <1>7, <1>9 DEF Q!AnswerInPlace
<1>18. Q!WithCues(c, w, {v} \cup others) = {v} \cup others
  BY <1>5, <1>7 DEF Q!WithCues, Q!SlotsOf
<1>19. Q!WithCityCorrection(c, w, {v} \cup others) = {v} \cup others
  BY <1>6, <1>7 DEF Q!WithCityCorrection, Q!Of
<1>20. taken = {v} \cup others
  BY <1>15, <1>16, <1>17, <1>18, <1>19 DEF Q!Corrected
<1>21. gate \subseteq Values /\ taken \subseteq Values
  BY <1>7, CorrectedTyped DEF SaidOK
<1> HIDE DEF gate, taken
<1> SUFFICES ASSUME NEW s \in Q!SlotsOf(Q!Apply(c, gate).given)
             PROVE  s \in Q!SlotsOf(Q!Apply(c, taken).given)
  BY <1>7 DEF gate, taken
<1>22. \A x \in others : /\ x \in gate
                         /\ x \in Q!Refused(c, taken) <=> x \in Q!Refused(c, gate)
                         /\ x \in Q!Noted(c, taken) <=> x \in Q!Noted(c, gate)
  BY <1>14, <1>20 DEF Q!Refused, Q!Noted
<1>23. \A x \in gate : x.slot # p => x \in others
  BY <1>14
<1>24. CASE s # p
  <2>1. ASSUME NEW x \in gate, x.slot = s, x \notin Q!Refused(c, gate) \cup Q!Noted(c, gate)
        PROVE  x \in taken /\ x \notin Q!Refused(c, taken) \cup Q!Noted(c, taken)
    BY <2>1, <1>20, <1>22, <1>23, <1>24
  <2>2. ASSUME NEW x \in Q!Noted(c, taken), x.slot = s
        PROVE  x \in Q!Noted(c, gate)
    <3>1. x \in others
      BY <2>2, <1>7, <1>20, <1>24 DEF Q!Noted
    <3> QED
      BY <3>1, <1>22, <2>2
  <2>3. \/ \E x \in gate : x.slot = s /\ x \notin Q!Refused(c, gate) \cup Q!Noted(c, gate)
        \/ \E y \in c.given : y.slot = s /\ \A x \in Q!Noted(c, gate) : x.slot = s => x.town = y.town
    BY <1>21, GivenAfter
  <2>4. \/ \E x \in taken : x.slot = s /\ x \notin Q!Refused(c, taken) \cup Q!Noted(c, taken)
        \/ \E y \in c.given : y.slot = s /\ \A x \in Q!Noted(c, taken) : x.slot = s => x.town = y.town
    BY <2>1, <2>2, <2>3
  <2> QED
    BY <2>4, <1>21, GivenAfter
<1>25. CASE s = p
  <2>1. PICK x \in gate : x.slot = p /\ x \notin Q!Refused(c, gate) \cup Q!Noted(c, gate)
    <3>1. ~(\E y \in c.given : y.slot = s)
      BY <1>4, <1>25 DEF Q!SlotsOf
    <3> QED
      BY <3>1, <1>21, <1>25, GivenAfter
  <2>2. x \in own /\ x.is = "town"
    BY <2>1, <1>4, <1>9, <1>14 DEF Q!Noted, town
  <2>3. p \notin Q!Precise /\ x.town = town
    BY <2>1, <2>2 DEF Q!Noted, town
  <2>4. v.is = "town" /\ v.town = town
    BY <2>2, <2>3, <1>8, <1>9
  <2>5. v \in taken /\ v \notin Q!Refused(c, taken) \cup Q!Noted(c, taken)
    BY <2>3, <2>4, <1>7, <1>20 DEF Q!Refused, Q!Noted, town
  <2> QED
    BY <2>5, <1>7, <1>21, <1>25, GivenAfter
<1> QED
  BY <1>24, <1>25

LEMMA ClearTyped ==
    ASSUME NEW c, CallOK(c), NEW S
    PROVE  CallOK(Q!Clear(c, S)) /\ Q!Clear(c, S).open = c.open
  BY DEF Q!Clear, CallOK

(* What on_agent_turn takes. *)
LEMMA TakeTyped ==
    ASSUME NEW c, CallOK(c), NEW w, SaidOK(w), NEW f \in SUBSET Values, NEW r, r = Q!Take(c, w, f)
    PROVE  /\ CallOK(r.call) /\ r.call.open = c.open
           /\ r.next = Q!ExpectedSlot(r.call) /\ r.open = Q!Pending(r.call, f)
           /\ r.rejected \subseteq Q!Slots
<1> DEFINE b == Q!Clear(c, Q!Misplaced(c, w))
           agents == Q!Corrected(b, w, Q!StreetAnswer(b, w, f))
           all == Q!WithSameCity(b, w, agents)
           d == [b EXCEPT !.same = @ \/ w.same]
           then == Q!Apply(d, all)
<1>1. CallOK(b) /\ b.open = c.open
  BY ClearTyped
<1> HIDE DEF b
<1>2. all \subseteq Values
  BY <1>1, StreetAnswerTyped, CorrectedTyped, WithSameCityTyped DEF SaidOK
<1>3. CallOK(d) /\ d.open = b.open
  BY <1>1 DEF CallOK
<1>4. r.call = then /\ r.next = Q!ExpectedSlot(then) /\ r.open = Q!Pending(then, f)
      /\ r.rejected = Q!SlotsOf(Q!Refused(b, all))
  BY DEF Q!Take, b
<1> HIDE DEF d, all
<1>5. CallOK(then) /\ then.open = d.open
  BY <1>2, <1>3, ApplyTyped
<1>6. r.rejected \subseteq Q!Slots
  BY <1>2, <1>4 DEF Q!SlotsOf, Q!Refused, Values
<1> QED
  BY <1>1, <1>3, <1>4, <1>5, <1>6

(* A reply the gate let pass is taken as the gate saw it, unless the engine goes on by itself. *)
LEMMA TakeAgrees ==
    ASSUME NEW c, CallOK(c), NEW w, SaidOK(w), NEW f \in SUBSET Values,
           NEW r, r = Q!Take(c, w, f), ~r.moved, ~r.decided,
           NEW g, g = Q!Probe(c, w, f), ~g.rejects,
           NEW S, S \subseteq Q!Slots, \A a, b \in S : a = b, g.next \in S \cup {None}
    PROVE  Ordered(r.call, S)
<1> DEFINE gate == Q!Corrected(c, w, f)
           street == Q!StreetAnswer(c, w, f)
           agents == Q!Corrected(c, w, street)
           d == [c EXCEPT !.same = @ \/ w.same]
<1>1. Q!Clear(c, Q!Misplaced(c, w)) = c
  BY DEF Q!Take, Q!Clear
<1>2. agents = Q!WithSameCity(c, w, agents) /\ r.call = Q!Apply(d, agents)
  BY <1>1 DEF Q!Take
<1>3. gate = Q!WithSameCity(c, w, gate) /\ g.next = Q!ExpectedSlot(Q!Apply(c, gate))
  BY DEF Q!Probe, Q!RejectsAny
<1>4. Ordered(Q!Apply(c, gate), S)
  BY <1>3, ExpectedIsFirst
<1>5. Q!SlotsOf(Q!Apply(d, agents).given) = Q!SlotsOf(Q!Apply(c, agents).given)
  <2>1. CallOK(d) /\ d.given = c.given /\ d.city = c.city
    BY DEF CallOK
  <2>2. agents \subseteq Values
    BY StreetAnswerTyped, CorrectedTyped DEF SaidOK
  <2> HIDE DEF d, agents
  <2> QED
    BY <2>1, <2>2, SameDetails
<1>6. Q!SlotsOf(Q!Apply(c, gate).given) \subseteq Q!SlotsOf(Q!Apply(c, agents).given)
  <2>1. CASE street = f
    BY <2>1
  <2>2. CASE street # f
    <3>1. f = {}
      BY <2>2 DEF Q!StreetAnswer
    <3> QED
      BY <2>2, <3>1, StreetHeard
  <2> QED
    BY <2>1, <2>2
<1> HIDE DEF gate, agents, d
<1> QED
  BY <1>2, <1>4, <1>5, <1>6 DEF Ordered

-----------------------------------------------------------------------------
(* The turn. *)

(* An outcome asks about what was just refused, again about the oldest of the
   questions still open, in words that do not say what they ask, or in the order. *)
Fine(c, r, q, o) ==
    /\ Whole(r.call, o)
    /\ \/ o.air \subseteq r.rejected
       \/ o.air = {r.open.first}
       \/ q.by = "words"
       \/ Ordered(o.call, o.air)

LEMMA SettledIsFine ==
    ASSUME NEW c, NEW r, NEW q, NEW d, Kept(r.call, d), NEW o, Settled(d, o)
    PROVE  Fine(c, r, q, o)
  BY DEF Settled, Whole, Kept, Fine, Ordered

LEMMA QuestionIs ==
    ASSUME NEW q \in Q!Asking
    PROVE  /\ Q!Asks(q) \subseteq Q!Slots /\ Q!Phrase(q) \subseteq Q!Slots
           /\ \A a, b \in Q!Asks(q) \cup Q!Phrase(q) : a = b
           /\ q.by # "words" => Q!Question(q) = Q!Asks(q) \cup Q!Phrase(q)
  BY NoneAssumption DEF Q!Asking, Q!Asks, Q!Phrase, Q!Question

(* The detail gone back to is the oldest of those still open. *)
LEMMA MovesOnIsOpen ==
    ASSUME NEW c, CallOK(c), NEW f, NEW S, Q!MovesOn(Q!Pending(c, f), S) # None
    PROVE  Q!MovesOn(Q!Pending(c, f), S) = Q!Pending(c, f).first /\ Q!Pending(c, f).first \in Q!Slots
<1> DEFINE left == Q!OpenQuestions(c) \ Q!SlotsOf(f)
<1>1. /\ left # {} /\ Q!Pending(c, f).first = Q!Earliest(c.open, left)
      /\ Q!MovesOn(Q!Pending(c, f), S) = Q!Pending(c, f).first
  BY DEF Q!MovesOn, Q!Pending
<1>2. left \in SUBSET Q!Slots
  BY SlotsAre DEF Q!OpenQuestions, Q!StillOpen
<1>3. c.open \in [Q!Slots -> Nat]
  BY DEF CallOK
<1> HIDE DEF left
<1>4. Q!Earliest(c.open, left) \in left
  BY <1>1, <1>2, <1>3, EarliestIs
<1> QED
  BY <1>1, <1>2, <1>4

LEMMA PlayedIsFine ==
    ASSUME NEW c, CallOK(c), NEW w, SaidOK(w), NEW f \in SUBSET Values,
           NEW r, r = Q!Take(c, w, f), ~r.moved, NEW g, g = Q!Probe(c, w, f),
           NEW q \in Q!Asking, ~Q!Held(f, g, q), NEW o \in Q!Played(r, q)
    PROVE  Fine(c, r, q, o)
<1>1. CallOK(r.call)
  BY TakeTyped
<1>2. CASE r.decided
  <2>1. CallOK(Q!NoteAsked(r.call, Q!Asks(q))) /\ Kept(r.call, Q!NoteAsked(r.call, Q!Asks(q)))
    BY <1>1, NoteAskedTyped, QuestionIs
  <2>2. o = Q!Advance(Q!NoteAsked(r.call, Q!Asks(q)))
    BY <1>2 DEF Q!Played
  <2> QED
    BY <2>1, <2>2, AdvanceSettles, SettledIsFine
<1>3. CASE ~r.decided
  <2> DEFINE asks == Q!Asks(q) \cup Q!Phrase(q)
             d == Q!NoteAsked(r.call, asks)
  <2>1. asks \in SUBSET Q!Slots /\ \A a, b \in asks : a = b
    BY QuestionIs
  <2> HIDE DEF asks
  <2>2. CallOK(d) /\ Kept(r.call, d)
    BY <1>1, <2>1, NoteAskedTyped
  <2>3. o.call = d /\ o.air = Q!Question(q) /\ ~o.done
    BY <1>3 DEF Q!Played, Q!Outcome, asks
  <2>4. ~g.rejects /\ (asks # {} => g.next \in asks \cup {None})
    BY DEF Q!Held, Q!OutOfOrder, asks
  <2>5. CASE asks = {}
    BY <2>2, <2>3, <2>5, QuestionIs DEF Fine, Whole, asks
  <2>6. CASE asks # {}
    <3>1. Ordered(r.call, asks)
      BY <1>3, <2>1, <2>4, <2>6, TakeAgrees
    <3>2. q.by # "words" => o.air = asks
      BY <2>3, QuestionIs DEF asks
    <3>3. q.by = "words" \/ Ordered(o.call, o.air)
      BY <2>2, <2>3, <3>1, <3>2 DEF Kept, Ordered
    <3> QED
      BY <2>2, <2>3, <3>3 DEF Fine, Whole, Kept
  <2> QED
    BY <2>5, <2>6
<1> QED
  BY <1>2, <1>3

LEMMA ReplacedIsFine ==
    ASSUME NEW c, CallOK(c), NEW w, SaidOK(w), NEW f \in SUBSET Values,
           NEW r, r = Q!Take(c, w, f), NEW q \in Q!Asking, NEW o \in Q!Replaced(r, f, q)
    PROVE  Fine(c, r, q, o)
<1>1. /\ CallOK(r.call) /\ r.rejected \subseteq Q!Slots
      /\ r.next = Q!ExpectedSlot(r.call) /\ r.open = Q!Pending(r.call, f)
  BY TakeTyped
<1> DEFINE phrase == IF r.decided THEN {} ELSE Q!Phrase(q)
           asks == Q!Asks(q) \cup phrase
           d == Q!NoteAsked(r.call, asks)
<1>2. asks \in SUBSET Q!Slots /\ \A a, b \in asks : a = b
  BY QuestionIs
<1>3. ~r.decided /\ q.by # "words" => Q!Question(q) = asks
  BY QuestionIs
<1> HIDE DEF asks
<1>4. CallOK(d) /\ Kept(r.call, d)
  BY <1>1, <1>2, NoteAskedTyped
<1>5. \/ \E s \in r.rejected : o = Q!AskRejected(r.call, s)
      \/ o = Q!NextQuestion(r.call, r.next)
      \/ Q!MovesOn(r.open, asks) # None /\ o = Q!Ask(r.call, Q!MovesOn(r.open, asks))
      \/ o = Q!Advance(d)
      \/ ~r.decided /\ (asks # {} => r.next \in asks \cup {None}) /\ o = Q!Outcome(d, Q!Question(q), FALSE)
  BY DEF Q!Replaced, asks
<1>6. ASSUME NEW s \in r.rejected, o = Q!AskRejected(r.call, s)
      PROVE  Fine(c, r, q, o)
  <2>1. Whole(r.call, o) /\ o.air = {s}
    BY <1>1, <1>6, AskTyped DEF Q!AskRejected, Q!Outcome, Whole, Kept
  <2> QED
    BY <2>1 DEF Fine
<1>7. ASSUME o = Q!NextQuestion(r.call, r.next)
      PROVE  Fine(c, r, q, o)
  BY <1>1, <1>7, NextQuestionSettles, SettledIsFine DEF Kept
<1>8. ASSUME Q!MovesOn(r.open, asks) # None, o = Q!Ask(r.call, Q!MovesOn(r.open, asks))
      PROVE  Fine(c, r, q, o)
  <2>1. Q!MovesOn(r.open, asks) = r.open.first /\ r.open.first \in Q!Slots
    BY <1>1, <1>8, MovesOnIsOpen
  <2> QED
    BY <1>1, <1>8, <2>1, AskTyped DEF Fine
<1>9. ASSUME o = Q!Advance(d)
      PROVE  Fine(c, r, q, o)
  BY <1>4, <1>9, AdvanceSettles, SettledIsFine
<1>10. ASSUME ~r.decided, asks # {} => r.next \in asks \cup {None}, o = Q!Outcome(d, Q!Question(q), FALSE)
       PROVE  Fine(c, r, q, o)
  <2>1. o.call = d /\ o.air = Q!Question(q) /\ ~o.done
    BY <1>10 DEF Q!Outcome
  <2>2. asks # {} => Ordered(r.call, asks)
    BY <1>1, <1>2, <1>10, ExpectedIsFirst
  <2> QED
    BY <1>3, <1>4, <1>10, <2>1, <2>2 DEF Fine, Whole, Kept, Ordered
<1> QED
  BY <1>5, <1>6, <1>7, <1>8, <1>9, <1>10

LEMMA PlayedIsWhole ==
    ASSUME NEW c, CallOK(c), NEW w, SaidOK(w), NEW f \in SUBSET Values,
           NEW r, r = Q!Take(c, w, f), NEW q \in Q!Asking, NEW o \in Q!Played(r, q)
    PROVE  Whole(r.call, o)
<1>1. CallOK(r.call)
  BY TakeTyped
<1> DEFINE d == Q!NoteAsked(r.call, Q!Asks(q))
           e == Q!NoteAsked(r.call, Q!Asks(q) \cup Q!Phrase(q))
<1>2. CallOK(d) /\ Kept(r.call, d)
  BY <1>1, NoteAskedTyped, QuestionIs
<1>3. CallOK(e) /\ Kept(r.call, e)
  BY <1>1, NoteAskedTyped, QuestionIs
<1>4. CASE r.decided
  <2>1. o = Q!Advance(d)
    BY <1>4 DEF Q!Played
  <2> HIDE DEF d
  <2> QED
    BY <1>2, <2>1, AdvanceSettles DEF Settled, Whole, Kept
<1>5. CASE ~r.decided
  BY <1>3, <1>5 DEF Q!Played, Q!Outcome, Whole
<1> QED
  BY <1>4, <1>5

(* Within one town a place keeps a value, if not the one passed. *)
LEMMA SameCityKeeps ==
    ASSUME NEW c, NEW w, NEW f, NEW x \in f
    PROVE  \E y \in Q!WithSameCity(c, w, f) : y.slot = x.slot
<1> DEFINE townOf(p) ==
            IF Q!TownAt(f, p) # None THEN Q!TownAt(f, p)
            ELSE IF Q!TownAt(c.city, p) # None THEN Q!TownAt(c.city, p) ELSE Q!TownAt(c.given, p)
           towns == IF \A p \in Q!Places : townOf(p) = None THEN Q!TownsNamed(w)
                    ELSE {townOf(p) : p \in Q!Places} \ {None}
           put == {p \in Q!Places \ Q!SlotsOf(c.given) : townOf(p) = None}
           street(p) == \E z \in Q!Of(f, p) : z.is = "street"
           kept == {z \in f : z.slot \notin put \/ z.is = "nowhere"}
           moved == {Q!Field(p, Q!Thing(IF street(p) THEN "address" ELSE "town", t, None)) :
                       p \in {p \in put : \A z \in Q!Of(f, p) : z.is # "nowhere"}, t \in towns}
<1>1. \/ Q!WithSameCity(c, w, f) = f
      \/ Q!Cardinality(towns) = 1 /\ Q!WithSameCity(c, w, f) = kept \cup moved
  <2>1. Q!WithSameCity(c, w, f)
          = IF ~(c.same \/ w.same) \/ Q!Cardinality(towns) # 1 THEN f ELSE kept \cup moved
    BY DEF Q!WithSameCity
  <2> HIDE DEF towns, kept, moved
  <2> QED
    BY <2>1
<1> HIDE DEF towns, kept, moved
<1>2. CASE Q!WithSameCity(c, w, f) = f
  BY <1>2
<1>3. CASE Q!Cardinality(towns) = 1 /\ Q!WithSameCity(c, w, f) = kept \cup moved
  <2>1. PICK t : t \in towns
    <3>1. Cardinality(towns) = 1 /\ Cardinality({}) = 0
      BY <1>3, SameSizeQ, FS_EmptySet
    <3> QED
      BY <3>1
  <2> USE DEF kept, moved
  <2> HIDE DEF put, street
  <2>2. CASE x \in kept
    BY <1>3, <2>2
  <2>3. CASE x \notin kept /\ \E z \in Q!Of(f, x.slot) : z.is = "nowhere"
    <3>1. PICK z \in f : z.slot = x.slot /\ z.is = "nowhere"
      BY <2>3 DEF Q!Of
    <3> QED
      BY <1>3, <3>1
  <2>4. CASE x \notin kept /\ \A z \in Q!Of(f, x.slot) : z.is # "nowhere"
    <3>1. x.slot \in put
      BY <2>4
    <3> DEFINE y == Q!Field(x.slot, Q!Thing(IF street(x.slot) THEN "address" ELSE "town", t, None))
    <3>2. y \in moved
      BY <2>1, <2>4, <3>1
    <3>3. y.slot = x.slot
      BY DEF Q!Field
    <3> QED
      BY <1>3, <3>2, <3>3
  <2> QED
    BY <2>2, <2>3, <2>4
<1> QED
  BY <1>1, <1>2, <1>3

(* The answer to what was asked, and passed as that, is taken or refused. *)
LEMMA AnswerIsTaken ==
    ASSUME NEW c, CallOK(c), NEW w, SaidOK(w), NEW x \in Values, c.asks = {x.slot}, x.with \in {None, x.slot},
           NEW r, r = Q!Take(c, w, {x})
    PROVE  x.slot \in r.rejected \cup Q!SlotsOf(r.call.given \cup r.call.city)
<1> DEFINE b == Q!Clear(c, Q!Misplaced(c, w))
           pats == Q!WithPatterns(b, w, {x})
           ans == Q!AnswerInPlace(b, w, pats)
           cued == Q!WithCues(b, w, ans)
           agents == Q!WithCityCorrection(b, w, cued)
           all == Q!WithSameCity(b, w, agents)
           d == [b EXCEPT !.same = @ \/ w.same]
<1>1. CallOK(b) /\ b.asks = {x.slot}
  BY ClearTyped DEF Q!Clear, CallOK
<1> HIDE DEF b
<1>2. Q!StreetAnswer(b, w, {x}) = {x}
  BY DEF Q!StreetAnswer
<1>3. Q!ByPreposition({x}) = {x}
  BY SlotsAre, NoneAssumption DEF Q!ByPreposition, Q!Other, Values
<1>4. agents = Q!Corrected(b, w, {x})
  BY <1>3 DEF Q!Corrected
<1>5. x \in pats
  BY DEF Q!WithPatterns
<1> HIDE DEF pats
<1>6. x \in ans
  BY <1>1, <1>5 DEF Q!AnswerInPlace
<1> HIDE DEF ans
<1>7. x \in cued
  BY <1>1, <1>6 DEF Q!WithCues, Q!SlotsOf
<1> HIDE DEF cued
<1>8. x \in agents
  BY <1>7 DEF Q!WithCityCorrection
<1> HIDE DEF agents
<1>9. all \subseteq Values
  BY <1>1, <1>4, CorrectedTyped, WithSameCityTyped DEF SaidOK
<1>10. PICK y \in all : y.slot = x.slot
  BY <1>8, SameCityKeeps
<1>11. r.call = Q!Apply(d, all) /\ r.rejected = Q!SlotsOf(Q!Refused(b, all))
  BY <1>2, <1>4 DEF Q!Take, b
<1> HIDE DEF all
<1>12. CallOK(d) /\ d.given = b.given /\ d.city = b.city
  BY <1>1 DEF CallOK
<1>13. Q!Refused(d, all) = Q!Refused(b, all)
  BY <1>12 DEF Q!Refused, Q!Known
<1> HIDE DEF d
<1>14. CASE y \in Q!Refused(b, all)
  BY <1>10, <1>11, <1>14 DEF Q!SlotsOf
<1>15. CASE y \in Q!Noted(d, all)
  <2>1. Q!Kept(d, y) \in Q!Apply(d, all).city
    BY <1>12, <1>15 DEF Q!Apply, CallOK
  <2>2. Q!Kept(d, y).slot = y.slot
    BY <1>9 DEF Q!Kept, Q!Field, Values
  <2> QED
    BY <1>10, <1>11, <2>1, <2>2 DEF Q!SlotsOf
<1>16. CASE y \notin Q!Refused(b, all) \cup Q!Noted(d, all)
  <2>1. y.slot \in Q!SlotsOf(Q!Apply(d, all).given)
    BY <1>9, <1>12, <1>13, <1>16, GivenAfter
  <2> QED
    BY <1>10, <1>11, <2>1 DEF Q!SlotsOf
<1> QED
  BY <1>14, <1>15, <1>16

(* A turn keeps the order, and the answer. *)
LEMMA TurnKeeps ==
    ASSUME CallOK(call), NEW h \in Q!Heard, NEW A, A \subseteq Q!Asking, Q!OnAgentTurn(h, A)
    PROVE  CallOK(call)' /\ Q!AskedInOrder' /\ (last'.lost => ~(air \subseteq call.asks))
<1>1. SaidOK(h.words) /\ h.fields \in SUBSET Values
  BY SaidThings
<1>2. PICK g \in {Q!Probe(call, h.words, h.fields)}, r \in {Q!Take(call, h.words, h.fields)},
           answer \in {Q!Answer(h)}, lone \in {Q!LoneCityEitherWay(call, h.words, h.fields)}, q \in A :
        \E o \in IF lone THEN {Q!Outcome(Q!NoteAsked(call, {"pickup"}), Q!Places, FALSE)}
                 ELSE IF Q!Held(h.fields, g, q) THEN Q!Replaced(r, h.fields, q) ELSE Q!Played(r, q) :
          /\ call' = o.call /\ air' = o.air /\ done' = o.done
          /\ last' = [due |-> r.moved \/ q.by = "words" \/ o.air \subseteq r.rejected,
                      again |-> o.air = {r.open.first},
                      lost |-> o.air # Q!Places /\ ~(answer \subseteq
                                  r.rejected \cup Q!SlotsOf(o.call.given \cup o.call.city)),
                      odd |-> caller = "answers" /\ ~last.odd]
  BY Zenon DEF Q!OnAgentTurn
<1> DEFINE outcomes == IF lone THEN {Q!Outcome(Q!NoteAsked(call, {"pickup"}), Q!Places, FALSE)}
                       ELSE IF Q!Held(h.fields, g, q) THEN Q!Replaced(r, h.fields, q) ELSE Q!Played(r, q)
           taken(o) == r.rejected \cup Q!SlotsOf(o.call.given \cup o.call.city)
<1>3. PICK o \in outcomes :
        /\ call' = o.call /\ air' = o.air /\ done' = o.done
        /\ r.moved \/ q.by = "words" \/ o.air \subseteq r.rejected => last'.due
        /\ o.air = {r.open.first} => last'.again
        /\ last'.lost => o.air # Q!Places /\ ~(answer \subseteq taken(o))
  <2>1. PICK o \in outcomes : \E z :
          /\ call' = o.call /\ air' = o.air /\ done' = o.done
          /\ last' = [due |-> r.moved \/ q.by = "words" \/ o.air \subseteq r.rejected,
                      again |-> o.air = {r.open.first},
                      lost |-> o.air # Q!Places /\ ~(answer \subseteq taken(o)), odd |-> z]
    BY <1>2, ZenonT(60)
  <2> HIDE DEF outcomes, taken
  <2>2. /\ last'.due = (r.moved \/ q.by = "words" \/ o.air \subseteq r.rejected)
        /\ last'.again = (o.air = {r.open.first})
    BY <2>1
  <2>3. last'.lost = (o.air # Q!Places /\ ~(answer \subseteq taken(o)))
    BY <2>1
  <2> QED
    BY <2>1, <2>2, <2>3
<1>4. /\ q \in Q!Asking /\ r = Q!Take(call, h.words, h.fields) /\ g = Q!Probe(call, h.words, h.fields)
      /\ answer = Q!Answer(h)
  OBVIOUS
<1>5. CASE lone
  <2>1. o = Q!Outcome(Q!NoteAsked(call, {"pickup"}), Q!Places, FALSE)
    BY <1>3, <1>5
  <2>2. CallOK(Q!NoteAsked(call, {"pickup"}))
    BY NoteAskedTyped, SlotsAre
  <2> QED
    BY <1>3, <2>1, <2>2 DEF Q!Outcome, Q!AskedInOrder, CallOK
<1> HIDE DEF outcomes
<1>6. ASSUME Whole(r.call, o), last'.due \/ last'.again \/ Ordered(o.call, o.air)
      PROVE  CallOK(call)' /\ Q!AskedInOrder' /\ (last'.lost => ~(air \subseteq call.asks))
  <2>1. CallOK(call')
    BY <1>3, <1>6 DEF Whole
  <2>2. Q!AskedInOrder'
    BY <1>3, <1>6 DEF Whole, Ordered, Q!AskedInOrder, Q!NoneSkipped
  <2>3. ASSUME last'.lost, air \subseteq call.asks
        PROVE  FALSE
    <3>1. PICK s \in answer : s \notin taken(o)
      BY <1>3, <2>3
    <3>2. PICK x \in h.fields : h.fields = {x} /\ x.slot = s /\ x.slot \in air /\ x.with \in {None, x.slot}
      BY <1>4, <3>1 DEF Q!Answer
    <3>3. call.asks = {x.slot}
      BY <2>3, <3>2 DEF CallOK
    <3>4. x \in Values
      BY <1>1, <3>2
    <3>5. x.slot \in r.rejected \cup Q!SlotsOf(r.call.given \cup r.call.city)
      BY <1>1, <1>4, <3>2, <3>3, <3>4, AnswerIsTaken
    <3> QED
      BY <1>6, <3>1, <3>2, <3>5 DEF Whole, Kept
  <2> QED
    BY <2>1, <2>2, <2>3 DEF CallOK
<1>7. CASE ~lone /\ Q!Held(h.fields, g, q)
  <2>1. o \in Q!Replaced(r, h.fields, q)
    BY <1>3, <1>7 DEF outcomes
  <2>2. Fine(call, r, q, o)
    BY <1>1, <1>4, <2>1, ReplacedIsFine
  <2> QED
    BY <1>3, <1>6, <2>2 DEF Fine
<1>8. CASE ~lone /\ ~Q!Held(h.fields, g, q)
  <2>1. o \in Q!Played(r, q)
    BY <1>3, <1>8 DEF outcomes
  <2>2. CASE r.moved
    <3>1. Whole(r.call, o)
      BY <1>1, <1>4, <2>1, PlayedIsWhole
    <3> QED
      BY <1>3, <1>6, <2>2, <3>1
  <2>3. CASE ~r.moved
    <3>1. Fine(call, r, q, o)
      BY <1>1, <1>4, <1>8, <2>1, <2>3, PlayedIsFine
    <3> QED
      BY <1>3, <1>6, <3>1 DEF Fine
  <2> QED
    BY <2>2, <2>3
<1> QED
  BY <1>5, <1>7, <1>8

QuestionsInv == part = "questions" => CallOK(call) /\ Q!AskedInOrder

(* Every turn keeps QuestionsInv, and every answer to what was noted. *)
LEMMA QuestionsStep ==
    ASSUME QuestionsInv, [PartsNext]_<<part, vars, questionVars>>
    PROVE  /\ QuestionsInv'
           /\ [part = "questions" /\ last'.lost => ~(air \subseteq call.asks)]_questionVars
<1>1. CASE UNCHANGED <<part, vars, questionVars>> \/ StepFloor(Next)
  <2>1. UNCHANGED <<part, questionVars>>
    BY <1>1 DEF StepFloor
  <2> QED
    BY <2>1 DEF questionVars, QuestionsInv, CallOK, Q!AskedInOrder, Q!NoneSkipped
<1>2. CASE StepQuestions(Q!Talks)
  <2>1. part = "questions" /\ Q!Talks
    BY <1>2 DEF StepQuestions
  <2>2. CallOK(call)
    BY <2>1 DEF QuestionsInv
  <2>3. PICK h \in Q!Heard : Q!OnAgentTurn(h, {q \in Q!Asking : q.slot # "customer_name"})
    BY <2>1 DEF Q!Talks
  <2>4. {q \in Q!Asking : q.slot # "customer_name"} \subseteq Q!Asking
    OBVIOUS
  <2>5. CallOK(call)' /\ Q!AskedInOrder' /\ (last'.lost => ~(air \subseteq call.asks))
    BY <2>2, <2>3, <2>4, TurnKeeps
  <2> QED
    BY <2>5 DEF QuestionsInv
<1> QED
  BY <1>1, <1>2 DEF PartsNext

LEMMA QuestionsInitially == PartsInit => QuestionsInv
<1> SUFFICES ASSUME Q!Init PROVE CallOK(call) /\ Q!AskedInOrder
  BY DEF PartsInit, QuestionsInv
<1>1. PICK known \in SUBSET {Q!Field("customer_name", Q!NameThing)} :
        call = [given |-> known, city |-> {}, asks |-> {}, asked |-> {}, open |-> [s \in Q!Slots |-> 0], same |-> FALSE]
  BY DEF Q!Init
<1>2. Q!Field("customer_name", Q!NameThing) \in Values
  BY SlotsAre DEF Q!Field, Q!NameThing, Q!Thing, Values, ThingKinds
<1>3. CallOK(call)
  BY <1>1, <1>2 DEF CallOK
<1> QED
  BY <1>3 DEF Q!Init, Q!AskedInOrder, Q!NoneSkipped

(* Whatever the model asks and the caller says, in any number of turns and of
   towns, no question goes past a required detail that is missing, unless it is
   about one just refused, or is the oldest of the questions still open that
   the reply gives no value for (asked again by moves_on), or about both places,
   does not say what it asks, or comes after a town changed places; and nothing
   is read back while one is missing (on_agent_turn). *)
THEOREM AskedInOrderHolds == PartsSpec => []AskedInOrder
<1>1. QuestionsInv => AskedInOrder
  BY DEF QuestionsInv, AskedInOrder
<1>2. QuestionsInv /\ [PartsNext]_<<part, vars, questionVars>> => QuestionsInv'
  BY QuestionsStep
<1> QED
  BY <1>1, <1>2, QuestionsInitially, PTL DEF PartsSpec

(* The caller's answer to a question that was noted as asked is taken, in whole
   or in part, or refused, whatever else is said and asked (on_agent_turn). *)
THEOREM NotedAnswersAreTakenHolds == PartsSpec => NotedAnswersAreTaken
<1>1. QuestionsInv /\ [PartsNext]_<<part, vars, questionVars>>
        => /\ QuestionsInv'
           /\ [part = "questions" /\ last'.lost => ~(air \subseteq call.asks)]_questionVars
  BY QuestionsStep
<1> QED
  BY <1>1, QuestionsInitially, PTL DEF PartsSpec, NotedAnswersAreTaken
=============================================================================
