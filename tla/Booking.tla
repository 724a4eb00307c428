------------------------------ MODULE Booking ------------------------------
(***************************************************************************)
(* The conversation engine's task machine (callora-core engine.rs and      *)
(* state.rs), the session that executes its directives (session/speech.rs, *)
(* session.rs) and the runner of business actions (actions.rs).            *)
(*                                                                         *)
(* The engine is a record that the caller's turns and the actions' results *)
(* transform; every operator below is one method of the engine, from       *)
(* engine state to engine state.  What is said is left out, except for the *)
(* values of the last read-back, on which consent rests.  What the caller, *)
(* the recognizer and the language model come up with is an input chosen   *)
(* with \E.  Places (check_place) have a module of their own; here a place *)
(* is taken, rejected, or only its city noted.  Reprompts, fallbacks and   *)
(* curses are counted in module Patience.                                  *)
(***************************************************************************)
EXTENDS Integers, Sequences, FiniteSets

CONSTANTS
    Tasks,          \* the business's pipelines
    Slots,          \* the details the pipelines collect
    Domain,         \* Domain[s]: the values of slot s
    SlotsOf,        \* SlotsOf[t]: the details of task t
    Required,       \* Required[t]: the ones it cannot do without
    FromSlot,       \* FromSlot[s]: the other task's slot s is taken from, or None
    Gives,          \* Gives[s]: what the customer's record gives s, or None
    Spoken,         \* the slots callers give values for (the others are filled by the system)
    Places,         \* the place slots that need a street
    NameSlot,       \* the customer's name
    Confirms,       \* tasks read back for a yes before their action runs
    Changes,        \* tasks whose action changes something (requires_confirmation)
    Ends,           \* tasks that end the call once done (after: "end")
    AsksFirst,      \* tasks with a question before the read-back (ask_before_confirm)
    MaxAttempts,    \* MaxAttempts[t]: attempts of t's action
    HandoffAfter,   \* failed changing actions that hand the call over
    GroupSlot, CarSlot, VanFor, Van, PersonFor, RefusedFor,  \* the business's rules
    None,           \* no slot, task or value
    MaxTurns, MaxSuspended, MaxJournal   \* bounds of the model

ASSUME ConfigAssumption ==
    /\ None \notin Tasks /\ None \notin Slots /\ \A s \in Slots : None \notin Domain[s]
    /\ SlotsOf \in [Tasks -> SUBSET Slots] /\ Required \in [Tasks -> SUBSET Slots]
    /\ \A t \in Tasks : Required[t] \subseteq SlotsOf[t]
    /\ FromSlot \in [Slots -> Slots \cup {None}]
    /\ \A s \in Slots : Gives[s] \in Domain[s] \cup {None}
    /\ \A s \in Slots : FromSlot[s] # None => Domain[FromSlot[s]] \subseteq Domain[s]
    /\ Places \subseteq Spoken /\ Spoken \subseteq Slots /\ {NameSlot, GroupSlot, CarSlot} \subseteq Slots
    /\ Van \in Domain[CarSlot] /\ VanFor \cup PersonFor \cup RefusedFor \subseteq Domain[GroupSlot]
    /\ Confirms \cup Changes \cup Ends \cup AsksFirst \subseteq Tasks
    /\ MaxAttempts \in [Tasks -> Nat \ {0}] /\ HandoffAfter \in Nat \ {0}
    \* A task that is read back is tried once, as in the business's file.
    /\ \A t \in Confirms : MaxAttempts[t] = 1
    /\ {MaxTurns, MaxSuspended, MaxJournal} \subseteq Nat /\ MaxSuspended <= 2

VARIABLES
    eng,        \* the engine: see EngineType
    flight,     \* requests running, each in a task of its own
    after,      \* what the session does when the last words were heard (after_speech)
    over        \* the call was transferred or hung up

vars == <<eng, flight, after, over>>

Values == UNION {Domain[s] : s \in Slots}
Vals == [Slots -> Values \cup {None}]

\* A detail of a run: its value (None: not there), whether it is certain enough to use
\* unasked, whether the caller confirmed it, and who gave it: the caller, or the system.
SlotState == [val : Values \cup {None}, sure : BOOLEAN, ok : BOOLEAN, by : {"said", "given"}]

Said(v, sure) == [val |-> v, sure |-> sure, ok |-> FALSE, by |-> "said"]
Given(v, ok) == [val |-> v, sure |-> TRUE, ok |-> ok, by |-> "given"]

Absent == Given(None, FALSE)

Has(run) == {s \in Slots : run.slots[s].val # None}
ValuesOf(run) == [s \in Slots |-> run.slots[s].val]

Steps == {"collecting", "confirming_slot", "awaiting_confirmation", "executing"}
Entry == [slot : Slots, had : SlotState]
Run == [task : Tasks \cup {None}, slots : [Slots -> SlotState], step : Steps,
        slot : Slots \cup {None}, id : Nat, journal : Seq(Entry), confirmed : BOOLEAN,
        attempts : Nat, fired : SUBSET {"van", "person", "refused"},
        \* history: the last read-back, the one agreed to, a yes not yet acted upon
        heard : Vals, agreed : Vals, consent : BOOLEAN]

PipelineRun(t) == [task |-> t, slots |-> [s \in Slots |-> Absent], step |-> "collecting", slot |-> None, id |-> 0,
                   journal |-> <<>>, confirmed |-> FALSE, attempts |-> 0, fired |-> {},
                   heard |-> [s \in Slots |-> None], agreed |-> [s \in Slots |-> None], consent |-> FALSE]
NoRun == PipelineRun(None)

Completed == [task : Tasks, outcome : {"success", "failed", "unknown", "cancelled", "declined"},
              vals : Vals]
Request == [id : Nat, task : Tasks, vals : Vals, n : Nat,
            said : SUBSET Slots, agreed : BOOLEAN]

EngineType ==
    [phase : {"active", "handing_off", "ending"}, run : Run, suspended : Seq(Run),
     completed : Seq(Completed), offered : BOOLEAN, asking : BOOLEAN, asked : BOOLEAN,
     failures : Nat, failed : SUBSET [task : Tasks, vals : Vals], next : Nat,
     customer : BOOLEAN, desk : BOOLEAN, turns : Nat,
     resumed : BOOLEAN, out : Seq(Request), last : {"none", "handoff", "hangup"}]

-----------------------------------------------------------------------------
(* PipelineRun: a changed value takes back an earlier yes.                   *)

Journal(run, s) == Append(run.journal, [slot |-> s, had |-> run.slots[s]])

(* Mutant: a changed value leaves the yes standing.                           *)
SetKeepsYes(run, s, st) ==
    [run EXCEPT !.slots[s] = st, !.journal = Journal(run, s),
                !.fired = IF run.slots[s].val = st.val THEN @ ELSE {}]

Set(run, s, st) ==
    LET same == run.slots[s].val = st.val
    IN  [run EXCEPT !.slots[s] = st, !.journal = Journal(run, s),
                    !.confirmed = @ /\ same, !.fired = IF same THEN @ ELSE {}]

Clear(run, s) ==
    IF s \notin Has(run) THEN run
    ELSE [run EXCEPT !.slots[s] = Absent, !.journal = Journal(run, s), !.confirmed = FALSE]

Undo(run) ==
    LET last == run.journal[Len(run.journal)]
    IN  [run EXCEPT !.journal = SubSeq(@, 1, Len(@) - 1), !.confirmed = FALSE,
                    !.slots[last.slot] = last.had]

InRun(e) == e.run.task # None
Executing(e) == InRun(e) /\ e.run.step = "executing"
Complete(e) == InRun(e) /\ Required[e.run.task] \subseteq Has(e.run)
Step(e, step) == [e EXCEPT !.run.step = step, !.run.slot = None]

-----------------------------------------------------------------------------
(* Values the caller did not give in this run.                               *)

LastWith(n, P(_)) ==
    LET is == {i \in 1..n : P(i)} IN IF is = {} THEN 0 ELSE CHOOSE i \in is : \A j \in is : j <= i

\* The detail another task of the call has: one under way, then one done.
FromOtherTasks(e, s) ==
    LET src == FromSlot[s]
        InSuspended(k) == src \in Has(e.suspended[k])
        InCompleted(k) == e.completed[k].vals[src] # None
        i == LastWith(Len(e.suspended), InSuspended)
        j == LastWith(Len(e.completed), InCompleted)
    IN  IF src = None THEN None
        ELSE IF i # 0 THEN e.suspended[i].slots[src].val
        ELSE IF j # 0 THEN e.completed[j].vals[src]
        ELSE None

CustomerGives(e, s) == IF e.customer THEN Gives[s] ELSE None

Known(e, s) == IF FromOtherTasks(e, s) # None THEN FromOtherTasks(e, s) ELSE CustomerGives(e, s)

\* The details of the task that are missing get the values of `from`, where it has any.
Filled(e, from) ==
    [e EXCEPT !.run.slots = [s \in Slots |->
        IF s \in SlotsOf[e.run.task] \ Has(e.run) THEN Given(from[s], FALSE) ELSE @[s]]]

FillFromOtherTasks(e) == Filled(e, [s \in Slots |-> FromOtherTasks(e, s)])

\* Written straight into the slots: no journal entry, and an earlier yes stands.
FillDefaults(e) == Filled(e, [s \in Slots |-> Known(e, s)])

\* A new run starts with what the last task of the call that was not cancelled had.
NewRun(e, t) ==
    LET Kept(k) == e.completed[k].outcome # "cancelled"
        i == LastWith(Len(e.completed), Kept)
    IN  IF i = 0 THEN PipelineRun(t)
        ELSE [PipelineRun(t) EXCEPT !.slots =
                [s \in Slots |-> IF s \in SlotsOf[t] THEN Given(e.completed[i].vals[s], FALSE) ELSE Absent]]

\* The only task that has a slot for the value.
Infer(s) == {t \in Tasks : s \in SlotsOf[t] /\ \A u \in Tasks : s \in SlotsOf[u] => u = t}
-----------------------------------------------------------------------------
(* Moving a task forward.                                                     *)

Goodbye(e) == [e EXCEPT !.phase = "ending", !.last = "hangup"]
OfferMore(e) == [e EXCEPT !.offered = TRUE]

CloseRun(e, outcome) ==
    [e EXCEPT !.run = NoRun,
              !.completed = Append(@, [task |-> e.run.task, outcome |-> outcome, vals |-> ValuesOf(e.run)])]

(* Mutant: only a success goes back to the task that waits.                   *)
FinishOnceDropsBack(e, outcome) ==
    LET c == CloseRun(e, outcome)
        n == Len(e.suspended)
    IN  IF n > 0 /\ outcome = "success"
        THEN [c EXCEPT !.run = e.suspended[n], !.suspended = SubSeq(@, 1, n - 1), !.resumed = TRUE]
        ELSE IF e.run.task \in Ends /\ outcome = "success" THEN Goodbye(c) ELSE OfferMore(c)

\* The run is over: the one suspended last goes on (the flag asks for its Advance), or the
\* call ends, or something else is offered.
FinishOnce(e, outcome) ==
    LET c == CloseRun(e, outcome)
        n == Len(e.suspended)
    IN  IF n > 0
        THEN [c EXCEPT !.run = e.suspended[n], !.suspended = SubSeq(@, 1, n - 1), !.resumed = TRUE]
        ELSE IF e.run.task \in Ends /\ outcome = "success" THEN Goodbye(c) ELSE OfferMore(c)

Ask(e) == [e EXCEPT !.asking = FALSE]

\* Read back: the values said, from here on the ones a yes agrees to.
ReadOut(e, named) ==
    [Step(e, "awaiting_confirmation") EXCEPT
        !.run.heard = [s \in Slots |-> IF s # NameSlot \/ named THEN e.run.slots[s].val ELSE None]]

\* What an action receives.  The run id is the idempotency key of all its attempts.
ActionInput(e, id, n) ==
    [id |-> id, task |-> e.run.task, vals |-> ValuesOf(e.run), n |-> n,
     said |-> {s \in Has(e.run) : e.run.slots[s].by = "said"}, agreed |-> e.run.consent]

(* Mutant: the next action gets the same key.                                 *)
RunActionSameKey(e) ==
    [e EXCEPT !.run.step = "executing", !.run.slot = None, !.run.id = e.next, !.run.attempts = 1,
              !.out = Append(@, ActionInput(e, e.next, 1)),
              !.run.consent = FALSE]

RunAction(e) ==
    [e EXCEPT !.run.step = "executing", !.run.slot = None, !.run.id = e.next, !.run.attempts = 1,
              !.next = @ + 1, !.out = Append(@, ActionInput(e, e.next, 1)),
              !.run.consent = FALSE]

FailedKey(e) == [task |-> e.run.task, vals |-> ValuesOf(e.run)]

\* A doubtful value first, then the next missing one, then the read-back, then the action.
Unsure(run) == {s \in Has(run) : ~run.slots[s].ok /\ ~run.slots[s].sure}
AdvanceFilled(e) ==
    IF Unsure(e.run) # {} THEN [Step(e, "confirming_slot") EXCEPT !.run.slot = CHOOSE s \in Unsure(e.run) : TRUE]
    ELSE IF ~Complete(e) THEN Ask(Step(e, "collecting"))
    ELSE IF e.run.task \in Confirms /\ ~e.run.confirmed THEN ReadOut(e, FALSE)
    ELSE IF e.run.task \notin Changes /\ FailedKey(e) \in e.failed
         THEN FinishOnce([e EXCEPT !.next = @ + 1], "failed")
    ELSE RunAction(e)

AdvanceOnce(e) == IF InRun(e) THEN AdvanceFilled(FillDefaults(e)) ELSE e

\* A resumed run advances at once, and may be over at once in its turn: as often as runs
\* can be suspended, which is MaxSuspended and the one this turn put aside.
Resume(e) == IF e.resumed THEN AdvanceOnce([e EXCEPT !.resumed = FALSE]) ELSE e
Settle(e) == Resume(Resume(Resume(e)))
Advance(e) == Settle(AdvanceOnce(e))
FinishRun(e, outcome) == Settle(FinishOnce(e, outcome))

\* The task read back for a yes, with the name; or what is missing asked for.
ReadBackFilled(e) ==
    IF ~Complete(e) THEN Ask(e)
    ELSE IF e.run.task \in Confirms THEN [ReadOut(e, TRUE) EXCEPT !.run.confirmed = FALSE]
    ELSE Advance(e)

ReadBack(e) == IF InRun(e) THEN ReadBackFilled(FillDefaults(e)) ELSE e

\* To a person; with no desk the call goes on, or ends after a failed action.
HandOff(e, reason) ==
    IF e.desk THEN [e EXCEPT !.phase = "handing_off", !.last = "handoff"]
    ELSE IF reason \in {"action_failed", "not_understood"} THEN Goodbye(e)
    ELSE Advance(e)

OrGoodbye(h) == IF h.phase = "active" THEN Goodbye(h) ELSE h
ForceHandoff(e) == OrGoodbye(HandOff(e, "forced"))

\* Not understood: the pending question again, or the end of the ladder.
Fallback(e, ladderOver) ==
    IF ladderOver THEN HandOff(e, "not_understood")
    ELSE IF InRun(e) /\ ~Executing(e) THEN Advance(e)
    ELSE e

-----------------------------------------------------------------------------
(* Values taken and the business's rules.                                     *)

\* Taken even when it is what is there already: a read-back no longer waits for its yes.
ApplyFill(e, s, st) ==
    IF s \notin SlotsOf[e.run.task] THEN e
    ELSE LET r == IF e.run.slots[s].val = st.val THEN e.run ELSE Set(e.run, s, st)
         IN  [e EXCEPT !.run = IF r.step \in {"awaiting_confirmation", "confirming_slot"}
                               THEN [r EXCEPT !.step = "collecting", !.slot = None] ELSE r]

Group(e) == IF InRun(e) /\ GroupSlot \in Has(e.run) /\ CarSlot \in SlotsOf[e.run.task]
            THEN {e.run.slots[GroupSlot].val} ELSE {}
RuleHit(e, rule, when) == rule \notin e.run.fired /\ Group(e) \cap when # {}

Fire(run, rule) == [run EXCEPT !.fired = @ \cup {rule}]

\* A group too large for a taxi sets the car; setting it forgets the rules that fired.
SetCar(e) ==
    IF ~RuleHit(e, "van", VanFor) THEN e
    ELSE [e EXCEPT !.run = Set(Fire(@, "van"), CarSlot, Given(Van, TRUE))]

RuleTakesOver(e) == RuleHit(e, "person", PersonFor) \/ RuleHit(e, "refused", RefusedFor)

TakeOver(e) ==
    IF RuleHit(e, "person", PersonFor)
    THEN HandOff([e EXCEPT !.run = Fire(@, "person")], "rule")
    ELSE Ask([e EXCEPT !.run = [Clear(Fire(@, "refused"), GroupSlot) EXCEPT !.step = "collecting", !.slot = None]])

-----------------------------------------------------------------------------
(* A turn decided by the language model.                                      *)

Begin(e) == [e EXCEPT !.turns = @ + 1, !.offered = FALSE]

Suspend(e) == IF InRun(e) /\ Has(e.run) # {} THEN [e EXCEPT !.suspended = Append(@, e.run)] ELSE e

\* Another task: the one under way waits, unless its action is running: then it is let go.
TurnTask(e, t) ==
    IF t \notin Tasks \ {e.run.task} THEN e
    ELSE LET s == IF Executing(e) THEN e ELSE Suspend(e)
         IN  FillFromOtherTasks([s EXCEPT !.run = NewRun(s, t)])

\* Only the city of a place: a value from elsewhere goes, without a trace in the journal.
DropStalePlace(e, s) == [e EXCEPT !.run.slots[s] = Absent]

\* A value with no task begins the only task that has it.
Inferred(e, s) ==
    IF InRun(e) \/ Infer(s) = {} THEN e ELSE [e EXCEPT !.run = NewRun(e, CHOOSE t \in Infer(s) : TRUE)]

Taken(e, s, st) == IF InRun(e) THEN ApplyFill(e, s, st) ELSE e

TurnFields(e, in) ==
    CASE in.words = "value" -> Taken(Inferred(e, in.slot), in.slot, Said(in.val, TRUE))
      [] in.words = "city" /\ InRun(e) -> DropStalePlace(e, in.slot)
      [] in.words = "misplaced" /\ InRun(e) /\ e.run.step = "collecting" ->
            [e EXCEPT !.run = Clear(@, in.slot)]
      [] OTHER -> e

RunsWithoutReadBack(e) == Complete(e) /\ e.run.step = "collecting" /\ e.run.task \notin Confirms
UnaskedBeforeConfirm(e) == Complete(e) /\ e.run.task \in AsksFirst /\ ~e.asked
AskOptional(e) == [e EXCEPT !.asked = TRUE, !.asking = TRUE]

\* The engine's own next question instead of the agent's.
NextQuestionFilled(e) == IF UnaskedBeforeConfirm(e) THEN AskOptional(e) ELSE ReadBack(e)
NextQuestion(e) == IF InRun(e) THEN NextQuestionFilled(FillDefaults(e)) ELSE e

Confirmed(st) == [st EXCEPT !.ok = @ \/ st.val # None]

Agree(e) ==
    [e EXCEPT !.run.confirmed = TRUE, !.run.agreed = e.run.heard, !.run.consent = TRUE,
              !.run.slots = [s \in Slots |-> Confirmed(@[s])]]

\* The agent wants the call over: a lone goodbye in the middle of a booking is asked about,
\* one the caller did not say is not followed.
TurnEnd(e, in) ==
    IF in.how = "doubted" /\ InRun(e) /\ e.run.step = "collecting" /\ Has(e.run) # {}
    THEN IF UnaskedBeforeConfirm(e) THEN AskOptional(e) ELSE ReadBack(e)
    ELSE IF in.how # "plain" THEN Goodbye(e) ELSE ReadBack(e)

\* A submit counts only as a yes, said at the read-back, to values that did not change.
TurnSubmit(e, in, changed) ==
    IF in.how = "yes" /\ ~changed /\ InRun(e) /\ e.run.step = "awaiting_confirmation"
    THEN Advance(Agree(e)) ELSE ReadBack(e)

TurnAction(e, in, act, changed) ==
    CASE act = "none" ->
            IF in.how = "decided" \/ RunsWithoutReadBack(e) THEN Advance(Ask(e)) ELSE [e EXCEPT !.asking = in.how = "asking"]
      [] act = "transfer" -> HandOff(Ask(e), "caller_requested")
      [] act = "end" -> TurnEnd(Ask(e), in)
      [] act = "submit" -> TurnSubmit(Ask(e), in, changed)

\* Before the agent's action: an optional question not asked yet, a rejected detail asked
\* again (or a person, at its third miss), a question out of order replaced.
BeforeAction(e, in, act, changed, was) ==
    LET sends == act = "submit"
    IN  IF RuleTakesOver(e) THEN TakeOver(e)
        ELSE IF in.words # "rejected" /\ sends /\ ~was /\ UnaskedBeforeConfirm(e) THEN AskOptional(e)
        ELSE IF in.words = "rejected" /\ (sends \/ act = "none")
             THEN IF in.how = "missed" /\ e.desk THEN ForceHandoff(e) ELSE Ask(e)
        ELSE IF act = "none" /\ in.how = "held" THEN NextQuestion(e)
        ELSE TurnAction(e, in, act, changed)

\* A value that changes at the read-back is a submit of its own, which reads back again.
Corrected(e, in, changed, was) ==
    BeforeAction(SetCar(e), in, IF in.act = "none" /\ changed /\ was THEN "submit" ELSE in.act, changed, was)

TurnValues(e, filled, in) ==
    Corrected(filled, in, in.words = "value" /\ ValuesOf(e.run) # ValuesOf(filled.run),
            InRun(e) /\ e.run.step = "awaiting_confirmation")

TurnWithTask(e, in) == IF in.words = "which_way" THEN Ask(e) ELSE TurnValues(e, TurnFields(e, in), in)

AgentTurn(e, in) ==
    IF in.task = "person" THEN HandOff(Begin(e), "intent") ELSE TurnWithTask(TurnTask(Begin(e), in.task), in)

-----------------------------------------------------------------------------
(* A turn understood by the rules: a plain yes or no, or the model too late.  *)

Switch(e, t) ==
    LET s == IF t = e.run.task THEN e ELSE Suspend(e) IN [s EXCEPT !.run = NewRun(s, t)]

\* Yes or no to the one value read back; another doubtful value instead is asked again.
AnswerSlot(e, in) ==
    LET s == e.run.slot
        asked == [e EXCEPT !.run = [Clear(@, s) EXCEPT !.step = "collecting", !.slot = None]]
    IN  IF in.slot = s THEN Fallback(asked, in.ladderOver)
        ELSE IF in.affirm = "yes"
             THEN Advance([Step(e, "collecting") EXCEPT
                              !.run.slots[s].ok = TRUE])
        ELSE Ask(asked)

\* Yes or no to the read-back.
AnswerReadBack(e, in) ==
    IF in.affirm = "yes" THEN Advance(Agree(e))
    ELSE IF SlotsOf[e.run.task] = {} THEN FinishRun(e, "declined")
    ELSE Step(e, "collecting")

\* The rest: an intent (a switch needs a sure one), the values, the rules, the next step.
Switches(e, in) == in.intent \in Tasks \ {e.run.task}
OrTakeOver(e) == IF RuleTakesOver(e) THEN TakeOver(e) ELSE Advance(e)

UnderstandValue(e, in, progressed) ==
    IF in.slot = None \/ in.slot \notin SlotsOf[e.run.task]
    THEN IF progressed THEN OrTakeOver(SetCar(e)) ELSE Fallback(e, in.ladderOver)
    ELSE OrTakeOver(SetCar(IF in.words = "city" THEN DropStalePlace(e, in.slot)
                           ELSE ApplyFill(e, in.slot, Said(in.val, in.sure))))

UnderstandTask(e, task, in, offered) ==
    IF InRun(task) THEN UnderstandValue(task, in, Switches(e, in) \/ ~InRun(e))
    ELSE IF offered /\ in.affirm = "no" THEN Goodbye(task)
    ELSE IF offered /\ in.affirm = "yes" THEN task
    ELSE Fallback(task, in.ladderOver)

Understand(e, in, offered) ==
    IF in.intent = "person" THEN HandOff(e, "intent")
    ELSE IF in.intent = "faq" THEN IF InRun(e) THEN Advance(e) ELSE OfferMore(e)
    ELSE UnderstandTask(e, Inferred(IF Switches(e, in) THEN Switch(e, in.intent) ELSE e, in.slot), in, offered)

Utterance(e0, in) ==
    LET e == Begin(e0)
        ofTask == InRun(e) /\ in.slot \in SlotsOf[e.run.task]
    IN  IF InRun(e) /\ e.run.step = "confirming_slot" /\
           \/ in.slot # e.run.slot /\ in.affirm # "none"
           \/ in.slot = e.run.slot /\ in.words = "value" /\ ~in.sure
        THEN AnswerSlot(e, in)
        ELSE IF InRun(e) /\ e.run.step = "awaiting_confirmation" /\ ~ofTask /\ in.affirm # "none"
        THEN AnswerReadBack(e, in)
        ELSE Understand(e, in, e0.offered)

\* Things the caller may say of the call itself.
Meta(e0, m) ==
    LET e == [e0 EXCEPT !.turns = @ + 1]
        undone == Undo(e.run)
    IN  CASE m = "cancel" ->
                OfferMore([(IF InRun(e) THEN CloseRun(e, "cancelled") ELSE e) EXCEPT !.suspended = <<>>])
          [] m = "go_back" ->
                IF InRun(e) /\ e.run.journal # <<>>
                THEN Ask([e EXCEPT !.run = [undone EXCEPT !.step = "collecting", !.slot = None]])
                ELSE e
          [] m = "transfer" -> HandOff(e, "caller_requested")
          [] m = "goodbye" -> Goodbye(e)

\* "No" to the question before the read-back.
NoToOptional(e0) == ReadBack([Ask(e0) EXCEPT !.turns = @ + 1, !.asked = TRUE])

-----------------------------------------------------------------------------
(* The result of an action: only the run that waits for this very request.    *)

(* Mutant: the attempt is counted and never made.                             *)
ActionFailedSilently(e, outcome) ==
    IF e.run.attempts < MaxAttempts[e.run.task] THEN [e EXCEPT !.run.attempts = @ + 1]
    ELSE FinishRun(e, "failed")

ActionFailed(e, outcome) ==
    LET t == e.run.task
        retry == [e EXCEPT !.run.attempts = @ + 1, !.out = Append(@, ActionInput(e, e.run.id, e.run.attempts + 1))]
        counted == IF t \in Changes THEN [e EXCEPT !.failures = @ + 1]
                   ELSE [e EXCEPT !.failed = @ \cup {FailedKey(e)}]
    IN  IF e.run.attempts < MaxAttempts[t] THEN retry
        ELSE IF outcome = "unknown"
             THEN IF e.desk THEN CloseRun(HandOff(e, "unknown"), "unknown") ELSE FinishRun(e, "unknown")
        ELSE IF counted.failures >= HandoffAfter THEN HandOff(counted, "action_failed")
        ELSE FinishRun(counted, "failed")

OnActionResult(e, q, outcome) ==
    IF ~(Executing(e) /\ e.run.id = q.id) THEN e
    ELSE IF outcome = "ok" THEN FinishRun(e, "success") ELSE ActionFailed(e, outcome)
-----------------------------------------------------------------------------
(* The call: turns, results and the session that executes what comes of them. *)

\* The bounds of the model.
Within(e) == Len(e.suspended) <= MaxSuspended /\ Len(e.run.journal) <= MaxJournal

\* Actions are started, each on its own; of a transfer and a hangup the last one stands.
Proceed(e, running) ==
    /\ Within(e)
    /\ eng' = [e EXCEPT !.out = <<>>, !.last = "none"]
    /\ flight' = running \cup {e.out[i] : i \in DOMAIN e.out}
    /\ after' = IF e.last = "none" THEN after ELSE e.last
    /\ UNCHANGED over

Execute(e) == Proceed(e, flight)

Listening == ~over /\ eng.phase = "active" /\ eng.turns < MaxTurns

\* What is heard of a detail: a value, or only the city of a place.
Heard == {w \in [words : {"value"}, slot : Spoken, val : Values] : w.val \in Domain[w.slot]}
         \cup [words : {"city"}, slot : Places, val : {None}]
Nothing == [words |-> "nothing", slot |-> None, val |-> None]
Rejected == [words |-> "rejected", slot |-> None, val |-> None]

\* The agent's decision: a task, what it heard, and an action with what its guards ask of
\* the caller's words: a yes, a goodbye, a question of its own the engine lets pass or holds.
Acts == {<<"none", "plain">>, <<"none", "decided">>, <<"none", "held">>, <<"submit", "yes">>, <<"submit", "plain">>}
Leaving == {<<"transfer", "plain">>, <<"none", "asking">>, <<"end", "bye">>, <<"end", "doubted">>, <<"end", "plain">>}

Decision(w, t, a) ==
    [words |-> w.words, slot |-> w.slot, val |-> w.val, task |-> t, act |-> a[1], how |-> a[2]]

Decisions ==
    {Decision(w, t, a) : w \in Heard \cup {Nothing, Rejected}, t \in Tasks \cup {None}, a \in Acts}
    \cup {Decision(Nothing, None, a) : a \in Leaving}
    \cup {Decision(Nothing, "person", <<"none", "plain">>), Decision(Rejected, None, <<"none", "missed">>)}
    \cup {Decision([Nothing EXCEPT !.words = "which_way"], t, <<"none", "plain">>) : t \in Tasks}
    \cup {Decision([words |-> "misplaced", slot |-> s, val |-> None], None, <<"none", "plain">>) : s \in Places}

AgentDecides == Listening /\ \E in \in Decisions : Execute(AgentTurn(eng, in))

Understanding(w, sure, i, a) ==
    [words |-> w.words, slot |-> w.slot, val |-> w.val, sure |-> sure, intent |-> i, affirm |-> a, ladderOver |-> FALSE]

Understandings ==
    {Understanding(w, sure, i, a) : w \in Heard, sure \in BOOLEAN, i \in Tasks \cup {None}, a \in {"yes", "none"}}
    \cup {Understanding(Nothing, TRUE, i, a) : i \in Tasks \cup {None, "person", "faq"}, a \in {"yes", "no", "none"}}
    \cup {[Understanding(Nothing, TRUE, None, "none") EXCEPT !.ladderOver = TRUE]}

RulesDecide == Listening /\ \E in \in Understandings : Execute(Utterance(eng, in))

SaysOfTheCall == Listening /\ \E m \in {"cancel", "go_back", "transfer", "goodbye"} : Execute(Meta(eng, m))

OnNoToOptional ==
    /\ Listening /\ eng.asking /\ eng.run.step = "collecting" /\ eng.run.task \in AsksFirst
    /\ Execute(NoToOptional(eng))

OnClosing == Listening /\ eng.offered /\ Execute(Goodbye([eng EXCEPT !.offered = FALSE, !.turns = @ + 1]))

\* Recognition is gone, or the call is stuck: a person, or the end.
Stuck == ~over /\ eng.phase = "active" /\ Execute(ForceHandoff(eng))

CustomerFound ==
    /\ ~over /\ ~eng.customer
    /\ eng' = [eng EXCEPT !.customer = TRUE] /\ UNCHANGED <<flight, after, over>>

\* A request ends: done, refused, or cut off with nobody knowing whether it arrived.
Outcomes == {"ok", "failed", "unknown"}

ActionEnds(q, outcome) == ~over /\ q \in flight /\ Proceed(OnActionResult(eng, q, outcome), flight \ {q})

\* The last words were heard: the call is transferred or hung up.
Terminate == ~over /\ after # "none" /\ over' = TRUE /\ UNCHANGED <<eng, flight, after>>

Init ==
    /\ \E c, d \in BOOLEAN :
        eng = [phase |-> "active", run |-> NoRun, suspended |-> <<>>, completed |-> <<>>, offered |-> FALSE,
               asking |-> FALSE, asked |-> FALSE, failures |-> 0, failed |-> {}, next |-> 0, customer |-> c,
               desk |-> d, turns |-> 0, resumed |-> FALSE, out |-> <<>>, last |-> "none"]
    /\ flight = {} /\ after = "none" /\ over = FALSE

Next ==
    \/ AgentDecides
    \/ RulesDecide
    \/ SaysOfTheCall
    \/ OnNoToOptional
    \/ OnClosing
    \/ Stuck
    \/ CustomerFound
    \/ \E q \in flight, outcome \in Outcomes : ActionEnds(q, outcome)
    \/ Terminate

Spec == Init /\ [][Next]_vars

-----------------------------------------------------------------------------
(* Properties.                                                                *)

TypeOK ==
    /\ eng \in EngineType /\ flight \subseteq Request
    /\ after \in {"none", "handoff", "hangup"} /\ over \in BOOLEAN

\* Every detail the caller gave for a task that needs a yes goes out exactly as it was last
\* read back and agreed to, through corrections, undoing, task switches and late results.
SentWasAgreed ==
    [][\A q \in flight' \ flight :
            q.task \in Confirms =>
                \A s \in q.said \ {NameSlot} : q.vals[s] = eng'.run.agreed[s]]_vars

\* A run that waits for its action waits for a request that is still running, so that the
\* caller who was told to wait is answered.
WaitsForARequest ==
    eng.phase = "active" /\ Executing(eng) =>
        \E q \in flight : q.id = eng.run.id /\ q.task = eng.run.task /\ q.n = eng.run.attempts

\* A task put aside for another is taken up again: none is left behind when nothing is going on.
NothingForgotten == eng.phase = "active" /\ ~InRun(eng) => eng.suspended = <<>>

\* Two requests with one idempotency key are never on their way together.
OneRequestPerKey == \A q, r \in flight : q.id = r.id => q = r

\* One yes sends one request.
OneYesOneRequest == \A q \in flight : q.task \in Confirms => q.agreed
=============================================================================
