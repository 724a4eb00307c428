# Callora: a verification project

Callora answers a business's phone (a taxi dispatch) with a voice agent: it hears the caller,
decides with a language model under the business's rules, speaks, runs the business's actions
and hands the caller to a person when it must. This directory holds TLA+ models of the parts
where order, time and failure decide whether a call goes well, the TLC runs that check them
and the TLAPS proofs about them. Paths below are relative to `src/crates/` unless they say
otherwise.

## 1. The system

| Part | State it keeps | Operations | Talks to |
|---|---|---|---|
| Call session (`callora-runtime/src/session.rs`, `session/*.rs`) | one actor per call: items queued to be said, timers by generation, pending decision, second hearing, held words, transcript due, action count, how the call will end | one handler per event of a biased select: caller audio, playout events, transcripts, its own events, the time limit | everything below |
| Playout (`callora-audio/src/playout.rs`) | queue of items, current item, frames ahead of real time, spared item, idle flag | enqueue, cancel, soft cancel; a 20 ms tick; stream data | session by two unbounded channels; TTS tasks by bounded ones |
| Conversation engine (`callora-core/src/engine.rs`, `state.rs`, `agent.rs`) | the running task, its slots and step, the phase of the call, reprompts, what was said last | `on_*` methods that return directives (speak, run an action, hand off, hang up) | called by the session only |
| Dispatch desk (`callora-runtime/src/desk.rs`) | one record per transfer behind a mutex: legs, ended, dialed, taken, winner, connected | transfer, deadline, and webhooks: answered, leg ended, caller ended, conference event | Twilio REST client; HTTP server |
| Recognizer sessions (`callora-providers/src/{openai_stt,soniox,deepgram,stt_failover}.rs`) | a stream per call, a focused one being opened, a shared cool-down of the primary | open, finalize, close, fail over | session |
| Decisions (`openai.rs`, `race.rs`, `agent_model.rs`) | the model in use | a streamed decision, hedged by a backup | session |
| Business actions (`callora-runtime/src/actions.rs`) | none; an idempotency key per run | one HTTP request per attempt | engine by directives |
| Orders out (`callora-runtime/src/whatsapp.rs`, `src/whatsapp/`) | outbox table, pace per account, price-bot questions | enqueue, send one, retry, ask a bot | PostgreSQL, the messaging service |
| Store and settings (`store.rs`, `settings.rs`) | a bounded queue to one writer; settings in memory and in the database | record, save, load | PostgreSQL |
| HTTP server (`server.rs`, `twilio.rs`) | businesses, login attempts | webhooks, media socket, admin API | session, desk |
| Barge-in, VAD (`barge.rs`, `vad.rs`) | levels and counters of the current utterance | classify, push a frame | session |
| Language, gazetteer, rendering, audio processing, dashboard, deployment | data | pure functions, files, pages | |

What is hard here:

* **The floor.** Nothing sounds unless a handler says something, and a handler runs only when
  an event comes. Each path through the session must leave something pending: an item that
  will end with an idle, an answer, or a timer. Timers are made stale by generation counters,
  so every `generation += 1` without a new timer is a chance of dead air. The property is that
  no reachable state is quiet with nothing to come (`NoDeadAir`), and that the end of a call
  waits for its last words (`EndsHeard`).
* **Two channels between session and playout.** The session counts what it enqueued and what
  was reported; a cancel crosses items and events on their way. The count must stay exact,
  every item must end once, in order, and the idle must never be lost.
* **The desk.** A dialing task, a deadline, and webhooks that come late, twice, out of order
  or never share one record; requests fail after they took effect. At most one operator may
  get the caller, the caller must be told at most once, and must not wait for ever.
* **Money and rides.** A submit needs a read-back and a yes; an attempt that timed out may
  have booked, and turns of the caller go on while a request is out. A request must carry
  what was read back and agreed to, once.
* **Words.** They wait in several places at once (half a sentence, a second hearing, a guess
  on partial words, a decision being streamed), each a task whose answer may come after the
  call moved on. Each must reach the engine once. The recognizer they come from may die, be
  swapped or be reconnected between two of them.
* **Getting an answer out of a caller.** A dozen counters and notes decide whether a question
  is asked again, doubted, taken as said or given up. Each is reset by some other turn, so
  that a call ends, and not too early, is a property of all of them together.
* **Restarts** matter for the outbox and the settings, and for a call between its webhook and
  its stream: calls themselves are not persisted.

`PROJECT.json` lists each hazard at its line, with the properties that cover it.

## 2. Modules

| Module | Models | Checked by |
|---|---|---|
| `Handoff` | what a transfer promises: offered, claimed by one operator, connected to that one, closed for good | implemented by `Desk` |
| `Desk`, `MCDesk` | `desk.rs` | `desk_safety`, `desk_live`; `DeskProofs` |
| `Speaker` | what the playout promises the session, in counts and events | implemented by `Playout`; part of `Floor` |
| `Playout`, `MCPlayout` | `playout.rs`, with the session's count and the TTS tasks | `playout`; `PlayoutProofs` |
| `Floor` | the session actor, over `Speaker` | `floor`, `floor_goodbye`; `FloorProofs` |
| `Booking`, `MCBooking` | `engine.rs` and `state.rs`: the task machine; `session/speech.rs`, `actions.rs`: its requests | `booking`, `booking_twice`; `BookingProofs` |
| `Questions` | `engine.rs`: `on_agent_turn` and the gate before it, while details are collected | `floor`, `talk`, `questions_lost`; `FloorProofs` |
| `Places` | `engine.rs`: `check_place`; `gazetteer.rs`: its outcomes | `talk`; `TalkProofs` |
| `Patience` | `engine.rs`: silence, fallbacks, curses, goodbyes, the same question | `talk`; `TalkProofs` |
| `Ears` | `vad.rs`, `barge.rs`, the audio half of `session/hearing.rs` | `listening`; `ListeningProofs` |
| `Hearing` | recognizer sessions, focus and swap, reconnects, `stt_failover.rs` | `listening`, `listening_noise`; `ListeningProofs` |
| `Deciding` | from a transcript to the engine: `on_final`, `agent_turn.rs` | `listening`; `ListeningProofs` |
| `Outbox` | `store.rs`'s queue, `whatsapp.rs`: outbox, sender, accounts | `services`; `OutboxProofs` |
| `PriceBot` | `whatsapp.rs`: questions to the price bot | `services`; `ServicesProofs` |
| `Owner` | the settings API of `server.rs`, `settings.rs`, `owner_config.rs`, `agent_model.rs` | `services`; `ServicesProofs` |
| `Door` | voice webhook, stream tokens and media socket of `server.rs`, `twilio.rs` | `services`; `ServicesProofs` |
| `Models` | `race.rs`, `openai.rs`, how `main.rs` puts them together | `services`; `ServicesProofs` |
| `MCTalk`, `MCListening`, `MCServices`, `MCFloor` | several of the above, each by itself, in one run | |

The last row: a behaviour of such a module is about one `part`; the variables of the other
parts stand still. The state space is the sum of the parts', not their product, and each
property says of which part it speaks. Nothing is claimed about two parts together. One part of
each (`Patience`, `Hearing`, `Outbox`, `Floor`) is extended and so keeps its own names and
properties; in the behaviours of the others it stays in an initial state. The theorems about an
extended part are of its own `Spec`; those about the other parts (`Places`, `Deciding`, `Ears`,
`Owner`, `Door`) are of the specification the run checks, with every part in it.

### Desk

One transfer is modelled: transfers of different callers share only the map they are kept in.
Each action is one critical section of one task. What a task does between two of them is
state: `dialing` (an awaited dial), `telling` (a fallback request in flight, by cause),
`cancels` (cancel requests in flight), `checks` (tasks about to enter
`give_up_if_all_failed`). `xf` is the record of the map; `live` says whether the map still has
it. `legs`, `ended` and the others keep the code's names. A leg is named by its number,
because each distinct number is dialed once.

The phone network is external and modelled from the TwiML the code sends (the caller's hold
conference has `endConferenceOnExit`, an operator hears the summary and then joins) and from
how `twilio_rest.rs` reads its answers: a redirect or cancel of a call that is over is a
success; a dial can fail at the client after the call was created (`ReplyMayBeLost`).
Callbacks are sets of what is on its way, delivered in any order, repeated (`again`) or lost
(`CallbackMayBeLost`); `RestMayFail` lets the other requests fail. `AnswerMayBeLate` lets an
answer's webhook come after its leg has ended, and after its end was reported: the leg is then
`late`, and the code, which does not look, may still give it the caller. `begun` and `joinSent` are
history. `Sweep` is the `retain` of a later transfer, an hour on, so it waits for this one's
tasks.

### Playout

The loop of `run` is `pc`: *send* until the lead is reached or nothing is ready, *report* what
ended and the idle, *select* a command, data or the tick (in that order: the select is
biased, so data and the tick need an empty command channel). Audio is counted in frames after
trimming; what is in a stream's channel and in its buffer is one number, since the task drains
the channel whenever it needs more. The three buffer lengths of the configuration (start,
continuation, rebuffer) are one constant. A tick with nothing in flight changes nothing and is
left out. Items are numbered in the order the session says them, which the command channel
keeps. The session's side (`queued`, `protecting`) is here because its count is half of the
protocol. `ends` is history.

### Floor

`Floor` extends `Speaker`: the playout is its promise, which `Playout` is shown to implement,
and not its frames. Each handler of the session is one action. Playout events are handled
before transcripts and the session's own events, as in the biased select (`Calm`); caller
audio comes before everything and may come at any time. The model keeps the control:
`queued_items`, `protecting`, `after_speech`, `actions_in_flight`, the VAD's state,
`utterance_heard`, `barge_pending`, a flag for each timer whose generation is current,
`finalize_sent_at`, `second_pending`, `unfinished`, the pending decision and whether it is a
guess, and the recognizer's session. What the caller says is one of five kinds of transcript,
because `on_final` tells those apart; the wording decides which, and wording is left out.
`pending_llm` (the older path without an agent) and `pending_agent` are one variable: both
take a turn and end it, and a call has one or the other. The engine is abstracted to the
directives it can return; once the call is ending it returns none (`phase` is not Active).
`interrupted`, `cut_read_back`, `yes_over_read_back`, the filler's once-a-turn rule, the
barge-in thresholds and the reconnect counter are nondeterministic choices.

Timing appears as assumptions on which step may come first, named one by one in `Trouble`:

| Trouble | Without it, the model assumes |
|---|---|
| `echo` | the agent's own words do not come back after the idle (within `ECHO_TAIL`) |
| `tail` | a voice does not go on after its words were transcribed; each end of speech has its own transcript |
| `stale` | an action's result finds its task still running |
| `slow` | a decision that has begun to speak ends before the silence timer |
| `early` | an interruption finds that what it cuts off has begun to sound |

`Speculate` is the `AGENT_SPECULATE` setting (off by default) and `MayBeSilent` lets a TTS
stream fail before its first frame. `floor` shows that with none of these the session never
goes quiet. The invariant fails under each of them alone, as the hazard list says.

### Booking

The engine is a record; each method is an operator from engine state to engine state, and an
action is one whole turn: what the caller's words, the rules or the language model come to
(`AgentDecides`, `RulesDecide`, `SaysOfTheCall`, `OnNoToOptional`, `OnClosing`), a result of an
action (`ActionEnds`), the customer record arriving (`CustomerFound`), a forced handoff
(`Stuck`) and the end (`Terminate`). `flight` is the set of requests out, with the run's id as
the key `actions.rs` derives its idempotency key from. A run keeps its details (value, sure,
confirmed, by whom), step, journal for undoing, whether it was confirmed, attempts and the
rules that fired. `heard`, `agreed` and `consent` are history: the values of the last
read-back, those the caller agreed to, and a yes that was not yet used. `SentWasAgreed` compares
what goes out with `agreed`, for the details the caller gave; a detail the system fills
(a car for many passengers, the customer's name) is not read back by the code either.

### Questions

One turn of the language model: the values it passes, corrected by the caller's words (a
preposition, a cue, a word of correction, one town for two places), the gate that probes the
reply on a copy of the call before a word is played, and the engine's own question when words
were held back. `air` is what the caller was really asked, `call.asks` what the engine noted:
that the two can differ is the third finding. The list of questions still open is kept as the
place of each detail in it (`open`), so that nothing in the module recurs over a sequence.
`Words`, `Said`, `Fields` and `Asking` bound the inputs: one thing said, or two that matter
together; each value passed under a detail it fits, or left out. The task is the taxi ride of
the repository's configuration, as a fixed order of four details. The name of a caller of kind
*anyone* is known from the customer record. `turn` is history for the properties; its `odd`
makes each turn of an answering caller a step, so that fairness can speak of it.

### Places, Patience

`Places` follows one place slot: its value, what is noted of it, and whether the call was
handed over. A caller's words are the outcome of looking them up, as `Lookup` has it, and a
caller may at any time fall into a `habit` of saying the same words each time. `Patience` keeps
the counters; a turn of the caller leaves any task it could leave, and so does the end of an
action, since `Booking` is about tasks. `desk` says whether there is a person to hand over to: without one, `handoff` gives the
call one more round and then ends it. `unanswered` is history.

### Ears, Hearing, Deciding

`Ears` is driven by frames: a level and what RNNoise makes of it. Times are counted in frames,
loudness in whole levels, and the threshold in units (`Scale`) that make 1.2 times a mean exact. `steady` fixes one frame for ever: a noise that does not change.
`Hearing` numbers utterances and follows which of them a recognizer's session holds, which is
kept for resending, and which was spoken to no one. An end of speech may have no words in it:
`EmptyFinals` names the recognizers that answer it all the same, with an empty transcript (OpenAI
does; Soniox and Deepgram send nothing). `noises` counts those left unanswered; each connection being opened is an entry
of `opens`, because the code opens them in tasks of their own. The failover's cool-down is
shared with other calls (`OtherCalls`). `Deciding` follows the words of each utterance through
`unfinished`, `second`, `pend` and the mailbox of a decision's task to `taken`, what the engine
was given. `Modes` are the configurations: rules with a model's help, the agent with second
hearings, the agent with guesses. The agent with both (`both`, off by default) is left out of
the run: there, words held for a second hearing can be lost to a guess.

### Outbox, PriceBot, Owner, Door, Models

`Outbox`: records wait in memory for the writer, messages in the table for the sender; a crash
forgets the first and the sender's place. `out` counts the copies in the group, `asked` the
owner's retries, `excused` the copies the code cannot avoid (a crash or a failed update after
the send, a connection that broke after the service had the message). `PriceBot`: calls check
memory, the database and the silence of the bot, count themselves in under the lock, wait
outside it and send; the instants of `asked` are numbered entries, since two may be of one time.
`Owner`: a request reads memory, writes the database, which may fail or lose its answer, and
then memory; the configuration is in use before it is saved and is taken back when the save
fails. No lock is held across the database, so requests of other pages come in between, and a
request whose client goes away is dropped where it waits (`Dropped`), with nothing taken back.
`apart` is history: the settings of which two changes overlapped, or one was broken off, and that
were not changed alone since. `Door`: what the webhook left in `pending` against the token's life. `Models`: one
request over up to three lanes, each of which answers, fails or hangs.

## 3. Runs

All on 2 workers, each within five minutes.

| Run | Expect | Bounds | Shows |
|---|---|---|---|
| `desk_safety` | pass | 2 numbers, every failure and late answers allowed, symmetry | `OneOperator`; `EventsTellOnce` (deadline, last refusal, lost operator exclude each other); `NoJoinAfterTold`; `ConnectedIsLeftAlone`; `ImplementsHandoff` |
| `desk_live` | pass | 2 numbers, callbacks may be lost, answers late, requests answered | `CallerIsServed`, `NotLeftAlone`, `OthersStopRinging` under `Fairness` |
| `playout` | pass | 3 items of up to 2 frames, lead 2, 2 commands on their way | `InPlace` (no item lost, none ended twice, in the order said), `QueuedIsExact`, `ImplementsSpeaker`; `EveryItemEnds`, `GoesIdle` under `Fairness` |
| `floor` | pass | 2 items, 2 commands; 2 towns, symmetric | `NoDeadAir` on an orderly line; `AskedInOrder`: whatever the model asks, nothing is read back while a required detail is missing, and no question goes past one, with five exceptions (below); `NotedAnswersAreTaken`: the answer to a question that was noted is not dropped |
| `floor_goodbye` | violation | as `floor` | an earlier idle ends the call before the goodbye was played |
| `booking` | pass | a ride and a price, 4 turns, 1 suspended task, 2 journal entries, 2 attempts | `SentWasAgreed`, `WaitsForARequest`, `NothingForgotten`, `OneRequestPerKey` |
| `booking_twice` | violation | as `booking` | one yes sends two requests |
| `questions_lost` | violation | 2 towns | a bare answer to a question that was not noted is dropped |
| `talk` | pass | 2 cities, 3 misses; 2 reprompts and 2 patient ones, a ladder of 2; 1 town | `StreetIsThere`, `UnverifiedWasDoubted`, `InsistingEnds`; `DetailsAreWaitedFor`, `NobodyIsKept`; `EveryDetailIsCollected` |
| `listening` | pass | 2 utterances, 2 openings, 1 reconnect; the backup sends nothing for noise; levels 0 to 2 | `NeverDeaf`, `GivesUpOnTroubles` (a person takes the call only after more failures and unanswered noises than reconnects allowed), `DueIsSettled`; `WordsKept`, `EveryWordIsAnswered`; `OwnWordsInterrupt`, `SteadyNoiseIsLearned` |
| `listening_noise` | violation | 2 utterances, 1 opening, 1 reconnect | noise alone gives the call up |
| `services` | pass | 1 order, 2 attempts, a fault and a retry; 2 calls asking the bot; 2 pages, 2 voices, 3 requests; 2 calls at the door; 3 pieces of a reply | `CopiesAreExplained` (no copy without a cause, and what is shown as sent is in the group), `EveryMessageSettles`; `CapsHold`; `RestartChangesNothing`; `KnownToTheSession`; `OutageIsCovered`, `GivesUpLast` (an error only when every model failed) |

What `AskedInOrder` sets apart, as the code has it: a question about a detail just refused; the
question asked longest ago of those still open that the reply gives no value for, which
`moves_on` asks again; the one about both places; one in words that do not name what they ask;
and any after a town was moved from one place to the other. Without the second of these
(`turn.again`) it fails: see section 5.

Why the bounds are enough. Two numbers give the desk a winner, a loser, a number that never rang
and one whose reply was lost, and the record treats all losers alike (the proofs remove the
bound for safety). Three items give the playout one playing, one waiting and one on its way; two
frames with a lead of two make it reach the lead, run dry and rebuffer. Two items in `Floor` are
one sounding and one behind it; more only repeat `queued > 0`. In `Booking` four turns are two
details, a yes and one turn that disturbs them, with results and the end coming besides; the
second value of each detail makes corrections visible, and the price is the task that interrupts
the ride and takes a detail from it. Two cities are the right one and a wrong one. Three misses
reach the handoff. Two utterances are one being answered and the one after it; one reconnect
is one that may succeed, and the next is one too many; the primary answers noise and the backup
does not, so both kinds are met. Three levels are silence, a noise at the
threshold and a voice above it. Two callers at the price bot race for the last question under a
cap. Two pages and three requests are two changes that overlap and one that is made alone
after them. Two calls at the door are the one that waits and the one that purges. One order is enough
for the rows of the outbox, which share nothing but the sender. The proofs lift the bounds of
every safety property.

`CHECK_DEADLOCK FALSE` is set where the system may stop: a playout with nothing to say, a call
that is over, a model at a bound. `Desk` has `Settled` instead, so a desk that stops with work
left would be reported.

Fairness:

* `Desk`: the tasks of the server run, a request in flight completes, the deadline passes, a
  picked-up leg's answer webhook is handled, a summary comes to its end; nobody is made to pick
  up, refuse or hang up, and no callback is sure to come.
* `Playout`: the task runs, the session takes its events, a TTS task sends and ends
  (`TTS_STALL` ends one that stops sending); nobody is made to speak or interrupt.
* `Hearing`: a connection opens or fails (both have timeouts), the overdue timer fires, a
  recognizer that is up answers. `Deciding`: events are handled, a decision's task and a second
  hearing end (each has a timeout), a caller who speaks stops; strong fairness for the timer of
  half a sentence, which each new start of speech puts off, because a caller does not start
  for ever. `Ears`: a noise that has settled goes on.
* `Places`, `Patience`, `Questions`: a caller with a habit keeps it up, timers fire, requests
  end. These state what happens to such a caller; no caller is made to have a habit.
* `Outbox`: the sender runs and comes to a message that stays due (strong, since the account may
  come and go), the service answers, pauses and hours end. Nothing makes an account ready.
  `Models`: the hedge's timer fires and a lane that answers does.
* `Floor`, `Booking`, `PriceBot`, `Owner` and `Door` are checked for safety only: a silent caller
  may be waited for as long as timers are armed again.

These are what the tokio runtime and the code's timeouts give.

## 4. Proofs

Each inductive invariant was checked by TLC on a small instance before it was proved.

* `DeskProofs`, for any non-empty finite set of numbers and any combination of failures.
  `TypeCorrect`: `TypeOK` is inductive as it stands. `ClaimsHold`: the invariant `Claims`.
  `OneOperator` alone is not inductive: a state with one leg in `joinSent` and an untaken record
  would admit a second. `Claims` says that while the record is live and untaken there is no
  winner, nobody was given the caller and nobody told them anything; that a live winner is the
  only member of `joinSent`; and that before the conference start is recorded no event has told
  the caller. Most steps touch none of it (`Quiet`); the lemma `NextCases` reduces `Next` to
  those and the few that do. `OneOperatorHolds`, `NoJoinAfterToldHolds`, `EventsTellOnceHolds`
  and `ConnectedIsLeftAloneHolds` follow; the first two rest on `OnlyTheWinnerJoins`, the third
  on `TellingStep`. `DeskImplementsHandoff`: with `Phase` and `Operator` as the refinement
  mapping, each step is an abstract step or a stutter.
* `PlayoutProofs`, for any number of items, frames and commands and any lead, in three layers.
  `IInv`: `Accounted` and `InOrder` need each other, because an item enters the queue as the
  next one only if those before it are in it or over. `QInv` adds the channels: what the
  session said is what the task accepted and the enqueues on their way, so that `queued` is the
  items in all four places (`QueuedIsExactHolds`); it rests on lemmas about how a command or an
  event taken from the front or put at the end changes the two counts (`SayingsTail`,
  `AnnouncedTail` and the like). `RInv` says that as long as nothing was heard of an item it
  has a frame to play or one still to come, and that the end of the current stream is seen only
  when it is there. With that, each step of the task is one of `Speaker` or none that it can
  see (`PlayoutImplementsSpeaker`); the case that needs `RInv` is the end of an item.
* `FloorProofs`, for any bounds on items and commands, with nothing in `Trouble`, no guesses
  (`Speculate = FALSE`) and no silent items (`MayBeSilent = FALSE`): the hypotheses of the
  theorems and the values of the `floor` run. They are needed: `NoDeadAir` fails under each of the
  others, and with guesses. `FInv` says that what the session counts as queued the playout has
  still to report (`Accounted`), that the events on their way are those of one step with an
  idle at their end (`EventsSettle`), that a call that is to end has its end under way, and that
  an idle session has its silence timer on (`Prompted`). The theorems are of the run's own
  specification, `PartsSpec`.
  `Questions`, for any towns (`None` is none of them: `NoneAssumption`) and any number of turns:
  `AskedInOrderHolds` (with the exceptions of section 3) and `NotedAnswersAreTakenHolds`. The invariant of the call is no more than
  the shape of what it keeps and that a question asks for one detail (`CallOK`); the work is in
  one turn. The engine's own question is the first of what is missing (`NextQuestionSettles`),
  or goes back to the open one asked longest ago. The model's own question was let pass by the
  gate, which takes the values on a copy of the call, without two corrections the engine makes:
  a town that changes places and a street passed as nothing. `TakeAgrees` says that every detail
  the gate thought given is given after the engine's turn too, unless a town changed places,
  which the property sets apart; `StreetHeard` is the second correction. For the answers, each
  of the corrections is shown to leave the value passed for the noted question
  (`AnswerIsTaken`; `SameCityKeeps` is the one that could take it away).
* `BookingProofs`, for any business file and any number of turns. Every method of the engine is
  an operator, so there is a lemma for each, over three predicates that relate the engine to
  the one the turn began with: `Quiet` (nothing asked of the backend yet), `Mid` (a run ended,
  another may be resumed) and `Done` (at most one request, for the run that now waits for it).
  `BInv` says of the run and of each suspended one that a read-back waiting for its yes, and a
  yes that stands, are about the values there are (`RunOK`): that is what `SentWasAgreedHolds`
  needs and what every correction, undo and switch could break. `OneRequestPerKeyHolds`,
  `WaitsForARequestHolds` and `NothingForgottenHolds` follow from the same invariant.
* `ListeningProofs`. `Hearing`, for any cities and bounds: `NeverDeafHolds` (an entry leaves
  `opens` only with a session or a handoff in its place) and `GivesUpOnTroublesHolds` (for natural
  `MaxReconnects` and any `EmptyFinals`): each reconnect is paid for by a failure or an unanswered
  noise, and one that is still to be counted (`Owed`: a dead session, or an end of speech that
  nothing will answer) is paid for before. `Deciding`, for any number of
  utterances and configurations without both second hearings and guesses (`OneWay`):
  `WordsKeptHolds`, from `Separate` (no utterance is in two places, nor twice in one) and
  `OneWaits` (a second hearing is waited for only while no turn is under way). `Ears`, for any
  levels and times: `OwnWordsInterruptHolds`.
* `TalkProofs`. `Patience`, for any natural lengths of the ladders (`ConfigIsNatural`).
  `Bounded`: the counters of an active call are below what ends it, and the silences counted
  are no more than those since the caller's last words. `Places`: no invariant of the notes is
  needed; each outcome of a lookup is shown to leave only values the properties allow, whatever
  was noted before.
* `OutboxProofs`, for any orders, limits, faults and retries. `Covered` says of each row how
  many copies it may have at the point the sender has reached with it; the owner's page
  changes rows in between, so it speaks of settled rows in the sender's hand too. That what
  is shown as sent is out, and that nothing sends it again (`SentIsFinalHolds`), needs what is
  known of the message in hand: it is not a sent one, the owner may ask for it again meanwhile,
  and an "ok" is about a copy that is out (`InHandIsNotSent`).
* `ServicesProofs`. `Owner`, for any pages (`RestartChangesNothingHolds`): while
  no change of a setting that is not `apart` is under way, the database, memory and use agree on
  it (`Settled`). That needs two facts of the requests: which of the three have the new value at
  each point of one that has its setting for itself (`Fits`), and that such a request is the only
  one of its setting (`Sole`). `Door`, for any calls and numbers; the times are natural numbers (`TimesAreNatural`): what is pending of a call is
  as old as its webhook, and is there while in time. `PriceBot`, for any calls, questions, caps,
  pauses and windows that are natural numbers, the hour within the day (`PaceIsNatural`):
  `CapsHoldAlways`, since the server started (a restart forgets what was asked). A question is
  counted for the time it will go out at, which may be later than now, so `BotInv` speaks of the questions sent and of those waiting together (`Counted`):
  what was counted within a day is still in `asked` (`Remembered`), and no window of either has
  more of them than its cap. The last of a window to be counted found the others there. That a
  waiting question goes out on time is part of the model (`Tick`). `Models`, for replies of any
  length: `GivesUpLastHolds`. That all have failed is known only through who was asked when
  (`Waiting`): in a race all of them at once, otherwise the backup before the primary is given
  up, hedged or not, and the fallback only after both (`InTurn`).

The assumptions on constants (`DeskAssumption`, `PlayoutAssumption`, `FloorAssumption`,
`ConfigAssumption`, `NoneAssumption`) are evaluated by TLC in the runs; the hypotheses named above are part of the
theorems' statements. The type invariants of `Desk` and `Patience` are proved, the others are
for reading.

Only model-checked: the liveness properties, which are out of the prover's reach. Every other
property of a passing run, invariant or action property, is a theorem. Two are proved and
not kept in a run, since the proof says more: `SecondCurseEnds` (a call does not go on after a
second curse, whichever path each came by) and `SentIsFinal`.

## 5. Findings

1. `booking_twice`: `advance` does not look at a task that is executing (`engine.rs:2647`, and
   3518 and 3563): a question answered, a handoff that is not available or a resumed task starts
   the action again with a new key. `OneRequestPerKey` holds all the same, so the key protects
   against nothing here.
2. `floor_goodbye`: the idle handler (`speech.rs:268`) does not know which reply went idle.
3. `questions_lost`: the question about a refused detail is not noted (`engine.rs:702`). An
   answer to a question that was noted is never dropped (`NotedAnswersAreTakenHolds`), so noting
   it is what is missing.
4. `listening_noise`: an end of speech without a transcript is taken for a dead connection
   (`session.rs:1021`: "Every end of speech gets a transcript, empty for noise"), but Soniox and
   Deepgram send none for noise (`soniox.rs:183-190`, 311-313; `deepgram.rs:145-148`, 205-218):
   noises in a row use up the reconnects and the call goes to a person. What does hold is
   `GivesUpOnTroubles`: nothing else than failures and such noises counts, each of them once.

The models show more that no run is kept for; each is in the hazard list with the switch that
shows it:

* `desk.rs:153`: the end of `transfer` takes the call without looking again, and the deadline in
  between tells the caller too.
* `desk.rs:135` (`ReplyMayBeLost` in `desk_live`): an operator on a leg whose dial reply was lost
  can be left alone in the conference.
* `hearing.rs:412` (`Trouble = {"echo"}`) and `playout.rs:503` (`Trouble = {"early"}`): the call goes
  silent with nothing pending.
* `race.rs:117`: a hanging model with a failing backup is waited for and the fallback is not
  asked; `CanAnswer` leaves that case out.
* `engine.rs:783` (`AskedInOrder` without `turn.again`): a refused detail is asked for again past
  one that is missing (683-707) and stays open; when the model then asks the missing one, which
  is the next in the order, `moves_on` has the refused one asked instead. `config.rs:492-494` says
  that the questions come "in the order of `slots`, always: a question the agent writes about
  any other detail is held back and the next one in the order asked instead".
* `settings.rs:319` (`RestartChangesNothing` for settings that are `apart` too): two pages that
  save the configuration at once put their patches in use in one order and save them in the other
  (`server.rs:996-1002`, `settings.rs:305-325`), and either replaces the other's item. What calls
  use is then not what is saved, against `server.rs:980-981` ("used by new calls at once, kept
  across restarts") and 1004 ("Back to what is saved, so what calls use is what a restart
  would"). A handler dropped at the save with its client leaves its patch in use too.
* A sentence the owner changes while another is being recorded waits for the next change
  (`server.rs:1010`).

## 6. Plan

Done: the desk, the playout, the floor, the booking, the questions, places, patience, the
recognizer, decisions, the audio rules, the outbox, the price bot, the owner's settings, the
door and the models. Next, in this order:

1. `NoDeadAir` with guesses: which words may then be lost, and the weaker property that holds.
2. A composition of `Deciding` with `Booking`: guesses taken by the engine while a request is out.
3. `Questions` with a third place and with the house number of `Places`.

## 7. Not modelled

`strong_min_rms`, a floor under the loudness that interrupts by itself, and a last transcript
that comes late and interrupts (`classify_final`), in `Ears`; cancelling a task, going back and
asking for a person, and offers after an answered question, in `Patience` (they are in `Booking`).

Wording, Hebrew and number parsing, the search in the gazetteer and the price list (large pure
functions over data), audio processing, the providers' wire protocols, SQL reports, login and
signatures, the dashboard, deployment and the evaluation tools. Metrics and logs are left out
everywhere. The numeric values of timeouts do not appear; their order does, where a module's
constants or `Trouble` name it.
