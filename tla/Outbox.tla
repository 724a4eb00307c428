------------------------------- MODULE Outbox -------------------------------
(***************************************************************************)
(* Orders on their way to the dispatch groups (callora-runtime store.rs    *)
(* and whatsapp.rs): the bounded queue of call records, its one writer,    *)
(* the outbox table and its one sender, the messaging service it asks, and *)
(* the owner's page that retries messages and removes accounts.            *)
(*                                                                         *)
(* The queue and the sender's place live in memory and go with a crash;    *)
(* the tables stay.  One account with one group stands for each: accounts  *)
(* share nothing but the sender.                                           *)
(***************************************************************************)
EXTENDS Naturals, Sequences, FiniteSets

CONSTANTS
    Orders,        \* the orders of the calls
    QueueCap,      \* records the queue holds
    PerHour,       \* messages an account sends in an hour
    MaxAttempts,   \* attempts of a message
    MaxRetries, MaxFaults    \* bounds: the owner's retries; crashes and failed updates

VARIABLES
    records,   \* call records waiting for the writer, in memory
    stored,    \* orders in the database
    outbox,    \* the messages, in the order of their ids
    target,    \* the group receives orders
    account,   \* "ready", "away" or "gone" at the messaging service
    removing,  \* the owner's removal of the account, step by step
    saving,    \* the owner's page checked the group and is about to save it
    sender,    \* what the sender is doing, with which message
    wait,      \* next_allowed, the pause between two messages, or the quiet hours
    hour,      \* messages marked as sent in this hour (a day's limit is of the same form)
    faults, retries

vars == <<records, stored, outbox, target, account, removing, saving, sender, wait, hour, faults, retries>>

\* due: next_attempt_at has come.  out: copies of it in the group.  excused: times one more
\* copy was risked knowingly or unknowingly after the message may have gone out.
Message == [order : Orders, status : {"pending", "sent", "failed"}, attempts : Nat, due : BOOLEAN,
            out : Nat, asked : Nat, excused : Nat]

Answers == {"ok", "refused", "not_ready", "outcome_unknown", "unavailable"}
Idle == [at |-> "idle", id |-> 0, tried |-> 0, answer |-> "ok", out |-> FALSE]
Sender == [at : {"idle", "sending", "answered"}, id : Nat, tried : Nat, answer : Answers, out : BOOLEAN]

Change(i, m) == outbox' = [outbox EXCEPT ![i] = m]

-----------------------------------------------------------------------------
(* The call's side: PgStore::record, and its writer.                          *)

\* A full queue drops the record: a call never waits.
Record(o) ==
    /\ o \notin stored /\ \A i \in DOMAIN records : records[i] # o
    /\ records' = IF Len(records) < QueueCap THEN Append(records, o) ELSE records
    /\ UNCHANGED <<stored, outbox, target, account, removing, saving, sender, wait, hour, faults, retries>>

\* write, then enqueue for every target that wants it; either may fail, the order stays.
Write ==
    /\ records # <<>> /\ records' = Tail(records)
    /\ \/ UNCHANGED <<stored, outbox>>
       \/ /\ stored' = stored \cup {Head(records)}
          /\ \/ UNCHANGED outbox
             \/ /\ target
                /\ outbox' = Append(outbox, [order |-> Head(records), status |-> "pending", attempts |-> 0,
                                             due |-> TRUE, out |-> 0, asked |-> 0, excused |-> 0])
    /\ UNCHANGED <<target, account, removing, saving, sender, wait, hour, faults, retries>>

-----------------------------------------------------------------------------
(* The sender: run_sender.                                                    *)

Pending == {i \in DOMAIN outbox : outbox[i].status = "pending" /\ outbox[i].due}

\* Pace: outside the pause and the quiet hours, and under the limit.
MayGo == ~wait /\ hour < PerHour

\* A ready account that may send, and its oldest message that is due.
Pick ==
    /\ sender = Idle /\ account = "ready" /\ MayGo
    /\ \E i \in Pending :
        /\ \A j \in Pending : i <= j
        /\ sender' = [Idle EXCEPT !.at = "sending", !.id = i, !.tried = outbox[i].attempts]
    /\ UNCHANGED <<records, stored, outbox, target, account, removing, saving, wait, hour, faults, retries>>

\* Service::send: what the answer says, and whether the message is in the group.  A
\* connection that breaks after the service got the message is "unavailable" like one that
\* was never made; only a timeout is known to be unknown.
Out(answer) == CASE answer = "ok" -> {TRUE}
                 [] answer \in {"outcome_unknown", "unavailable"} -> BOOLEAN
                 [] OTHER -> {FALSE}

Serve ==
    /\ sender.at = "sending"
    /\ \E answer \in Answers : \E out \in Out(answer) :
        /\ account = "ready" \/ ~out
        /\ sender' = [sender EXCEPT !.at = "answered", !.answer = answer, !.out = out]
        /\ Change(sender.id, [outbox[sender.id] EXCEPT !.out = @ + IF out THEN 1 ELSE 0])
    /\ UNCHANGED <<records, stored, target, account, removing, saving, wait, hour, faults, retries>>

(* Mutants: a message of unknown outcome is tried again; no attempt is the last. *)
MarkedRetriesUnknown(m, answer) ==
    CASE answer = "ok" -> [m EXCEPT !.status = "sent", !.attempts = @ + 1]
      [] answer = "refused" -> [m EXCEPT !.status = "failed", !.attempts = @ + 1]
      [] OTHER -> [m EXCEPT !.attempts = @ + 1, !.due = FALSE,
                            !.status = IF sender.tried + 1 >= MaxAttempts THEN "failed" ELSE @]

MarkedForEver(m, answer) ==
    CASE answer = "ok" -> [m EXCEPT !.status = "sent", !.attempts = @ + 1]
      [] answer \in {"refused", "outcome_unknown"} -> [m EXCEPT !.status = "failed", !.attempts = @ + 1]
      [] OTHER -> [m EXCEPT !.due = FALSE]

\* The row after an answer: sent; failed for good; or once more after a while.  The attempts
\* that decide are the ones read with the message.
Marked(m, answer) ==
    CASE answer = "ok" -> [m EXCEPT !.status = "sent", !.attempts = @ + 1]
      [] answer \in {"refused", "outcome_unknown"} -> [m EXCEPT !.status = "failed", !.attempts = @ + 1]
      [] OTHER -> [m EXCEPT !.attempts = @ + 1, !.due = FALSE,
                            !.status = IF sender.tried + 1 >= MaxAttempts THEN "failed" ELSE @]

Risk == IF sender.out THEN 1 ELSE 0
Marks ==
    /\ sender.at = "answered" /\ sender' = Idle /\ wait' = TRUE
    /\ UNCHANGED <<records, stored, target, account, removing, saving, retries>>

Mark ==
    /\ Marks /\ UNCHANGED faults
    /\ hour' = IF sender.answer = "ok" THEN hour + 1 ELSE hour
    /\ Change(sender.id, [Marked(outbox[sender.id], sender.answer) EXCEPT
                             !.excused = @ + IF sender.answer = "unavailable" THEN Risk ELSE 0])

\* The update may fail: the message is then as it was, whatever became of it.
MarkFails ==
    /\ Marks /\ UNCHANGED hour /\ faults < MaxFaults /\ faults' = faults + 1
    /\ Change(sender.id, [outbox[sender.id] EXCEPT !.excused = @ + Risk])

\* The pause ends, the quiet hours begin or end, the retry's time comes, an hour has passed.
TimePasses ==
    /\ \/ wait' = ~wait /\ UNCHANGED <<outbox, hour>>
       \/ outbox' = [i \in DOMAIN outbox |-> [outbox[i] EXCEPT !.due = TRUE]] /\ UNCHANGED <<wait, hour>>
       \/ hour' = 0 /\ UNCHANGED <<wait, outbox>>
    /\ UNCHANGED <<records, stored, target, account, removing, saving, sender, faults, retries>>

\* The server restarts: the queue is lost, and so is what the sender knew.
Crash ==
    /\ faults < MaxFaults /\ faults' = faults + 1
    /\ records' = <<>> /\ sender' = Idle /\ wait' = FALSE /\ removing' = 0 /\ saving' = FALSE
    /\ IF sender.out THEN Change(sender.id, [outbox[sender.id] EXCEPT !.excused = @ + 1]) ELSE UNCHANGED outbox
    /\ UNCHANGED <<stored, target, account, hour, retries>>

-----------------------------------------------------------------------------
(* The owner's page.                                                          *)

\* retry: a message that failed, or waits, from the start again.
Retry(i) ==
    /\ retries < MaxRetries /\ retries' = retries + 1
    /\ outbox[i].status # "sent"
    /\ Change(i, [outbox[i] EXCEPT !.status = "pending", !.attempts = 0, !.due = TRUE, !.asked = @ + 1])
    /\ UNCHANGED <<records, stored, target, account, removing, saving, sender, wait, hour, faults>>

\* save_targets: the group is looked up at the service, then saved.
CheckGroup ==
    /\ ~target /\ ~saving /\ account = "ready" /\ saving' = TRUE
    /\ UNCHANGED <<records, stored, outbox, target, account, removing, sender, wait, hour, faults, retries>>

SaveTargets ==
    /\ saving /\ saving' = FALSE /\ target' = TRUE
    /\ UNCHANGED <<records, stored, outbox, account, removing, sender, wait, hour, faults, retries>>

\* remove_account and forget_account: at the service, then the targets, then what waits.
RemoveAccount ==
    /\ \/ removing = 0 /\ removing' = 1 /\ account' = "gone" /\ UNCHANGED <<target, outbox>>
       \/ removing = 1 /\ removing' = 2 /\ target' = FALSE /\ UNCHANGED <<account, outbox>>
       \/ /\ removing = 2 /\ removing' = 0
          /\ outbox' = [i \in DOMAIN outbox |->
                          [outbox[i] EXCEPT !.status = IF @ = "pending" THEN "failed" ELSE @]]
          /\ UNCHANGED <<account, target>>
    /\ UNCHANGED <<records, stored, saving, sender, wait, hour, faults, retries>>

\* The phone loses its connection, and comes back.
AccountMoves ==
    /\ account # "gone" /\ account' = IF account = "ready" THEN "away" ELSE "ready"
    /\ UNCHANGED <<records, stored, outbox, target, removing, saving, sender, wait, hour, faults, retries>>

Init ==
    /\ records = <<>> /\ stored = {} /\ outbox = <<>> /\ target = TRUE /\ account = "ready" /\ removing = 0
    /\ saving = FALSE /\ sender = Idle /\ wait = FALSE /\ hour = 0 /\ faults = 0 /\ retries = 0

Recording == \E o \in Orders : Record(o)
Retrying == \E i \in DOMAIN outbox : Retry(i)

Next ==
    \/ Recording
    \/ Write
    \/ Pick
    \/ Serve
    \/ Mark
    \/ MarkFails
    \/ TimePasses
    \/ Crash
    \/ Retrying
    \/ CheckGroup
    \/ SaveTargets
    \/ RemoveAccount
    \/ AccountMoves

\* The sender's loop runs for as long as the server does, its requests time out, and time
\* passes; an account that is away now and then is there often enough.
PauseEnds == wait /\ TimePasses /\ ~wait'
HourEnds == hour # 0 /\ TimePasses /\ hour' = 0
RetryComes == (\E i \in DOMAIN outbox : ~outbox[i].due) /\ TimePasses /\ outbox' # outbox
Fairness ==
    /\ SF_vars(Pick) /\ WF_vars(Serve) /\ WF_vars(Mark)
    /\ WF_vars(PauseEnds) /\ WF_vars(HourEnds) /\ WF_vars(RetryComes)

Spec == Init /\ [][Next]_vars /\ Fairness

-----------------------------------------------------------------------------
(* Properties.                                                                *)

TypeOK ==
    /\ records \in Seq(Orders) /\ Len(records) <= QueueCap /\ stored \subseteq Orders /\ outbox \in Seq(Message)
    /\ {target, saving, wait} \subseteq BOOLEAN /\ account \in {"ready", "away", "gone"} /\ removing \in 0 .. 2
    /\ sender \in Sender /\ hour \in 0 .. PerHour /\ faults \in 0 .. MaxFaults /\ retries \in 0 .. MaxRetries

\* Every copy of an order beyond the first has its cause: the owner asked for it, or the
\* server lost the answer in a way it cannot tell from no answer (a crash or a failed update
\* after the message went out, a connection that broke).  And what the owner's page shows as
\* sent is in the group.
CopiesAreExplained ==
    \A i \in DOMAIN outbox :
        /\ outbox[i].status = "sent" => outbox[i].out >= 1
        /\ outbox[i].out <= 1 + outbox[i].asked + outbox[i].excused

\* A message shown as sent is over with: neither the owner's retries nor the sender, who may
\* have read the row before, sends it again or takes it back.
SentIsFinal ==
    [][\A i \in DOMAIN outbox : outbox[i].status = "sent" =>
          outbox'[i].status = "sent" /\ outbox'[i].out = outbox[i].out]_vars

Waits(i) == i \in DOMAIN outbox /\ outbox[i].status = "pending"

\* A message does not wait for ever: it is sent, or fails where the owner sees it, as long
\* as the account is there to send it.
EveryMessageSettles ==
    \A i \in 1 .. Cardinality(Orders) : Waits(i) ~> (~Waits(i) \/ account # "ready")
=============================================================================
