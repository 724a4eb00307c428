---------------------------- MODULE OutboxProofs ----------------------------
(***************************************************************************)
(* Proofs about Outbox.tla, for any orders, limits and number of faults.   *)
(*                                                                         *)
(* How many copies of a message may be out depends on where it is: one the *)
(* sender may still send has had each of its copies accounted for, one     *)
(* that is settled, or whose answer says it went out, has one more.  The   *)
(* owner's page and the sender change the same row, so Covered speaks of   *)
(* both at every point between them.  For what is shown as sent the        *)
(* message in hand matters: it is not a sent one, and an "ok" for it is an *)
(* answer about a copy that is out.                                        *)
(***************************************************************************)
EXTENDS Outbox, SequenceTheorems, TLAPS

Rows == outbox \in Seq(Message) /\ sender \in Sender

(* What the sender knows of the message it has in hand. *)
InHand ==
    /\ sender.at # "idle" => sender.id \in DOMAIN outbox
    /\ sender.out => sender.at = "answered" /\ sender.answer \in {"ok", "outcome_unknown", "unavailable"}

Gone(i) ==
    \/ outbox[i].status # "pending" /\ ~(sender.at = "sending" /\ sender.id = i)
    \/ sender.at = "answered" /\ sender.id = i /\ sender.out

Allowed(i) == outbox[i].asked + outbox[i].excused + IF Gone(i) THEN 1 ELSE 0
Covered == \A i \in DOMAIN outbox : outbox[i].out <= Allowed(i)

IInv == Rows /\ InHand /\ Covered

(* The fields of a row are what they should be. *)
LEMMA RowType ==
    ASSUME Rows, NEW i \in DOMAIN outbox
    PROVE  /\ outbox[i] \in Message
           /\ outbox[i].out \in Nat /\ outbox[i].asked \in Nat /\ outbox[i].excused \in Nat
<1>1. outbox[i] \in Message
  BY ElementOfSeq DEF Rows
<1> QED
  BY <1>1 DEF Message

(* Changing one row leaves the others. *)
LEMMA ChangeRow ==
    ASSUME Rows, NEW i \in DOMAIN outbox, NEW m \in Message, Change(i, m)
    PROVE  /\ outbox' \in Seq(Message) /\ DOMAIN outbox' = DOMAIN outbox
           /\ outbox'[i] = m /\ \A j \in DOMAIN outbox : j # i => outbox'[j] = outbox[j]
  BY ExceptSeq DEF Change, Rows

(* Changing every row leaves their number. *)
LEMMA RowsStay ==
    ASSUME Rows, NEW f \in [DOMAIN outbox -> Message]
    PROVE  f \in Seq(Message)
<1>1. Len(outbox) \in Nat /\ DOMAIN outbox = 1 .. Len(outbox)
  BY LenProperties DEF Rows
<1> QED
  BY <1>1, SeqDef

(* The writer's new row has no copies. *)
LEMMA WriteKeeps ==
    ASSUME IInv, Write, sender' = sender, NEW o \in Orders, o = Head(records)
    PROVE  IInv'
<1> DEFINE m == [order |-> o, status |-> "pending", attempts |-> 0, due |-> TRUE, out |-> 0, asked |-> 0,
                 excused |-> 0]
<1>1. m \in Message /\ m.out = 0 /\ m.asked = 0 /\ m.excused = 0 /\ m.status = "pending"
  BY DEF Message
<1>2. outbox' = outbox \/ outbox' = Append(outbox, m)
  BY DEF Write
<1> HIDE DEF m
<1>3. CASE outbox' = outbox
  BY <1>3 DEF IInv, Rows, InHand, Covered, Allowed, Gone
<1>4. CASE outbox' = Append(outbox, m)
  <2> DEFINE n == Len(outbox)
  <2>1. /\ outbox' \in Seq(Message) /\ Len(outbox') = n + 1 /\ n \in Nat
        /\ DOMAIN outbox = 1 .. n /\ DOMAIN outbox' = 1 .. (n + 1)
        /\ \A i \in 1 .. n : outbox'[i] = outbox[i]
        /\ outbox'[n + 1] = m
    BY <1>1, <1>4, AppendProperties, LenProperties DEF IInv, Rows
  <2> HIDE DEF n
  <2>2. Rows' /\ InHand'
    BY <2>1 DEF IInv, Rows, InHand
  <2>3. ASSUME NEW i \in 1 .. (n + 1)
        PROVE  outbox'[i].out <= Allowed(i)'
    <3>1. CASE i \in 1 .. n
      <4>1. outbox'[i] = outbox[i] /\ Allowed(i)' = Allowed(i)
        BY <2>1, <3>1 DEF Allowed, Gone
      <4> QED
        BY <2>1, <3>1, <4>1 DEF IInv, Covered
    <3>2. CASE i = n + 1
      BY <1>1, <2>1, <3>2 DEF Allowed
    <3> QED
      BY <2>1, <3>1, <3>2
  <2> QED
    BY <2>1, <2>2, <2>3 DEF IInv, Covered
<1> QED
  BY <1>2, <1>3, <1>4

(* Picking a message that waits: what it was allowed is what it had. *)
LEMMA PickKeeps ==
    ASSUME IInv, Pick
    PROVE  IInv'
<1>1. PICK k \in Pending : sender' = [Idle EXCEPT !.at = "sending", !.id = k, !.tried = outbox[k].attempts]
  BY DEF Pick
<1>2. k \in DOMAIN outbox /\ outbox[k].status = "pending" /\ outbox' = outbox /\ sender = Idle
  BY DEF Pick, Pending
<1>3. k \in Nat /\ outbox[k].attempts \in Nat
  <2>1. outbox[k] \in Message /\ DOMAIN outbox = 1 .. Len(outbox) /\ Len(outbox) \in Nat
    BY <1>2, RowType, LenProperties DEF IInv, Rows
  <2> QED
    BY <1>2, <2>1 DEF Message
<1>4. sender' = [at |-> "sending", id |-> k, tried |-> outbox[k].attempts, answer |-> "ok", out |-> FALSE]
  BY <1>1 DEF Idle
<1>5. sender' \in Sender /\ sender'.at = "sending" /\ sender'.id = k /\ sender'.out = FALSE
  BY <1>3, <1>4 DEF Sender, Answers
<1>6. sender.at = "idle" /\ sender.out = FALSE
  BY <1>2 DEF Idle
<1>7. Rows' /\ InHand'
  BY <1>2, <1>5 DEF IInv, Rows, InHand
<1>8. ASSUME NEW i \in DOMAIN outbox
      PROVE  outbox'[i].out <= Allowed(i)'
  <2>1. Gone(i)' <=> Gone(i)
    BY <1>2, <1>5, <1>6 DEF Gone
  <2> QED
    BY <1>2, <2>1 DEF IInv, Covered, Allowed
<1> QED
  BY <1>2, <1>7, <1>8 DEF IInv, Covered

(* The service answers, and the message is in the group or not. *)
LEMMA ServeKeeps ==
    ASSUME IInv, Serve
    PROVE  IInv'
<1>1. PICK answer \in Answers, out \in BOOLEAN :
          /\ out \in Out(answer)
          /\ sender' = [sender EXCEPT !.at = "answered", !.answer = answer, !.out = out]
          /\ Change(sender.id, [outbox[sender.id] EXCEPT !.out = @ + IF out THEN 1 ELSE 0])
  BY DEF Serve, Out
<1> DEFINE k == sender.id
           m == [outbox[k] EXCEPT !.out = @ + IF out THEN 1 ELSE 0]
<1>2. sender.at = "sending" /\ k \in DOMAIN outbox /\ sender.out = FALSE
  BY DEF Serve, IInv, InHand, Rows, Sender
<1>3. outbox[k] \in Message /\ outbox[k].out \in Nat /\ outbox[k].asked \in Nat /\ outbox[k].excused \in Nat
  BY <1>2, RowType DEF IInv
<1>4. /\ m \in Message /\ m.out = outbox[k].out + (IF out THEN 1 ELSE 0) /\ m.status = outbox[k].status
      /\ m.asked = outbox[k].asked /\ m.excused = outbox[k].excused
  BY <1>3 DEF Message
<1>5. /\ sender' \in Sender /\ sender'.at = "answered" /\ sender'.id = k /\ sender'.out = out
      /\ sender'.answer = answer
  BY <1>1 DEF IInv, Rows, Sender
<1>6. out => answer \in {"ok", "outcome_unknown", "unavailable"}
  BY <1>1 DEF Out, Answers
<1>7. /\ outbox' \in Seq(Message) /\ DOMAIN outbox' = DOMAIN outbox
      /\ outbox'[k] = m /\ \A j \in DOMAIN outbox : j # k => outbox'[j] = outbox[j]
  <2> HIDE DEF m
  <2>1. Change(k, m)
    BY <1>1 DEF m
  <2> QED
    BY <1>2, <1>4, <2>1, ChangeRow DEF IInv
<1> HIDE DEF m, k
<1>8. Rows' /\ InHand'
  BY <1>2, <1>5, <1>6, <1>7 DEF IInv, Rows, InHand
<1>9. ASSUME NEW i \in DOMAIN outbox
      PROVE  outbox'[i].out <= Allowed(i)'
  <2>1. outbox[i].out <= Allowed(i)
    BY DEF IInv, Covered
  <2>2. CASE i = k
    <3>1. ~Gone(k)
      BY <1>2 DEF Gone, k
    <3>2. outbox[k].out <= outbox[k].asked + outbox[k].excused
      BY <1>3, <2>1, <2>2, <3>1 DEF Allowed
    <3>3. out => Gone(i)'
      BY <1>5, <2>2 DEF Gone
    <3>4. Allowed(i)' = m.asked + m.excused + IF Gone(i)' THEN 1 ELSE 0
      BY <1>7, <2>2 DEF Allowed
    <3>5. m.out <= Allowed(i)'
      BY <1>3, <1>4, <3>2, <3>3, <3>4
    <3> QED
      BY <1>7, <2>2, <3>5
  <2>3. CASE i # k
    <3>1. Gone(i)' <=> Gone(i)
      BY <1>2, <1>5, <1>7, <2>3 DEF Gone, k
    <3> QED
      BY <1>7, <2>1, <2>3, <3>1 DEF Allowed
  <2> QED
    BY <2>2, <2>3
<1> QED
  BY <1>7, <1>8, <1>9 DEF IInv, Covered

(* The sender lets go of a message, whose row is left with what it was given. *)
LEMMA LetGo ==
    ASSUME IInv, sender.at = "answered", NEW k \in DOMAIN outbox, k = sender.id, NEW m \in Message,
           Change(k, m), sender' = Idle,
           m.out = outbox[k].out,
           m.out <= m.asked + m.excused + IF m.status = "pending" THEN 0 ELSE 1
    PROVE  IInv'
<1>1. /\ outbox' \in Seq(Message) /\ DOMAIN outbox' = DOMAIN outbox
      /\ outbox'[k] = m /\ \A j \in DOMAIN outbox : j # k => outbox'[j] = outbox[j]
  BY ChangeRow DEF IInv
<1>2. sender' \in Sender /\ sender'.at = "idle" /\ sender'.out = FALSE
  BY DEF Idle, Sender, Answers
<1>3. Rows' /\ InHand'
  BY <1>1, <1>2 DEF Rows, InHand
<1>4. ASSUME NEW i \in DOMAIN outbox
      PROVE  outbox'[i].out <= Allowed(i)'
  <2>1. Gone(i)' <=> outbox'[i].status # "pending"
    BY <1>2 DEF Gone
  <2>2. CASE i = k
    <3>1. Allowed(i)' = m.asked + m.excused + IF m.status = "pending" THEN 0 ELSE 1
      BY <1>1, <2>1, <2>2 DEF Allowed
    <3> QED
      BY <1>1, <2>2, <3>1
  <2>3. CASE i # k
    <3>1. Gone(i) <=> outbox[i].status # "pending"
      BY <2>3 DEF Gone
    <3> QED
      BY <1>1, <2>1, <2>3, <3>1 DEF IInv, Covered, Allowed
  <2> QED
    BY <2>2, <2>3
<1> QED
  BY <1>1, <1>3, <1>4 DEF IInv, Covered

(* The row after an answer keeps its copies; it is settled if the answer says the message went. *)
LEMMA MarkedRow ==
    ASSUME Rows, NEW m \in Message, NEW answer \in Answers
    PROVE  /\ Marked(m, answer) \in Message
           /\ Marked(m, answer).out = m.out /\ Marked(m, answer).asked = m.asked
           /\ Marked(m, answer).excused = m.excused
           /\ answer \in {"ok", "outcome_unknown"} => Marked(m, answer).status # "pending"
           /\ m.status # "pending" => Marked(m, answer).status # "pending"
           /\ Marked(m, answer).status = "sent" => answer = "ok" \/ m.status = "sent"
<1> DEFINE m1 == [m EXCEPT !.attempts = @ + 1]
           m2 == [m1 EXCEPT !.due = FALSE]
<1>1. /\ m1 \in Message /\ m1.out = m.out /\ m1.asked = m.asked /\ m1.excused = m.excused
      /\ m1.status = m.status
  BY DEF Message
<1>2. /\ m2 \in Message /\ m2.out = m.out /\ m2.asked = m.asked /\ m2.excused = m.excused
      /\ m2.status = m.status
  <2> HIDE DEF m1
  <2> QED  BY <1>1 DEF Message
<1>3. CASE answer = "ok"
  <2> DEFINE d == [m EXCEPT !.status = "sent"]
  <2>1. Marked(m, answer) = [d EXCEPT !.attempts = @ + 1]
    BY <1>3 DEF Marked
  <2>2. /\ d \in Message /\ d.out = m.out /\ d.asked = m.asked /\ d.excused = m.excused
        /\ d.status = "sent"
    BY DEF Message
  <2> HIDE DEF d
  <2> QED
    BY <1>3, <2>1, <2>2 DEF Message
<1>4. CASE answer \in {"refused", "outcome_unknown"}
  <2> DEFINE d == [m EXCEPT !.status = "failed"]
  <2>1. Marked(m, answer) = [d EXCEPT !.attempts = @ + 1]
    BY <1>4 DEF Marked
  <2>2. /\ d \in Message /\ d.out = m.out /\ d.asked = m.asked /\ d.excused = m.excused
        /\ d.status = "failed"
    BY DEF Message
  <2> HIDE DEF d
  <2> QED
    BY <2>1, <2>2 DEF Message
<1>5. CASE answer \notin {"ok", "refused", "outcome_unknown"}
  <2>1. Marked(m, answer) = [m2 EXCEPT !.status = IF sender.tried + 1 >= MaxAttempts THEN "failed" ELSE @]
    BY <1>5 DEF Marked
  <2> HIDE DEF m1, m2
  <2> QED
    BY <1>2, <1>5, <2>1 DEF Message
<1> QED
  BY <1>3, <1>4, <1>5

(* The answer is written down, or could not be. *)
LEMMA MarkKeeps ==
    ASSUME IInv, Mark \/ MarkFails
    PROVE  IInv'
<1> DEFINE k == sender.id
<1>1. sender.at = "answered" /\ sender' = Idle
  BY DEF Mark, MarkFails, Marks
<1>2. k \in DOMAIN outbox
  BY <1>1 DEF IInv, InHand
<1>3. /\ outbox[k] \in Message /\ outbox[k].out \in Nat /\ outbox[k].asked \in Nat
      /\ outbox[k].excused \in Nat /\ sender.answer \in Answers /\ sender.out \in BOOLEAN
      /\ outbox[k].out <= Allowed(k)
  BY <1>2, RowType DEF IInv, Covered, Rows, Sender
<1>4. Gone(k) <=> outbox[k].status # "pending" \/ sender.out
  BY <1>1 DEF Gone
<1>5. CASE Mark
  <2> DEFINE r == Marked(outbox[k], sender.answer)
             more == IF sender.answer = "unavailable" THEN Risk ELSE 0
             m == [r EXCEPT !.excused = @ + more]
  <2>1. /\ r \in Message /\ r.out = outbox[k].out /\ r.asked = outbox[k].asked /\ r.excused = outbox[k].excused
        /\ sender.answer \in {"ok", "outcome_unknown"} => r.status # "pending"
        /\ outbox[k].status # "pending" => r.status # "pending"
    BY <1>3, MarkedRow DEF IInv
  <2>2. Change(k, m)
    BY <1>5 DEF Mark
  <2>3. more \in {0, 1} /\ (sender.answer = "unavailable" /\ sender.out => more = 1)
    BY DEF Risk
  <2> HIDE DEF r, more
  <2>4. /\ m \in Message /\ m.out = outbox[k].out /\ m.asked = outbox[k].asked
        /\ m.excused = outbox[k].excused + more /\ m.status = r.status
    BY <1>3, <2>1, <2>3 DEF Message
  <2>5. sender.out => sender.answer \in {"ok", "outcome_unknown", "unavailable"}
    BY DEF IInv, InHand
  <2>6. m.out <= m.asked + m.excused + IF m.status = "pending" THEN 0 ELSE 1
    <3> HIDE DEF m
    <3>1. outbox[k].out <= outbox[k].asked + outbox[k].excused + 1
      BY <1>3 DEF Allowed
    <3>2. CASE m.status # "pending"
      BY <1>3, <2>3, <2>4, <3>1, <3>2
    <3>3. CASE m.status = "pending" /\ ~sender.out
      <4>1. ~Gone(k)
        BY <1>4, <2>1, <2>4, <3>3
      <4>2. outbox[k].out <= outbox[k].asked + outbox[k].excused
        BY <1>3, <4>1 DEF Allowed
      <4> QED
        BY <1>3, <2>3, <2>4, <3>3, <4>2
    <3>4. CASE m.status = "pending" /\ sender.out
      <4>1. more = 1
        BY <2>1, <2>3, <2>4, <2>5, <3>4
      <4> QED
        BY <1>3, <2>4, <3>1, <3>4, <4>1
    <3> QED
      BY <1>3, <3>2, <3>3, <3>4
  <2> HIDE DEF m, k
  <2> QED
    BY <1>1, <1>2, <2>2, <2>4, <2>6, LetGo DEF k
<1>6. CASE MarkFails
  <2> DEFINE m == [outbox[k] EXCEPT !.excused = @ + Risk]
  <2>1. Change(k, m)
    BY <1>6 DEF MarkFails
  <2>2. Risk = IF sender.out THEN 1 ELSE 0
    BY DEF Risk
  <2>3. /\ m \in Message /\ m.out = outbox[k].out /\ m.asked = outbox[k].asked
        /\ m.excused = outbox[k].excused + Risk /\ m.status = outbox[k].status
    BY <1>3, <2>2 DEF Message
  <2> HIDE DEF m
  <2>4. m.out <= m.asked + m.excused + IF m.status = "pending" THEN 0 ELSE 1
    BY <1>3, <1>4, <2>2, <2>3 DEF Allowed
  <2> HIDE DEF k
  <2> QED
    BY <1>1, <1>2, <2>1, <2>3, <2>4, LetGo DEF k
<1> QED
  BY <1>5, <1>6

(* The server goes down: what may have gone out unnoticed is put down to that. *)
LEMMA CrashKeeps ==
    ASSUME IInv, Crash
    PROVE  IInv'
<1>1. sender' = Idle
  BY DEF Crash
<1>2. sender' \in Sender /\ sender'.at = "idle" /\ sender'.out = FALSE
  BY <1>1 DEF Idle, Sender, Answers
<1>3. CASE sender.out
  <2> DEFINE k == sender.id
             m == [outbox[k] EXCEPT !.excused = @ + 1]
  <2>1. sender.at = "answered" /\ k \in DOMAIN outbox /\ Change(k, m)
    BY <1>3 DEF Crash, IInv, InHand
  <2>2. /\ outbox[k] \in Message /\ outbox[k].out \in Nat /\ outbox[k].asked \in Nat
        /\ outbox[k].excused \in Nat /\ outbox[k].out <= Allowed(k)
    BY <2>1, RowType DEF IInv, Covered
  <2>3. /\ m \in Message /\ m.out = outbox[k].out /\ m.asked = outbox[k].asked
        /\ m.excused = outbox[k].excused + 1 /\ m.status = outbox[k].status
    BY <2>2 DEF Message
  <2> HIDE DEF m
  <2>4. m.out <= m.asked + m.excused + IF m.status = "pending" THEN 0 ELSE 1
    BY <2>2, <2>3 DEF Allowed
  <2> HIDE DEF k
  <2> QED
    BY <1>1, <2>1, <2>3, <2>4, LetGo DEF k
<1>4. CASE ~sender.out
  <2>1. outbox' = outbox
    BY <1>4 DEF Crash
  <2>2. Rows' /\ InHand'
    BY <1>2, <2>1 DEF IInv, Rows, InHand
  <2>3. ASSUME NEW i \in DOMAIN outbox
        PROVE  outbox'[i].out <= Allowed(i)'
    <3>1. Gone(i) => Gone(i)'
      BY <1>2, <1>4, <2>1 DEF Gone
    <3>2. outbox[i].out \in Nat /\ outbox[i].asked \in Nat /\ outbox[i].excused \in Nat
      BY RowType DEF IInv
    <3> QED
      BY <2>1, <3>1, <3>2 DEF IInv, Covered, Allowed
  <2> QED
    BY <2>1, <2>2, <2>3 DEF IInv, Covered
<1> QED
  BY <1>3, <1>4

(* A step that keeps each row's copies and causes, and makes none wait that did not. *)
LEMMA RowsKept ==
    ASSUME IInv, sender' = sender, outbox' \in Seq(Message), DOMAIN outbox' = DOMAIN outbox,
           \A i \in DOMAIN outbox :
               /\ outbox'[i].out = outbox[i].out /\ outbox'[i].asked = outbox[i].asked
               /\ outbox'[i].excused = outbox[i].excused
               /\ outbox[i].status # "pending" => outbox'[i].status # "pending"
    PROVE  IInv'
<1>1. Rows' /\ InHand'
  BY DEF IInv, Rows, InHand
<1>2. ASSUME NEW i \in DOMAIN outbox
      PROVE  outbox'[i].out <= Allowed(i)'
  <2>1. Gone(i) => Gone(i)'
    BY DEF Gone
  <2>2. outbox[i].out \in Nat /\ outbox[i].asked \in Nat /\ outbox[i].excused \in Nat
    BY RowType DEF IInv
  <2> QED
    BY <2>1, <2>2 DEF IInv, Covered, Allowed
<1> QED
  BY <1>1, <1>2 DEF IInv, Covered

(* The owner asks for a message again: the copy is allowed from then on. *)
LEMMA RetryKeeps ==
    ASSUME IInv, NEW k \in DOMAIN outbox, Retry(k)
    PROVE  IInv'
<1> DEFINE m1 == [outbox[k] EXCEPT !.status = "pending"]
           m2 == [m1 EXCEPT !.attempts = 0]
           m3 == [m2 EXCEPT !.due = TRUE]
           m  == [m3 EXCEPT !.asked = @ + 1]
<1>1. Change(k, m) /\ sender' = sender
  BY DEF Retry
<1>2. outbox[k] \in Message /\ outbox[k].out \in Nat /\ outbox[k].asked \in Nat /\ outbox[k].excused \in Nat
  BY RowType DEF IInv
<1>3. m1 \in Message /\ m1.out = outbox[k].out /\ m1.asked = outbox[k].asked /\ m1.excused = outbox[k].excused
  BY <1>2 DEF Message
<1>4. m2 \in Message /\ m2.out = outbox[k].out /\ m2.asked = outbox[k].asked /\ m2.excused = outbox[k].excused
  <2> HIDE DEF m1
  <2> QED  BY <1>3 DEF Message
<1>5. m3 \in Message /\ m3.out = outbox[k].out /\ m3.asked = outbox[k].asked /\ m3.excused = outbox[k].excused
  <2> HIDE DEF m1, m2
  <2> QED  BY <1>4 DEF Message
<1>6. m \in Message /\ m.out = outbox[k].out /\ m.asked = outbox[k].asked + 1 /\ m.excused = outbox[k].excused
  <2> HIDE DEF m1, m2, m3
  <2> QED  BY <1>2, <1>5 DEF Message
<1> HIDE DEF m
<1>7. /\ outbox' \in Seq(Message) /\ DOMAIN outbox' = DOMAIN outbox
      /\ outbox'[k] = m /\ \A j \in DOMAIN outbox : j # k => outbox'[j] = outbox[j]
  BY <1>1, <1>6, ChangeRow DEF IInv
<1>8. Rows' /\ InHand'
  BY <1>1, <1>7 DEF IInv, Rows, InHand
<1>9. ASSUME NEW i \in DOMAIN outbox
      PROVE  outbox'[i].out <= Allowed(i)'
  <2>1. outbox[i].out <= Allowed(i)
    BY DEF IInv, Covered
  <2>2. CASE i = k
    <3>1. Allowed(i)' >= m.asked + m.excused
      BY <1>2, <1>6, <1>7, <2>2 DEF Allowed
    <3>2. Allowed(k) <= outbox[k].asked + outbox[k].excused + 1
      BY <1>2 DEF Allowed
    <3>3. Allowed(i)' \in Nat /\ Allowed(k) \in Nat
      BY <1>2, <1>6, <1>7, <2>2 DEF Allowed
    <3> QED
      BY <1>2, <1>6, <1>7, <2>1, <2>2, <3>1, <3>2, <3>3
  <2>3. CASE i # k
    <3>1. Gone(i)' <=> Gone(i)
      BY <1>1, <1>7, <2>3 DEF Gone
    <3> QED
      BY <1>7, <2>1, <2>3, <3>1 DEF Allowed
  <2> QED
    BY <2>2, <2>3
<1> QED
  BY <1>7, <1>8, <1>9 DEF IInv, Covered

(* Time passes, or what waits for an account that is gone fails. *)
LEMMA TimeKeeps ==
    ASSUME IInv, TimePasses \/ RemoveAccount
    PROVE  IInv'
<1>1. sender' = sender
  BY DEF TimePasses, RemoveAccount
<1>2. CASE outbox' = outbox
  BY <1>1, <1>2, RowsKept DEF IInv, Rows
<1>3. CASE outbox' = [i \in DOMAIN outbox |-> [outbox[i] EXCEPT !.due = TRUE]]
  <2>1. ASSUME NEW i \in DOMAIN outbox
        PROVE  /\ outbox'[i] \in Message
               /\ outbox'[i].out = outbox[i].out /\ outbox'[i].asked = outbox[i].asked
               /\ outbox'[i].excused = outbox[i].excused /\ outbox'[i].status = outbox[i].status
    <3>1. outbox[i] \in Message /\ outbox'[i] = [outbox[i] EXCEPT !.due = TRUE]
      BY <1>3, RowType DEF IInv
    <3> QED
      BY <3>1 DEF Message
  <2>2. outbox' \in [DOMAIN outbox -> Message]
    BY <1>3, <2>1
  <2>3. outbox' \in Seq(Message) /\ DOMAIN outbox' = DOMAIN outbox
    BY <2>2, RowsStay DEF IInv
  <2> QED
    BY <1>1, <2>1, <2>3, RowsKept
<1>4. CASE outbox' = [i \in DOMAIN outbox |-> [outbox[i] EXCEPT !.status = IF @ = "pending" THEN "failed" ELSE @]]
  <2>1. ASSUME NEW i \in DOMAIN outbox
        PROVE  /\ outbox'[i] \in Message
               /\ outbox'[i].out = outbox[i].out /\ outbox'[i].asked = outbox[i].asked
               /\ outbox'[i].excused = outbox[i].excused /\ outbox'[i].status # "pending"
    <3>1. outbox[i] \in Message
          /\ outbox'[i] = [outbox[i] EXCEPT !.status = IF @ = "pending" THEN "failed" ELSE @]
      BY <1>4, RowType DEF IInv
    <3> QED
      BY <3>1 DEF Message
  <2>2. outbox' \in [DOMAIN outbox -> Message]
    BY <1>4, <2>1
  <2>3. outbox' \in Seq(Message) /\ DOMAIN outbox' = DOMAIN outbox
    BY <2>2, RowsStay DEF IInv
  <2> QED
    BY <1>1, <2>1, <2>3, RowsKept
<1> QED
  BY <1>2, <1>3, <1>4 DEF TimePasses, RemoveAccount

(* The records in memory are orders. *)
LEMMA RecordsType ==
    ASSUME records \in Seq(Orders), [Next]_vars
    PROVE  records' \in Seq(Orders)
<1>1. ASSUME NEW o \in Orders, Record(o)
      PROVE  records' \in Seq(Orders)
  BY <1>1, AppendProperties DEF Record
<1>2. CASE Write
  BY <1>2, HeadTailProperties DEF Write
<1>3. CASE Crash
  BY <1>3, EmptySeq DEF Crash
<1>4. CASE records' = records
  BY <1>4
<1> QED
  BY <1>1, <1>2, <1>3, <1>4
  DEF Next, Recording, Retrying, vars, Pick, Serve, Mark, MarkFails, Marks, TimePasses, Retry, CheckGroup, SaveTargets,
      RemoveAccount, AccountMoves

(* Each row of the outbox is accounted for, wherever the sender and the owner are with it. *)
THEOREM Invariant == Spec => [](IInv /\ records \in Seq(Orders))
<1>1. Init => IInv /\ records \in Seq(Orders)
  <2> SUFFICES ASSUME Init
               PROVE  IInv /\ records \in Seq(Orders)
    OBVIOUS
  <2>1. outbox = <<>> /\ records = <<>> /\ sender = Idle /\ DOMAIN outbox = {}
    BY DEF Init
  <2>2. sender \in Sender /\ sender.at = "idle" /\ sender.out = FALSE
    BY <2>1 DEF Idle, Sender, Answers
  <2> QED
    BY <2>1, <2>2, EmptySeq DEF IInv, Rows, InHand, Covered
<1>2. (IInv /\ records \in Seq(Orders)) /\ [Next]_vars => (IInv /\ records \in Seq(Orders))'
  <2> SUFFICES ASSUME IInv, records \in Seq(Orders), [Next]_vars
               PROVE  IInv' /\ records' \in Seq(Orders)
    OBVIOUS
  <2>1. records' \in Seq(Orders)
    BY RecordsType
  <2>2. ASSUME UNCHANGED <<outbox, sender>>
        PROVE  IInv'
    BY <2>2, RowsKept DEF IInv, Rows
  <2>3. CASE Write
    <3>1. Head(records) \in Orders /\ sender' = sender
      BY <2>3, HeadTailProperties DEF Write
    <3> QED
      BY <2>1, <2>3, <3>1, WriteKeeps
  <2>4. CASE Recording \/ CheckGroup \/ SaveTargets \/ AccountMoves \/ UNCHANGED vars
    BY <2>1, <2>2, <2>4 DEF Recording, Record, CheckGroup, SaveTargets, AccountMoves, vars
  <2>5. CASE Retrying
    BY <2>1, <2>5, RetryKeeps DEF Retrying
  <2> QED
    BY <2>1, <2>3, <2>4, <2>5, PickKeeps, ServeKeeps, MarkKeeps, CrashKeeps, TimeKeeps DEF Next
<1> QED
  BY <1>1, <1>2, PTL DEF Spec

-----------------------------------------------------------------------------
(* What is shown as sent.  The message in hand is not a sent one, and when the *)
(* answer says it went out, or an answer is "ok", there is a copy of it.       *)

InHandIsNotSent ==
    /\ sender.at # "idle" => outbox[sender.id].status # "sent"
    /\ sender.at = "answered" /\ sender.answer = "ok" => sender.out
    /\ sender.out => outbox[sender.id].out >= 1

SentIsOut == \A i \in DOMAIN outbox : outbox[i].status = "sent" => outbox[i].out >= 1

SInv == InHandIsNotSent /\ SentIsOut

(* A row that is sent stays so, with the copies it has. *)
Final == \A i \in DOMAIN outbox : outbox[i].status = "sent" =>
             outbox'[i].status = "sent" /\ outbox'[i].out = outbox[i].out

(* The writer's new row waits. *)
LEMMA WriteSent ==
    ASSUME IInv, SInv, Write, sender' = sender, NEW o \in Orders, o = Head(records)
    PROVE  SInv' /\ Final
<1> DEFINE m == [order |-> o, status |-> "pending", attempts |-> 0, due |-> TRUE, out |-> 0, asked |-> 0,
                 excused |-> 0]
<1>1. m \in Message /\ m.status = "pending"
  BY DEF Message
<1>2. outbox' = outbox \/ outbox' = Append(outbox, m)
  BY DEF Write
<1> HIDE DEF m
<1>3. CASE outbox' = outbox
  BY <1>3 DEF SInv, InHandIsNotSent, SentIsOut, Final
<1>4. CASE outbox' = Append(outbox, m)
  <2> DEFINE n == Len(outbox)
  <2>1. /\ n \in Nat /\ DOMAIN outbox = 1 .. n /\ DOMAIN outbox' = 1 .. (n + 1)
        /\ \A i \in 1 .. n : outbox'[i] = outbox[i]
        /\ outbox'[n + 1] = m
    BY <1>1, <1>4, AppendProperties, LenProperties DEF IInv, Rows
  <2> HIDE DEF n
  <2>2. InHandIsNotSent'
    BY <2>1 DEF SInv, InHandIsNotSent, IInv, InHand
  <2>3. SentIsOut'
    BY <1>1, <2>1 DEF SInv, SentIsOut
  <2> QED
    BY <2>1, <2>2, <2>3 DEF SInv, Final
<1> QED
  BY <1>2, <1>3, <1>4

(* Only a message that waits is picked. *)
LEMMA PickSent ==
    ASSUME IInv, SInv, Pick
    PROVE  SInv' /\ Final
<1>1. PICK k \in Pending : sender' = [Idle EXCEPT !.at = "sending", !.id = k, !.tried = outbox[k].attempts]
  BY DEF Pick
<1>2. outbox[k].status = "pending" /\ outbox' = outbox
  BY DEF Pick, Pending
<1>3. sender'.at = "sending" /\ sender'.id = k /\ sender'.out = FALSE
  BY <1>1 DEF Idle
<1> QED
  BY <1>2, <1>3 DEF SInv, InHandIsNotSent, SentIsOut, Final

(* A step that changes one row that is not sent, and leaves it unsent or with a copy. *)
LEMMA OneRowSent ==
    ASSUME IInv, SInv, NEW k \in DOMAIN outbox, NEW m \in Message, Change(k, m),
           outbox[k].status # "sent", m.status = "sent" => m.out >= 1
    PROVE  /\ SentIsOut' /\ Final
           /\ outbox'[k] = m /\ \A j \in DOMAIN outbox : j # k => outbox'[j] = outbox[j]
<1>1. /\ DOMAIN outbox' = DOMAIN outbox
      /\ outbox'[k] = m /\ \A j \in DOMAIN outbox : j # k => outbox'[j] = outbox[j]
  BY ChangeRow DEF IInv
<1> QED
  BY <1>1 DEF SInv, SentIsOut, Final

(* The service answers: an "ok" is an answer about a message in the group. *)
LEMMA ServeSent ==
    ASSUME IInv, SInv, Serve
    PROVE  SInv' /\ Final
<1>1. PICK answer \in Answers, out \in BOOLEAN :
          /\ out \in Out(answer)
          /\ sender' = [sender EXCEPT !.at = "answered", !.answer = answer, !.out = out]
          /\ Change(sender.id, [outbox[sender.id] EXCEPT !.out = @ + IF out THEN 1 ELSE 0])
  BY DEF Serve, Out
<1> DEFINE k == sender.id
           m == [outbox[k] EXCEPT !.out = @ + IF out THEN 1 ELSE 0]
<1>2. k \in DOMAIN outbox /\ outbox[k].status # "sent"
  BY DEF Serve, IInv, InHand, SInv, InHandIsNotSent
<1>3. outbox[k] \in Message /\ outbox[k].out \in Nat
  BY <1>2, RowType DEF IInv
<1>4. m \in Message /\ m.out = outbox[k].out + (IF out THEN 1 ELSE 0) /\ m.status = outbox[k].status
  BY <1>3 DEF Message
<1>5. /\ sender'.at = "answered" /\ sender'.id = k /\ sender'.out = out
      /\ sender'.answer = answer
  BY <1>1 DEF IInv, Rows, Sender
<1>6. answer = "ok" => out
  BY <1>1 DEF Out
<1>7. Change(k, m)
  BY <1>1
<1> HIDE DEF m, k
<1>8. SentIsOut' /\ Final /\ outbox'[k] = m
  BY <1>2, <1>4, <1>7, OneRowSent
<1>9. InHandIsNotSent'
  BY <1>2, <1>3, <1>4, <1>5, <1>6, <1>8 DEF InHandIsNotSent
<1> QED
  BY <1>8, <1>9 DEF SInv

(* With no message in hand there is nothing to say about it. *)
LEMMA IdleHasNothing ==
    ASSUME sender' = Idle
    PROVE  InHandIsNotSent'
<1>1. sender'.at = "idle" /\ sender'.out = FALSE
  BY DEF Idle
<1> QED
  BY <1>1 DEF InHandIsNotSent

(* The answer is written down, or could not be: only an "ok" makes the row a sent one. *)
LEMMA MarkSent ==
    ASSUME IInv, SInv, Mark \/ MarkFails
    PROVE  SInv' /\ Final
<1> DEFINE k == sender.id
<1>1. sender.at = "answered" /\ sender' = Idle
  BY DEF Mark, MarkFails, Marks
<1>2. k \in DOMAIN outbox /\ outbox[k].status # "sent" /\ (sender.answer = "ok" => outbox[k].out >= 1)
  BY <1>1 DEF IInv, InHand, SInv, InHandIsNotSent
<1>3. outbox[k] \in Message /\ outbox[k].excused \in Nat /\ sender.answer \in Answers
  BY <1>2, RowType DEF IInv, Rows, Sender
<1>4. InHandIsNotSent'
  BY <1>1, IdleHasNothing
<1>5. Risk \in {0, 1}
  BY DEF Risk
<1>6. CASE Mark
  <2> DEFINE r == Marked(outbox[k], sender.answer)
             more == IF sender.answer = "unavailable" THEN Risk ELSE 0
             m == [r EXCEPT !.excused = @ + more]
  <2>1. /\ r \in Message /\ r.out = outbox[k].out /\ r.excused = outbox[k].excused
        /\ r.status = "sent" => sender.answer = "ok" \/ outbox[k].status = "sent"
    BY <1>3, MarkedRow DEF IInv
  <2>2. Change(k, m)
    BY <1>6 DEF Mark
  <2>3. more \in {0, 1}
    BY <1>5
  <2> HIDE DEF r, more
  <2>4. m \in Message /\ m.out = outbox[k].out /\ m.status = r.status
    BY <1>3, <2>1, <2>3 DEF Message
  <2>5. m.status = "sent" => m.out >= 1
    BY <1>2, <2>1, <2>4
  <2> HIDE DEF m, k
  <2>6. SentIsOut' /\ Final
    BY <1>2, <2>2, <2>4, <2>5, OneRowSent
  <2> QED
    BY <1>4, <2>6 DEF SInv
<1>7. CASE MarkFails
  <2> DEFINE m == [outbox[k] EXCEPT !.excused = @ + Risk]
  <2>1. Change(k, m)
    BY <1>7 DEF MarkFails
  <2>2. m \in Message /\ m.status = outbox[k].status
    BY <1>3, <1>5 DEF Message
  <2> HIDE DEF m, k
  <2>3. SentIsOut' /\ Final
    BY <1>2, <2>1, <2>2, OneRowSent
  <2> QED
    BY <1>4, <2>3 DEF SInv
<1> QED
  BY <1>6, <1>7

(* The server goes down: the row is as it was. *)
LEMMA CrashSent ==
    ASSUME IInv, SInv, Crash
    PROVE  SInv' /\ Final
<1>1. InHandIsNotSent'
  BY IdleHasNothing DEF Crash
<1>2. CASE sender.out
  <2> DEFINE k == sender.id
             m == [outbox[k] EXCEPT !.excused = @ + 1]
  <2>1. k \in DOMAIN outbox /\ outbox[k].status # "sent" /\ Change(k, m)
    BY <1>2 DEF Crash, IInv, InHand, SInv, InHandIsNotSent
  <2>2. outbox[k] \in Message /\ outbox[k].excused \in Nat
    BY <2>1, RowType DEF IInv
  <2>3. m \in Message /\ m.status = outbox[k].status
    BY <2>2 DEF Message
  <2> HIDE DEF m, k
  <2>4. SentIsOut' /\ Final
    BY <2>1, <2>3, OneRowSent
  <2> QED
    BY <1>1, <2>4 DEF SInv
<1>3. CASE ~sender.out
  <2>1. outbox' = outbox
    BY <1>3 DEF Crash
  <2> QED
    BY <1>1, <2>1 DEF SInv, SentIsOut, Final
<1> QED
  BY <1>2, <1>3

(* The owner asks again for a message that was not sent: it may be the one in hand. *)
LEMMA RetrySent ==
    ASSUME IInv, SInv, NEW k \in DOMAIN outbox, Retry(k)
    PROVE  SInv' /\ Final
<1> DEFINE m1 == [outbox[k] EXCEPT !.status = "pending"]
           m2 == [m1 EXCEPT !.attempts = 0]
           m3 == [m2 EXCEPT !.due = TRUE]
           m  == [m3 EXCEPT !.asked = @ + 1]
<1>1. Change(k, m) /\ sender' = sender /\ outbox[k].status # "sent"
  BY DEF Retry
<1>2. outbox[k] \in Message /\ outbox[k].asked \in Nat
  BY RowType DEF IInv
<1>3. m1 \in Message /\ m1.status = "pending" /\ m1.out = outbox[k].out
  BY <1>2 DEF Message
<1>4. m2 \in Message /\ m2.status = "pending" /\ m2.out = outbox[k].out
  <2> HIDE DEF m1
  <2> QED  BY <1>3 DEF Message
<1>5. m3 \in Message /\ m3.status = "pending" /\ m3.out = outbox[k].out /\ m3.asked \in Nat
  <2> HIDE DEF m1, m2
  <2> QED  BY <1>4 DEF Message
<1>6. m \in Message /\ m.status = "pending" /\ m.out = outbox[k].out
  <2> HIDE DEF m1, m2, m3
  <2> QED  BY <1>5 DEF Message
<1> HIDE DEF m
<1>7. /\ SentIsOut' /\ Final
      /\ outbox'[k] = m /\ \A j \in DOMAIN outbox : j # k => outbox'[j] = outbox[j]
  BY <1>1, <1>6, OneRowSent
<1>8. InHandIsNotSent'
  BY <1>1, <1>6, <1>7 DEF SInv, InHandIsNotSent, IInv, InHand
<1> QED
  BY <1>7, <1>8 DEF SInv

(* Time passes, or what waits for an account that is gone fails: no copies, and nothing is sent. *)
LEMMA TimeSent ==
    ASSUME IInv, SInv, TimePasses \/ RemoveAccount
    PROVE  SInv' /\ Final
<1>1. sender' = sender
  BY DEF TimePasses, RemoveAccount
<1>2. ASSUME DOMAIN outbox' = DOMAIN outbox,
             \A i \in DOMAIN outbox : /\ outbox'[i].out = outbox[i].out
                                      /\ outbox'[i].status = "sent" <=> outbox[i].status = "sent"
      PROVE  SInv' /\ Final
  <2>1. SentIsOut' /\ Final
    BY <1>2 DEF SInv, SentIsOut, Final
  <2>2. sender.at # "idle" \/ sender.out => sender.id \in DOMAIN outbox
    BY DEF IInv, InHand
  <2>3. InHandIsNotSent'
    BY <1>1, <1>2, <2>2 DEF SInv, InHandIsNotSent
  <2> QED
    BY <2>1, <2>3 DEF SInv
<1>3. CASE outbox' = outbox
  BY <1>2, <1>3
<1>4. CASE outbox' = [i \in DOMAIN outbox |-> [outbox[i] EXCEPT !.due = TRUE]]
  <2>1. ASSUME NEW i \in DOMAIN outbox
        PROVE  outbox'[i].out = outbox[i].out /\ outbox'[i].status = outbox[i].status
    BY <1>4, RowType DEF IInv, Message
  <2> QED
    BY <1>2, <1>4, <2>1
<1>5. CASE outbox' = [i \in DOMAIN outbox |-> [outbox[i] EXCEPT !.status = IF @ = "pending" THEN "failed" ELSE @]]
  <2>1. ASSUME NEW i \in DOMAIN outbox
        PROVE  /\ outbox'[i].out = outbox[i].out
               /\ outbox'[i].status = "sent" <=> outbox[i].status = "sent"
    BY <1>5, RowType DEF IInv, Message
  <2> QED
    BY <1>2, <1>5, <2>1
<1> QED
  BY <1>3, <1>4, <1>5 DEF TimePasses, RemoveAccount

(* Every step keeps the invariant, and what is sent as it is. *)
LEMMA SentStep ==
    ASSUME IInv, SInv, records \in Seq(Orders), [Next]_vars
    PROVE  SInv' /\ Final
<1>1. ASSUME UNCHANGED <<outbox, sender>>
      PROVE  SInv' /\ Final
  BY <1>1 DEF SInv, InHandIsNotSent, SentIsOut, Final
<1>2. CASE Write
  <2>1. Head(records) \in Orders /\ sender' = sender
    BY <1>2, HeadTailProperties DEF Write
  <2> QED
    BY <1>2, <2>1, WriteSent
<1>3. CASE Recording \/ CheckGroup \/ SaveTargets \/ AccountMoves \/ UNCHANGED vars
  BY <1>1, <1>3 DEF Recording, Record, CheckGroup, SaveTargets, AccountMoves, vars
<1>4. CASE Retrying
  BY <1>4, RetrySent DEF Retrying
<1> QED
  BY <1>2, <1>3, <1>4, PickSent, ServeSent, MarkSent, CrashSent, TimeSent DEF Next

(* At the start the outbox is empty. *)
LEMMA SentBegins ==
    ASSUME Init
    PROVE  SInv
<1>1. DOMAIN outbox = {} /\ sender.at = "idle" /\ sender.out = FALSE
  BY DEF Init, Idle
<1> QED
  BY <1>1 DEF SInv, InHandIsNotSent, SentIsOut

(* The message in hand is not a sent one, and what is sent is out, always. *)
LEMMA SentInvariant == Spec => []SInv
<1>1. SInv /\ (IInv /\ records \in Seq(Orders)) /\ [Next]_vars => SInv'
  BY SentStep
<1> QED
  BY <1>1, SentBegins, Invariant, PTL DEF Spec

(* Every copy of an order beyond the first was asked for by the owner or has a  *)
(* cause the sender cannot tell from a message that never left, and what the    *)
(* owner's page shows as sent is in the group, whatever was lost, retried or    *)
(* crashed on the way (CopiesAreExplained; run_sender of whatsapp.rs).          *)
THEOREM CopiesAreExplainedHolds == Spec => []CopiesAreExplained
<1>1. IInv /\ SInv => CopiesAreExplained
  <2> SUFFICES ASSUME IInv, SInv, NEW i \in DOMAIN outbox
               PROVE  /\ outbox[i].status = "sent" => outbox[i].out >= 1
                      /\ outbox[i].out <= 1 + outbox[i].asked + outbox[i].excused
    BY DEF CopiesAreExplained
  <2>1. outbox[i].out \in Nat /\ outbox[i].asked \in Nat /\ outbox[i].excused \in Nat
    BY RowType DEF IInv
  <2>2. outbox[i].status = "sent" => outbox[i].out >= 1
    BY DEF SInv, SentIsOut
  <2> QED
    BY <2>1, <2>2 DEF IInv, Covered, Allowed
<1> QED
  BY <1>1, Invariant, SentInvariant, PTL

(* A message that is sent gets no further copy and stays sent, although the     *)
(* sender and the owner's retry change the same row without looking at each     *)
(* other (SentIsFinal; run_sender and retry of whatsapp.rs).                    *)
THEOREM SentIsFinalHolds == Spec => SentIsFinal
<1> DEFINE A == \A i \in DOMAIN outbox : outbox[i].status = "sent" =>
                    outbox'[i].status = "sent" /\ outbox'[i].out = outbox[i].out
<1>1. SInv /\ (IInv /\ records \in Seq(Orders)) /\ [Next]_vars => [A]_vars
  BY SentStep DEF Final
<1> HIDE DEF A
<1>2. Spec => [][A]_vars
  BY <1>1, Invariant, SentInvariant, PTL DEF Spec
<1> QED
  BY <1>2 DEF SentIsFinal, A
=============================================================================
