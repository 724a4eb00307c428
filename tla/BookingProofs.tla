--------------------------- MODULE BookingProofs ---------------------------
(***************************************************************************)
(* What the task machine of module Booking keeps, for every business file, *)
(* every number of turns and every order of the caller's words and the     *)
(* actions' results.                                                       *)
(*                                                                         *)
(* Every operator of Booking takes an engine to an engine, so the proof is *)
(* compositional: a lemma per method says which of three predicates on the *)
(* engine (Quiet, Mid, Done, each relative to the engine e0 the turn began *)
(* with) it takes to which.  A turn is quiet until a task is moved         *)
(* forward; moving it forward may end a run and resume another (Mid); at   *)
(* the end at most one request was made, for the run that now waits for it *)
(* (Done).  The values are not typed: the properties rest on which values  *)
(* are equal, not on what they are.                                        *)
(***************************************************************************)
EXTENDS Booking, SequenceTheorems, TLAPS

-----------------------------------------------------------------------------
(* The inductive invariant.                                                   *)

EngineFields == {"phase", "run", "suspended", "completed", "offered", "asking", "asked", "failures", "failed",
                 "next", "customer", "desk", "turns", "resumed", "out", "last"}
RunFields == {"task", "slots", "step", "slot", "id", "journal", "confirmed", "attempts", "fired", "heard",
              "agreed", "consent"}
StateFields == {"val", "sure", "ok", "by"}

Listed(q) == q \in Seq(Range(q))
Logged(j) == Listed(j) /\ \A i \in 1..Len(j) : DOMAIN j[i].had = StateFields

Formed(r) ==
    /\ DOMAIN r = RunFields /\ r.task \in Tasks \cup {None}
    /\ DOMAIN r.slots = Slots /\ \A s \in Slots : DOMAIN r.slots[s] = StateFields
    /\ Logged(r.journal) /\ r.confirmed \in BOOLEAN /\ r.attempts \in Nat

\* What the caller said, the name apart, is what these values say.
Attested(r, vals) == \A s \in Slots \ {NameSlot} : r.slots[s].by = "said" => r.slots[s].val = vals[s]

\* A read-back that waits for its yes, and a yes that stands, are about the values there are.
RunOK(r) ==
    /\ Formed(r)
    /\ r.step = "awaiting_confirmation" => Attested(r, r.heard)
    /\ r.confirmed = TRUE => Attested(r, r.agreed)
    /\ r.step = "executing" => r.attempts >= 1

Waiting(q) == Listed(q) /\ \A i \in 1..Len(q) : RunOK(q[i]) /\ q[i].task # None

\* What every engine in a turn that began with e0 has.
Sound(e0, e) ==
    /\ DOMAIN e = EngineFields /\ RunOK(e.run) /\ Waiting(e.suspended)
    /\ e.phase = "active" => e0.phase = "active"
    /\ e0.next \in Nat /\ e.next \in Nat /\ e.next >= e0.next

Idle(e) == e.phase = "active" /\ ~InRun(e) => e.suspended = <<>>

\* The run that waits for an action waits for the one it waited for when the turn began.
Still(e0, e) ==
    Executing(e) => /\ Executing(e0) /\ e.run.id = e0.run.id
                    /\ e.run.task = e0.run.task /\ e.run.attempts = e0.run.attempts

Base(e0, e) ==
    /\ Sound(e0, e) /\ Idle(e) /\ e.out = <<>> /\ e.resumed = FALSE
    /\ Len(e.suspended) <= MaxSuspended + 1

Quiet(e0, e) == Base(e0, e) /\ Still(e0, e)

BInv ==
    /\ Quiet(eng, eng) /\ Len(eng.suspended) <= MaxSuspended
    /\ \A q \in flight : q.id \in Nat /\ q.id < eng.next
    /\ OneRequestPerKey /\ WaitsForARequest

-----------------------------------------------------------------------------
(* Sequences.                                                                 *)

(* No elements, no listing to check.                                          *)
LEMMA ListedEmpty == Listed(<<>>) /\ Len(<<>>) = 0
BY DEF Listed

(* A listing may be longer by one.                                            *)
LEMMA ListedAppend ==
    ASSUME NEW q, Listed(q), NEW x
    PROVE  /\ Listed(Append(q, x)) /\ Len(Append(q, x)) = Len(q) + 1 /\ Len(q) \in Nat
           /\ \A i \in 1..Len(q) : Append(q, x)[i] = q[i]
           /\ Append(q, x)[Len(q) + 1] = x
<1> DEFINE S == Range(q) \cup {x}
           a == Append(q, x)
<1>1. q \in Seq(S)
    BY DEF Listed
<1>2. a \in Seq(S) /\ Len(a) = Len(q) + 1 /\ Len(q) \in Nat
    BY <1>1
<1>3. (\A i \in 1..Len(q) : a[i] = q[i]) /\ a[Len(q) + 1] = x
    BY <1>1
<1>4. a \in Seq(Range(a))
    BY <1>2, SeqOfRange
<1> QED
    BY <1>2, <1>3, <1>4 DEF Listed

(* The front of a listing is one.                                             *)
LEMMA ListedFront ==
    ASSUME NEW q, Listed(q), Len(q) > 0
    PROVE  LET f == SubSeq(q, 1, Len(q) - 1)
           IN  /\ Listed(f) /\ Len(f) = Len(q) - 1 /\ Len(q) \in Nat
               /\ \A i \in 1..Len(f) : f[i] = q[i]
<1> DEFINE S == Range(q)
           f == SubSeq(q, 1, Len(q) - 1)
<1>1. q \in Seq(S) /\ Len(q) \in Nat
    BY DEF Listed
<1>2. f \in Seq(S) /\ Len(f) = Len(q) - 1 /\ \A i \in 1..Len(f) : f[i] = q[i]
    <2>1. 1 \in Int /\ Len(q) - 1 \in Int /\ \A i \in 1..(Len(q) - 1) : q[i] \in S
        BY <1>1
    <2> HIDE DEF S
    <2>2. /\ f \in Seq(S) /\ Len(f) = (IF 1 <= Len(q) - 1 THEN (Len(q) - 1) - 1 + 1 ELSE 0)
          /\ \A i \in 1..((Len(q) - 1) - 1 + 1) : f[i] = q[1 + i - 1]
        BY <2>1, SubSeqProperties
    <2> HIDE DEF f
    <2>3. Len(f) = Len(q) - 1
        <3>1. CASE 1 <= Len(q) - 1
            BY <1>1, <2>2, <3>1
        <3>2. CASE ~(1 <= Len(q) - 1)
            <4>1. Len(f) = 0
                BY <2>2, <3>2, Zenon
            <4>2. Len(q) = 1
                <5>1. Len(q) \in Nat /\ Len(q) > 0 /\ ~(1 <= Len(q) - 1)
                    BY <1>1, <3>2
                <5> QED
                    BY ONLY <5>1
            <4> QED
                BY <4>1, <4>2
        <3> QED
            BY <3>1, <3>2
    <2>4. \A i \in 1..Len(f) : i \in 1..((Len(q) - 1) - 1 + 1) /\ 1 + i - 1 = i
        BY <1>1, <2>3
    <2>5. \A i \in 1..Len(f) : f[i] = q[i]
        BY <2>2, <2>4, Zenon
    <2> QED
        BY <2>2, <2>3, <2>5
<1>3. f \in Seq(Range(f))
    BY <1>2, SeqOfRange
<1> QED
    BY <1>1, <1>2, <1>3 DEF Listed

(* A listing without elements is the empty sequence.                          *)
LEMMA ListedNone ==
    ASSUME NEW q, Listed(q)
    PROVE  Len(q) \in Nat /\ (q = <<>> <=> Len(q) = 0)
BY EmptySeq DEF Listed

-----------------------------------------------------------------------------
(* What a run keeps, operation by operation of PipelineRun.                   *)

(* A run that carries on: of the same task, and waiting for nothing new.      *)
Follows(r, f) ==
    /\ RunOK(f) /\ f.task = r.task
    /\ f.step = "executing" => r.step = "executing" /\ f.id = r.id /\ f.attempts = r.attempts

(* A run begins with nothing.                                                 *)
LEMMA PipelineRunOK ==
    ASSUME NEW t \in Tasks \cup {None}
    PROVE  RunOK(PipelineRun(t)) /\ PipelineRun(t).task = t /\ PipelineRun(t).step = "collecting"
<1>1. DOMAIN PipelineRun(t) = RunFields
    BY DEF PipelineRun, RunFields
<1>2. \A s \in Slots : DOMAIN PipelineRun(t).slots[s] = StateFields
    BY DEF PipelineRun, Absent, Given, StateFields
<1>3. Logged(PipelineRun(t).journal)
    BY ListedEmpty DEF PipelineRun, Logged
<1> QED
    BY <1>1, <1>2, <1>3 DEF PipelineRun, RunOK, Formed

(* Values written into the slots by the system leave every consent as it is.  *)
LEMMA SlotsGiven ==
    ASSUME NEW r, RunOK(r), NEW sl, DOMAIN sl = Slots,
           \A s \in Slots : DOMAIN sl[s] = StateFields /\ (sl[s].by = "said" => sl[s].val = r.slots[s].val /\ r.slots[s].by = "said")
    PROVE  Follows(r, [r EXCEPT !.slots = sl])
<1> DEFINE f == [r EXCEPT !.slots = sl]
<1>1. DOMAIN f = RunFields /\ f.slots = sl /\ \A x \in RunFields \ {"slots"} : f[x] = r[x]
    BY DEF RunOK, Formed, RunFields
<1>2. /\ f.task = r.task /\ f.step = r.step /\ f.id = r.id /\ f.journal = r.journal /\ f.confirmed = r.confirmed
      /\ f.attempts = r.attempts /\ f.heard = r.heard /\ f.agreed = r.agreed
    BY <1>1 DEF RunFields
<1> HIDE DEF f
<1>3. Formed(f)
    BY <1>1, <1>2 DEF RunOK, Formed
<1>4. \A vals : Attested(r, vals) => Attested(f, vals)
    BY <1>1 DEF Attested
<1>5. Follows(r, f)
    BY <1>1, <1>2, <1>3, <1>4 DEF Follows, RunOK
<1> QED
    BY <1>5 DEF f

(* Back to collecting, or to doubting a value: nothing waits for a yes.       *)
LEMMA StepOK ==
    ASSUME NEW r, RunOK(r), NEW x \in {"collecting", "confirming_slot"}, NEW y
    PROVE  Follows(r, [r EXCEPT !.step = x, !.slot = y])
<1> DEFINE f == [r EXCEPT !.step = x, !.slot = y]
<1>1. DOMAIN f = RunFields /\ f.step = x
    BY DEF RunOK, Formed, RunFields
<1>2. /\ f.task = r.task /\ f.slots = r.slots /\ f.id = r.id /\ f.journal = r.journal /\ f.confirmed = r.confirmed
      /\ f.attempts = r.attempts /\ f.heard = r.heard /\ f.agreed = r.agreed
    BY DEF RunOK, Formed, RunFields
<1> HIDE DEF f
<1>3. Formed(f)
    BY <1>1, <1>2 DEF RunOK, Formed
<1>4. \A vals : Attested(r, vals) => Attested(f, vals)
    BY <1>2 DEF Attested
<1>5. Follows(r, f)
    BY <1>1, <1>2, <1>3, <1>4 DEF Follows, RunOK
<1> QED
    BY <1>5 DEF f

(* Which slot is asked about says nothing of the values.                      *)
LEMMA SlotFieldOK ==
    ASSUME NEW r, RunOK(r), NEW y
    PROVE  LET f == [r EXCEPT !.slot = y]
           IN  Follows(r, f) /\ f.step = r.step
<1> DEFINE f == [r EXCEPT !.slot = y]
<1>1. DOMAIN f = RunFields /\ f.step = r.step
    BY DEF RunOK, Formed, RunFields
<1>2. /\ f.task = r.task /\ f.slots = r.slots /\ f.id = r.id /\ f.journal = r.journal /\ f.confirmed = r.confirmed
      /\ f.attempts = r.attempts /\ f.heard = r.heard /\ f.agreed = r.agreed
    BY DEF RunOK, Formed, RunFields
<1> HIDE DEF f
<1>3. Formed(f)
    BY <1>1, <1>2 DEF RunOK, Formed
<1>4. \A vals : Attested(r, vals) => Attested(f, vals)
    BY <1>2 DEF Attested
<1>5. Follows(r, f) /\ f.step = r.step
    BY <1>1, <1>2, <1>3, <1>4 DEF Follows, RunOK
<1> QED
    BY <1>5 DEF f

(* The rules that fired say nothing of the values.                            *)
LEMMA FiredOK ==
    ASSUME NEW r, RunOK(r), NEW x
    PROVE  LET f == [r EXCEPT !.fired = x]
           IN  Follows(r, f) /\ f.slots = r.slots /\ f.step = r.step /\ f.journal = r.journal
<1> DEFINE f == [r EXCEPT !.fired = x]
<1>1. DOMAIN f = RunFields /\ f.step = r.step
    BY DEF RunOK, Formed, RunFields
<1>2. /\ f.task = r.task /\ f.slots = r.slots /\ f.id = r.id /\ f.journal = r.journal /\ f.confirmed = r.confirmed
      /\ f.attempts = r.attempts /\ f.heard = r.heard /\ f.agreed = r.agreed
    BY DEF RunOK, Formed, RunFields
<1> HIDE DEF f
<1>3. Formed(f)
    BY <1>1, <1>2 DEF RunOK, Formed
<1>4. \A vals : Attested(r, vals) => Attested(f, vals)
    BY <1>2 DEF Attested
<1>5. Follows(r, f) /\ f.slots = r.slots /\ f.step = r.step /\ f.journal = r.journal
    BY <1>1, <1>2, <1>3, <1>4 DEF Follows, RunOK
<1> QED
    BY <1>5 DEF f

(* What a slot held is written down before it changes, and read again to undo. *)
LEMMA LoggedAppend ==
    ASSUME NEW j, Logged(j), NEW x, DOMAIN x.had = StateFields
    PROVE  Logged(Append(j, x))
<1> DEFINE a == Append(j, x)
<1>1. /\ Listed(a) /\ Len(a) = Len(j) + 1 /\ Len(j) \in Nat
      /\ \A i \in 1..Len(j) : a[i] = j[i]
      /\ a[Len(j) + 1] = x
    BY ListedAppend DEF Logged
<1> HIDE DEF a
<1>2. \A i \in 1..Len(a) : i \in 1..Len(j) \/ i = Len(j) + 1
    BY <1>1
<1>3. \A i \in 1..Len(a) : DOMAIN a[i].had = StateFields
    BY <1>1, <1>2 DEF Logged
<1>4. Logged(a)
    BY <1>1, <1>3 DEF Logged
<1> QED
    BY <1>4 DEF a

LEMMA LoggedFront ==
    ASSUME NEW j, Logged(j), j # <<>>
    PROVE  Logged(SubSeq(j, 1, Len(j) - 1)) /\ DOMAIN j[Len(j)].had = StateFields
<1> DEFINE f == SubSeq(j, 1, Len(j) - 1)
<1>1. Len(j) \in Nat /\ Len(j) # 0
    BY ListedNone DEF Logged
<1>2. Len(j) > 0 /\ Len(j) \in 1..Len(j)
    BY <1>1
<1>3. Listed(f) /\ Len(f) = Len(j) - 1 /\ \A i \in 1..Len(f) : f[i] = j[i]
    BY <1>2, ListedFront DEF Logged
<1> HIDE DEF f
<1>4. \A i \in 1..Len(f) : i \in 1..Len(j)
    BY <1>1, <1>3
<1>5. Logged(f)
    BY <1>3, <1>4 DEF Logged
<1> QED
    BY <1>2, <1>5 DEF f, Logged

(* A value set takes the yes back, unless it is the one that was there.       *)
LEMMA SetOK ==
    ASSUME NEW r, RunOK(r), NEW s \in Slots, NEW st, DOMAIN st = StateFields
    PROVE  LET f == Set(r, s, st)
           IN  /\ Formed(f) /\ f.slots = [r.slots EXCEPT ![s] = st]
               /\ f.task = r.task /\ f.step = r.step /\ f.id = r.id /\ f.attempts = r.attempts
               /\ f.heard = r.heard /\ f.agreed = r.agreed
               /\ f.confirmed = (r.confirmed /\ r.slots[s].val = st.val)
<1> DEFINE f == Set(r, s, st)
<1>1. DOMAIN r = RunFields /\ r.confirmed \in BOOLEAN
    BY DEF RunOK, Formed
<1>2. DOMAIN f = RunFields /\ f.slots = [r.slots EXCEPT ![s] = st] /\ f.journal = Journal(r, s)
    BY <1>1 DEF RunFields, Set
<1>3. /\ f.task = r.task /\ f.step = r.step /\ f.id = r.id /\ f.attempts = r.attempts
      /\ f.heard = r.heard /\ f.agreed = r.agreed
    BY <1>1 DEF RunFields, Set
<1>4. f.confirmed = (r.confirmed /\ r.slots[s].val = st.val)
    BY <1>1 DEF RunFields, Set
<1>5. Logged(Journal(r, s))
    <2>1. Logged(r.journal) /\ DOMAIN [slot |-> s, had |-> r.slots[s]].had = StateFields
        BY DEF RunOK, Formed
    <2> QED
        BY <2>1, LoggedAppend DEF Journal
<1> HIDE DEF f
<1>6. DOMAIN f.slots = Slots /\ \A x \in Slots : DOMAIN f.slots[x] = StateFields
    BY <1>2 DEF RunOK, Formed
<1>7. f.confirmed \in BOOLEAN
    BY <1>1, <1>4
<1>8. Formed(f)
    BY <1>2, <1>3, <1>5, <1>6, <1>7 DEF RunOK, Formed
<1>9. /\ Formed(f) /\ f.slots = [r.slots EXCEPT ![s] = st]
      /\ f.task = r.task /\ f.step = r.step /\ f.id = r.id /\ f.attempts = r.attempts
      /\ f.heard = r.heard /\ f.agreed = r.agreed
      /\ f.confirmed = (r.confirmed /\ r.slots[s].val = st.val)
    BY <1>2, <1>3, <1>4, <1>8
<1> QED
    BY <1>9 DEF f

(* A value the system sets disturbs no consent to what the caller said.       *)
LEMMA SetGivenOK ==
    ASSUME NEW r, RunOK(r), NEW s \in Slots, NEW st, DOMAIN st = StateFields, st.by = "given"
    PROVE  Follows(r, Set(r, s, st))
<1> DEFINE f == Set(r, s, st)
<1>1. /\ Formed(f) /\ f.slots = [r.slots EXCEPT ![s] = st]
      /\ f.task = r.task /\ f.step = r.step /\ f.id = r.id /\ f.attempts = r.attempts
      /\ f.heard = r.heard /\ f.agreed = r.agreed
      /\ f.confirmed = (r.confirmed /\ r.slots[s].val = st.val)
    BY SetOK
<1> HIDE DEF f
<1>2. \A vals : Attested(r, vals) => Attested(f, vals)
    BY <1>1 DEF Attested, RunOK, Formed
<1>3. f.confirmed = TRUE => r.confirmed = TRUE
    BY <1>1 DEF RunOK, Formed
<1>4. Follows(r, f)
    BY <1>1, <1>2, <1>3 DEF Follows, RunOK
<1> QED
    BY <1>4 DEF f

(* A detail taken out takes the yes back.                                     *)
LEMMA ClearOK ==
    ASSUME NEW r, RunOK(r), NEW s
    PROVE  Follows(r, Clear(r, s))
<1> DEFINE f == Clear(r, s)
<1>1. CASE s \notin Has(r)
    BY <1>1 DEF Clear, Follows
<1>2. CASE s \in Has(r)
    <2>1. s \in Slots /\ DOMAIN r = RunFields
        BY <1>2 DEF Has, RunOK, Formed
    <2>2. DOMAIN f = RunFields /\ f.slots = [r.slots EXCEPT ![s] = Absent] /\ f.journal = Journal(r, s)
        BY <1>2, <2>1 DEF RunFields, Clear
    <2>3. /\ f.task = r.task /\ f.step = r.step /\ f.id = r.id /\ f.attempts = r.attempts
          /\ f.heard = r.heard /\ f.agreed = r.agreed /\ f.confirmed = FALSE
        BY <1>2, <2>1 DEF RunFields, Clear
    <2>4. Logged(Journal(r, s))
        <3>1. Logged(r.journal) /\ DOMAIN [slot |-> s, had |-> r.slots[s]].had = StateFields
            BY <2>1 DEF RunOK, Formed
        <3> QED
            BY <3>1, LoggedAppend DEF Journal
    <2>5. DOMAIN Absent = StateFields /\ Absent.by = "given"
        BY DEF Absent, Given, StateFields
    <2> HIDE DEF f
    <2>6. DOMAIN f.slots = Slots /\ \A x \in Slots : DOMAIN f.slots[x] = StateFields
        BY <2>2, <2>5 DEF RunOK, Formed
    <2>7. Formed(f)
        BY <2>2, <2>3, <2>4, <2>6 DEF RunOK, Formed
    <2>8. \A vals : Attested(r, vals) => Attested(f, vals)
        BY <2>2, <2>5 DEF Attested, RunOK, Formed
    <2>9. Follows(r, f)
        BY <2>3, <2>7, <2>8 DEF Follows, RunOK
    <2> QED
        BY <2>9 DEF f
<1> QED
    BY <1>1, <1>2

(* Going back takes the yes back and leaves the read-back.                    *)
LEMMA UndoOK ==
    ASSUME NEW r, RunOK(r), r.journal # <<>>
    PROVE  Follows(r, [Undo(r) EXCEPT !.step = "collecting", !.slot = None])
<1> DEFINE u == Undo(r)
           f == [u EXCEPT !.step = "collecting", !.slot = None]
           last == r.journal[Len(r.journal)]
<1>1. DOMAIN r = RunFields /\ Logged(r.journal)
    BY DEF RunOK, Formed
<1>2. Logged(SubSeq(r.journal, 1, Len(r.journal) - 1)) /\ DOMAIN last.had = StateFields
    BY <1>1, LoggedFront
<1>3. /\ DOMAIN u = RunFields /\ u.slots = [r.slots EXCEPT ![last.slot] = last.had]
      /\ u.journal = SubSeq(r.journal, 1, Len(r.journal) - 1) /\ u.confirmed = FALSE
      /\ u.task = r.task /\ u.attempts = r.attempts
    BY <1>1 DEF RunFields, Undo
<1> HIDE DEF u
<1>4. /\ DOMAIN f = RunFields /\ f.slots = u.slots /\ f.journal = u.journal /\ f.confirmed = u.confirmed
      /\ f.task = u.task /\ f.attempts = u.attempts /\ f.step = "collecting"
    BY <1>3 DEF RunFields
<1> HIDE DEF f, last
<1>5. DOMAIN f.slots = Slots /\ \A x \in Slots : DOMAIN f.slots[x] = StateFields
    BY <1>2, <1>3, <1>4 DEF RunOK, Formed
<1>6. Formed(f)
    BY <1>2, <1>3, <1>4, <1>5 DEF RunOK, Formed
<1>7. Follows(r, f)
    BY <1>3, <1>4, <1>6 DEF Follows, RunOK
<1> QED
    BY <1>7 DEF f, u

(* A value heard, taken into the run: a new one takes the yes back, and even  *)
(* a known one ends the read-back.                                            *)
Taking(r, s, st) ==
    LET g == IF r.slots[s].val = st.val THEN r ELSE Set(r, s, st)
    IN  IF g.step \in {"awaiting_confirmation", "confirming_slot"}
        THEN [g EXCEPT !.step = "collecting", !.slot = None] ELSE g

LEMMA TakenOK ==
    ASSUME NEW r, RunOK(r), NEW s \in Slots, NEW st, DOMAIN st = StateFields
    PROVE  Follows(r, Taking(r, s, st))
<1> DEFINE g == IF r.slots[s].val = st.val THEN r ELSE Set(r, s, st)
           f == Taking(r, s, st)
<1>1. /\ Formed(g) /\ g.task = r.task /\ g.step = r.step /\ g.id = r.id /\ g.attempts = r.attempts
      /\ g.confirmed = TRUE => Attested(g, g.agreed)
    <2>1. CASE r.slots[s].val = st.val
        BY <2>1 DEF RunOK
    <2>2. CASE r.slots[s].val # st.val
        <3> DEFINE h == Set(r, s, st)
        <3>1. /\ Formed(h) /\ h.slots = [r.slots EXCEPT ![s] = st]
              /\ h.task = r.task /\ h.step = r.step /\ h.id = r.id /\ h.attempts = r.attempts
              /\ h.heard = r.heard /\ h.agreed = r.agreed
              /\ h.confirmed = (r.confirmed /\ r.slots[s].val = st.val)
            BY SetOK
        <3>2. g = h
            BY <2>2
        <3> HIDE DEF g, h
        <3>3. h.confirmed = FALSE
            BY <2>2, <3>1
        <3> QED
            BY <3>1, <3>2, <3>3
    <2> QED
        BY <2>1, <2>2
<1>2. f = IF g.step \in {"awaiting_confirmation", "confirming_slot"}
          THEN [g EXCEPT !.step = "collecting", !.slot = None] ELSE g
    BY DEF Taking
<1> HIDE DEF g, f
<1>3. CASE g.step \in {"awaiting_confirmation", "confirming_slot"}
    <2>1. /\ DOMAIN f = RunFields /\ f.slots = g.slots /\ f.journal = g.journal /\ f.confirmed = g.confirmed
          /\ f.task = g.task /\ f.attempts = g.attempts /\ f.step = "collecting" /\ f.agreed = g.agreed
        BY <1>1, <1>2, <1>3 DEF Formed, RunFields
    <2>2. Formed(f)
        BY <1>1, <2>1 DEF Formed
    <2>3. Attested(g, g.agreed) => Attested(f, f.agreed)
        BY <2>1 DEF Attested
    <2>4. Follows(r, f)
        BY <1>1, <2>1, <2>2, <2>3 DEF Follows, RunOK
    <2> QED
        BY <2>4 DEF f
<1>4. CASE g.step \notin {"awaiting_confirmation", "confirming_slot"}
    <2>1. f = g
        BY <1>2, <1>4
    <2>2. Follows(r, f)
        BY <1>1, <1>4, <2>1 DEF Follows, RunOK
    <2> QED
        BY <2>2 DEF f
<1> QED
    BY <1>3, <1>4

(* The read-back says the values there are.                                   *)
LEMMA ReadOutOK ==
    ASSUME NEW r, RunOK(r), NEW y, NEW h, \A s \in Slots \ {NameSlot} : h[s] = r.slots[s].val
    PROVE  Follows(r, [r EXCEPT !.step = "awaiting_confirmation", !.slot = y, !.heard = h])
<1> DEFINE f == [r EXCEPT !.step = "awaiting_confirmation", !.slot = y, !.heard = h]
<1>1. /\ DOMAIN f = RunFields /\ f.slots = r.slots /\ f.journal = r.journal /\ f.confirmed = r.confirmed
      /\ f.task = r.task /\ f.attempts = r.attempts /\ f.step = "awaiting_confirmation"
      /\ f.heard = h /\ f.agreed = r.agreed
    BY DEF RunOK, Formed, RunFields
<1> HIDE DEF f
<1>2. Formed(f)
    BY <1>1 DEF RunOK, Formed
<1>3. Attested(f, f.heard) /\ (Attested(r, r.agreed) => Attested(f, f.agreed))
    BY <1>1 DEF Attested
<1>4. Follows(r, f)
    BY <1>1, <1>2, <1>3 DEF Follows, RunOK
<1> QED
    BY <1>4 DEF f

(* The read-back may go out again with the yes taken back.                    *)
LEMMA UnconfirmedOK ==
    ASSUME NEW r, RunOK(r)
    PROVE  Follows(r, [r EXCEPT !.confirmed = FALSE])
<1> DEFINE f == [r EXCEPT !.confirmed = FALSE]
<1>1. /\ DOMAIN f = RunFields /\ f.slots = r.slots /\ f.journal = r.journal /\ f.confirmed = FALSE
      /\ f.task = r.task /\ f.attempts = r.attempts /\ f.step = r.step /\ f.heard = r.heard /\ f.id = r.id
    BY DEF RunOK, Formed, RunFields
<1> HIDE DEF f
<1>2. Formed(f)
    BY <1>1 DEF RunOK, Formed
<1>3. Attested(r, r.heard) => Attested(f, f.heard)
    BY <1>1 DEF Attested
<1>4. Follows(r, f)
    BY <1>1, <1>2, <1>3 DEF Follows, RunOK
<1> QED
    BY <1>4 DEF f

(* The yes at the read-back is a yes to the values there are.                 *)
LEMMA AgreedOK ==
    ASSUME NEW r, RunOK(r), r.step = "awaiting_confirmation", NEW c, NEW sl, DOMAIN sl = Slots,
           \A s \in Slots : DOMAIN sl[s] = StateFields /\ sl[s].by = r.slots[s].by /\ sl[s].val = r.slots[s].val
    PROVE  Follows(r, [r EXCEPT !.confirmed = TRUE, !.agreed = r.heard, !.consent = c, !.slots = sl])
<1> DEFINE f == [r EXCEPT !.confirmed = TRUE, !.agreed = r.heard, !.consent = c, !.slots = sl]
<1>1. /\ DOMAIN f = RunFields /\ f.slots = sl /\ f.journal = r.journal /\ f.confirmed = TRUE
      /\ f.task = r.task /\ f.attempts = r.attempts /\ f.step = r.step /\ f.heard = r.heard
      /\ f.agreed = r.heard
    BY DEF RunOK, Formed, RunFields
<1> HIDE DEF f
<1>2. Formed(f)
    BY <1>1 DEF RunOK, Formed
<1>3. Attested(f, r.heard)
    BY <1>1 DEF Attested, RunOK
<1>4. Follows(r, f)
    BY <1>1, <1>2, <1>3 DEF Follows, RunOK
<1> QED
    BY <1>4 DEF f

-----------------------------------------------------------------------------
(* The engine before a task is moved forward.                                 *)

(* Another run, or the same one further on, in the same engine.               *)
RunOnly(e, f) ==
    /\ DOMAIN f = EngineFields /\ f.phase = e.phase /\ f.suspended = e.suspended
    /\ f.next = e.next /\ f.resumed = e.resumed /\ f.out = e.out

LEMMA CarriesOn ==
    ASSUME NEW e0, NEW e, NEW f, Base(e0, e), RunOnly(e, f), Follows(e.run, f.run)
    PROVE  Base(e0, f) /\ (Quiet(e0, e) => Quiet(e0, f)) /\ (InRun(f) <=> InRun(e))
<1>1. Sound(e0, f)
    BY DEF Base, Sound, RunOnly, Follows
<1>2. InRun(f) <=> InRun(e)
    BY DEF Follows, InRun
<1>3. Idle(f)
    BY <1>2 DEF Base, Idle, RunOnly
<1>4. Base(e0, f)
    BY <1>1, <1>3 DEF Base, RunOnly
<1>5. Still(e0, e) => Still(e0, f)
    BY <1>2 DEF Follows, Still, Executing
<1> QED
    BY <1>2, <1>4, <1>5 DEF Quiet

LEMMA BeginsAnew ==
    ASSUME NEW e0, NEW e, NEW f, Base(e0, e), RunOnly(e, f), RunOK(f.run), f.run.task # None,
           f.run.step # "executing"
    PROVE  Quiet(e0, f)
<1>1. Sound(e0, f)
    BY DEF Base, Sound, RunOnly
<1>2. Idle(f) /\ Still(e0, f)
    BY DEF Idle, InRun, Still, Executing
<1> QED
    BY <1>1, <1>2 DEF Quiet, Base, RunOnly

(* The missing details filled in: the read-back and the yes stand.            *)
LEMMA FilledOK ==
    ASSUME NEW e0, NEW e, Base(e0, e), NEW from
    PROVE  /\ Base(e0, Filled(e, from)) /\ (Quiet(e0, e) => Quiet(e0, Filled(e, from)))
           /\ (InRun(Filled(e, from)) <=> InRun(e)) /\ RunOnly(e, Filled(e, from))
<1> DEFINE sl == [s \in Slots |-> IF s \in SlotsOf[e.run.task] \ Has(e.run) THEN Given(from[s], FALSE)
                                  ELSE e.run.slots[s]]
           f == Filled(e, from)
<1>1. DOMAIN e = EngineFields /\ RunOK(e.run)
    BY DEF Base, Sound
<1>2. RunOnly(e, f) /\ f.run = [e.run EXCEPT !.slots = sl]
    BY <1>1 DEF Filled, RunOnly, EngineFields
<1>3. DOMAIN sl = Slots
    OBVIOUS
<1>4. \A s \in Slots : /\ DOMAIN sl[s] = StateFields
                       /\ sl[s].by = "said" => sl[s].val = e.run.slots[s].val /\ e.run.slots[s].by = "said"
    BY <1>1 DEF Given, StateFields, RunOK, Formed
<1> HIDE DEF sl, f
<1>5. Follows(e.run, f.run)
    BY <1>1, <1>2, <1>3, <1>4, SlotsGiven
<1>6. /\ Base(e0, f) /\ (Quiet(e0, e) => Quiet(e0, f)) /\ (InRun(f) <=> InRun(e)) /\ RunOnly(e, f)
    BY <1>2, <1>5, CarriesOn
<1> QED
    BY <1>6 DEF f

-----------------------------------------------------------------------------
(* Moving a task forward: at most one request, and for the run that waits.    *)

Matches(q, r) == q.id = r.id /\ q.task = r.task /\ q.n = r.attempts
AgreedTo(q, r) == q.task \in Confirms => \A s \in q.said \ {NameSlot} : q.vals[s] = r.agreed[s]

Requested(e0, e) ==
    LET q == e.out[1]
    IN  /\ Executing(e) /\ e.out = <<q>> /\ Matches(q, e.run) /\ AgreedTo(q, e.run)
        /\ q.id \in Nat /\ e0.next <= q.id /\ q.id < e.next

Done(e0, e) ==
    /\ Sound(e0, e) /\ Idle(e) /\ e.resumed = FALSE
    /\ \/ e.out = <<>> /\ (e.phase = "active" => Still(e0, e))
       \/ Requested(e0, e)

\* A run was resumed and is moved forward next, with at most k others waiting.
Mid(e0, e, k) ==
    \/ Done(e0, e)
    \/ /\ e.resumed = TRUE /\ Sound(e0, e) /\ InRun(e)
       /\ e.out = <<>> /\ Len(e.suspended) <= k

(* A turn in which nothing moved forward is done as it is.                    *)
LEMMA QuietIsDone ==
    ASSUME NEW e0, NEW e, Quiet(e0, e)
    PROVE  Done(e0, e)
BY DEF Quiet, Base, Done

LEMMA NotWaitingIsDone ==
    ASSUME NEW e0, NEW e, Base(e0, e), e.run.step # "executing"
    PROVE  Done(e0, e)
BY DEF Base, Done, Still, Executing

(* The run is over: the one put aside last goes on.                           *)
LEMMA FinishOnceOK ==
    ASSUME NEW e0, NEW e, Sound(e0, e), e.out = <<>>, e.resumed = FALSE, NEW outcome,
           NEW k \in Int, Len(e.suspended) <= k
    PROVE  Mid(e0, FinishOnce(e, outcome), k - 1)
<1> DEFINE n == Len(e.suspended)
           c == CloseRun(e, outcome)
           f == FinishOnce(e, outcome)
<1>1. DOMAIN e = EngineFields /\ Waiting(e.suspended)
    BY DEF Sound
<1>2. n \in Nat /\ (n = 0 => e.suspended = <<>>)
    BY <1>1, ListedNone DEF Waiting
<1>3. /\ DOMAIN c = EngineFields /\ c.run = NoRun /\ c.suspended = e.suspended /\ c.phase = e.phase
      /\ c.next = e.next /\ c.out = e.out /\ c.resumed = e.resumed
    BY <1>1 DEF CloseRun, EngineFields
<1>4. f = IF n > 0
          THEN [c EXCEPT !.run = e.suspended[n], !.suspended = SubSeq(@, 1, n - 1), !.resumed = TRUE]
          ELSE IF e.run.task \in Ends /\ outcome = "success" THEN Goodbye(c) ELSE OfferMore(c)
    BY DEF FinishOnce
<1> HIDE DEF c, f
<1>5. CASE n > 0
    <2>1. /\ DOMAIN f = EngineFields /\ f.run = e.suspended[n] /\ f.suspended = SubSeq(e.suspended, 1, n - 1)
          /\ f.phase = e.phase /\ f.next = e.next /\ f.out = e.out /\ f.resumed = TRUE
        BY <1>3, <1>4, <1>5 DEF EngineFields
    <2>2. /\ Listed(f.suspended) /\ Len(f.suspended) = n - 1
          /\ \A i \in 1..Len(f.suspended) : f.suspended[i] = e.suspended[i]
        BY <1>1, <1>5, <2>1, ListedFront DEF Waiting
    <2> HIDE DEF n
    <2>3. n \in 1..n /\ \A i \in 1..Len(f.suspended) : i \in 1..n
        BY <1>2, <1>5, <2>2
    <2>4. Waiting(f.suspended)
        BY <1>1, <2>2, <2>3 DEF Waiting, n
    <2>5. RunOK(f.run) /\ f.run.task # None
        BY <1>1, <2>1, <2>3 DEF Waiting, n
    <2>6. Len(f.suspended) <= k - 1
        BY <1>2, <2>2 DEF n
    <2>7. Sound(e0, f)
        BY <2>1, <2>4, <2>5 DEF Sound
    <2>8. Mid(e0, f, k - 1)
        BY <2>1, <2>5, <2>6, <2>7 DEF Mid, InRun
    <2> QED
        BY <2>8 DEF f
<1>6. CASE ~(n > 0)
    <2>1. e.suspended = <<>>
        BY <1>2, <1>6
    <2>2. f = Goodbye(c) \/ f = OfferMore(c)
        BY <1>4, <1>6
    <2>3. /\ DOMAIN f = EngineFields /\ f.run = NoRun /\ f.suspended = <<>> /\ f.phase \in {e.phase, "ending"}
          /\ f.next = e.next /\ f.out = <<>> /\ f.resumed = FALSE
        BY <1>3, <2>1, <2>2 DEF EngineFields, Goodbye, OfferMore
    <2>4. RunOK(NoRun) /\ NoRun.task = None
        BY PipelineRunOK DEF NoRun
    <2>5. Sound(e0, f)
        BY <1>1, <2>1, <2>3, <2>4 DEF Sound
    <2>6. Idle(f) /\ Still(e0, f)
        BY <2>3, <2>4 DEF Idle, Still, Executing, InRun
    <2>7. Mid(e0, f, k - 1)
        BY <2>3, <2>5, <2>6 DEF Mid, Done
    <2> QED
        BY <2>7 DEF f
<1> QED
    BY <1>5, <1>6

(* The steps a run takes back to the caller.                                  *)
LEMMA StepsBack ==
    ASSUME NEW e0, NEW e, Base(e0, e), NEW x \in {"collecting", "confirming_slot"}, NEW y
    PROVE  LET f == [e EXCEPT !.run = [e.run EXCEPT !.step = x, !.slot = y]]
           IN  Quiet(e0, f) /\ RunOnly(e, f) /\ f.run.step = x
<1> DEFINE f == [e EXCEPT !.run = [e.run EXCEPT !.step = x, !.slot = y]]
<1>1. DOMAIN e = EngineFields /\ RunOK(e.run)
    BY DEF Base, Sound
<1>2. RunOnly(e, f) /\ f.run = [e.run EXCEPT !.step = x, !.slot = y]
    BY <1>1 DEF RunOnly, EngineFields
<1>3. f.run.step = x
    BY <1>1, <1>2 DEF RunOK, Formed, RunFields
<1>4. Follows(e.run, f.run)
    <2>1. Follows(e.run, [e.run EXCEPT !.step = x, !.slot = y])
        BY <1>1, StepOK
    <2> QED
        BY <1>2, <2>1, Zenon
<1> HIDE DEF f
<1>5. Base(e0, f)
    BY <1>2, <1>4, CarriesOn
<1>6. Quiet(e0, f)
    BY <1>3, <1>5 DEF Quiet, Still, Executing
<1> QED
    BY <1>2, <1>3, <1>6 DEF f

LEMMA AskOK ==
    ASSUME NEW e0, NEW e, Base(e0, e)
    PROVE  LET f == Ask(e)
           IN  /\ Base(e0, f) /\ (Quiet(e0, e) => Quiet(e0, f)) /\ RunOnly(e, f)
               /\ f.run = e.run /\ f.desk = e.desk
<1> DEFINE f == Ask(e)
<1>1. DOMAIN e = EngineFields
    BY DEF Base, Sound
<1>2. RunOnly(e, f) /\ f.run = e.run /\ f.desk = e.desk
    BY <1>1 DEF Ask, RunOnly, EngineFields
<1> HIDE DEF f
<1>3. Follows(e.run, f.run)
    BY <1>2 DEF Follows, Base, Sound
<1>4. Base(e0, f) /\ (Quiet(e0, e) => Quiet(e0, f))
    BY <1>2, <1>3, CarriesOn
<1> QED
    BY <1>2, <1>4 DEF f

(* A read-back waits for a yes to the values there are.                       *)
LEMMA ReadsBack ==
    ASSUME NEW e0, NEW e, Base(e0, e), NEW named
    PROVE  LET f == ReadOut(e, named)
           IN  Quiet(e0, f) /\ f.run.step = "awaiting_confirmation" /\ RunOnly(e, f)
<1> DEFINE f == ReadOut(e, named)
           h == [s \in Slots |-> IF s # NameSlot \/ named THEN e.run.slots[s].val ELSE None]
<1>1. DOMAIN e = EngineFields /\ RunOK(e.run)
    BY DEF Base, Sound
<1>2. RunOnly(e, f) /\ f.run = [e.run EXCEPT !.step = "awaiting_confirmation", !.slot = None, !.heard = h]
    BY <1>1 DEF ReadOut, Step, RunOnly, EngineFields
<1>3. f.run.step = "awaiting_confirmation"
    BY <1>1, <1>2 DEF RunOK, Formed, RunFields
<1>4. \A s \in Slots \ {NameSlot} : h[s] = e.run.slots[s].val
    OBVIOUS
<1> HIDE DEF f, h
<1>5. Follows(e.run, f.run)
    <2>1. Follows(e.run, [e.run EXCEPT !.step = "awaiting_confirmation", !.slot = None, !.heard = h])
        BY <1>1, <1>4, ReadOutOK
    <2> QED
        BY <1>2, <2>1, Zenon
<1>6. Base(e0, f)
    BY <1>2, <1>5, CarriesOn
<1>7. Quiet(e0, f)
    BY <1>3, <1>6 DEF Quiet, Still, Executing
<1> QED
    BY <1>2, <1>3, <1>7 DEF f

(* The action runs: what goes out was agreed to, if the task needs a yes.     *)
LEMMA RunActionOK ==
    ASSUME NEW e0, NEW e, Base(e0, e), InRun(e), e.run.task \in Confirms => e.run.confirmed = TRUE
    PROVE  Done(e0, RunAction(e))
<1> DEFINE f == RunAction(e)
           q == ActionInput(e, e.next, 1)
           r == [e.run EXCEPT !.step = "executing", !.slot = None, !.id = e.next, !.attempts = 1, !.consent = FALSE]
<1>1. DOMAIN e = EngineFields /\ RunOK(e.run) /\ DOMAIN e.run = RunFields /\ e.next \in Nat
    BY DEF Base, Sound, RunOK, Formed
<1>2. /\ DOMAIN f = EngineFields /\ f.phase = e.phase /\ f.suspended = e.suspended /\ f.resumed = e.resumed
      /\ f.next = e.next + 1 /\ f.out = Append(e.out, q) /\ f.run = r
    BY <1>1 DEF RunAction, EngineFields
<1>3. /\ DOMAIN r = RunFields /\ r.step = "executing" /\ r.id = e.next /\ r.attempts = 1 /\ r.task = e.run.task
      /\ r.slots = e.run.slots /\ r.journal = e.run.journal /\ r.confirmed = e.run.confirmed
      /\ r.agreed = e.run.agreed
    BY <1>1 DEF RunFields
<1>4. /\ q.id = e.next /\ q.task = e.run.task /\ q.n = 1
      /\ q.vals = [s \in Slots |-> e.run.slots[s].val]
      /\ \A s \in q.said : s \in Slots /\ e.run.slots[s].by = "said"
    BY DEF ActionInput, ValuesOf, Has
<1>5. f.out = <<q>>
    BY <1>2 DEF Base
<1> HIDE DEF f, q, r
<1>6. RunOK(r)
    <2>1. Formed(r)
        BY <1>1, <1>3 DEF RunOK, Formed
    <2>2. Attested(e.run, e.run.agreed) => Attested(r, r.agreed)
        BY <1>3 DEF Attested
    <2> QED
        BY <1>1, <1>3, <2>1, <2>2 DEF RunOK
<1>7. Sound(e0, f)
    BY <1>1, <1>2, <1>6 DEF Base, Sound
<1>8. Executing(f) /\ Idle(f) /\ f.resumed = FALSE
    BY <1>2, <1>3 DEF Executing, Idle, InRun, Base
<1>9. AgreedTo(q, f.run)
    <2>1. SUFFICES ASSUME e.run.task \in Confirms, NEW s \in q.said \ {NameSlot}
                   PROVE  q.vals[s] = r.agreed[s]
        BY <1>2, <1>4 DEF AgreedTo
    <2>2. Attested(e.run, e.run.agreed)
        BY <1>1, <2>1 DEF RunOK
    <2> QED
        BY <1>3, <1>4, <2>2 DEF Attested
<1>10. Matches(q, f.run)
    BY <1>2, <1>3, <1>4 DEF Matches
<1>11. q.id \in Nat /\ e0.next <= q.id /\ q.id < f.next
    BY <1>1, <1>2, <1>4 DEF Base, Sound
<1>12. f.out[1] = q
    BY <1>5
<1>13. Requested(e0, f)
    BY <1>5, <1>8, <1>9, <1>10, <1>11, <1>12 DEF Requested
<1>14. Done(e0, f)
    BY <1>7, <1>8, <1>13 DEF Done
<1> QED
    BY <1>14 DEF f

LEMMA AdvanceFilledOK ==
    ASSUME NEW e0, NEW e, Base(e0, e), InRun(e), NEW k \in Int, Len(e.suspended) <= k
    PROVE  Mid(e0, AdvanceFilled(e), k - 1)
<1> DEFINE f == AdvanceFilled(e)
<1>1. DOMAIN e = EngineFields /\ RunOK(e.run) /\ e.run.confirmed \in BOOLEAN
    BY DEF Base, Sound, RunOK, Formed
<1>2. CASE Unsure(e.run) # {}
    <2> DEFINE y == CHOOSE s \in Unsure(e.run) : TRUE
               g == [e EXCEPT !.run = [e.run EXCEPT !.step = "confirming_slot", !.slot = None]]
    <2>1. f = [g EXCEPT !.run.slot = y]
        BY <1>2 DEF AdvanceFilled, Step
    <2>2. Quiet(e0, g)
        BY StepsBack
    <2> HIDE DEF f, y, g
    <2>3. DOMAIN g = EngineFields /\ RunOK(g.run) /\ Base(e0, g)
        BY <2>2 DEF Quiet, Base, Sound
    <2>4. RunOnly(g, f) /\ f.run = [g.run EXCEPT !.slot = y]
        BY <2>1, <2>3 DEF RunOnly, EngineFields
    <2>5. Follows(g.run, f.run)
        BY <2>3, <2>4, SlotFieldOK
    <2>6. Quiet(e0, f)
        BY <2>2, <2>3, <2>4, <2>5, CarriesOn
    <2> QED
        BY <2>6, QuietIsDone DEF Mid, f
<1>3. CASE Unsure(e.run) = {} /\ ~Complete(e)
    <2> DEFINE g == [e EXCEPT !.run = [e.run EXCEPT !.step = "collecting", !.slot = None]]
    <2>1. f = Ask(Step(e, "collecting"))
        BY <1>3 DEF AdvanceFilled
    <2>2. Step(e, "collecting") = g
        BY <1>1 DEF Step, EngineFields
    <2>3. Quiet(e0, g)
        BY StepsBack
    <2> HIDE DEF f, g
    <2>4. Quiet(e0, Ask(g))
        BY <2>3, AskOK DEF Quiet
    <2> QED
        BY <2>1, <2>2, <2>4, QuietIsDone DEF Mid, f
<1>4. CASE Unsure(e.run) = {} /\ Complete(e) /\ e.run.task \in Confirms /\ ~e.run.confirmed
    <2>1. f = ReadOut(e, FALSE)
        BY <1>4 DEF AdvanceFilled
    <2>2. Quiet(e0, ReadOut(e, FALSE))
        BY ReadsBack
    <2> QED
        BY <2>1, <2>2, QuietIsDone DEF Mid
<1>5. CASE /\ Unsure(e.run) = {} /\ Complete(e) /\ ~(e.run.task \in Confirms /\ ~e.run.confirmed)
           /\ e.run.task \notin Changes /\ FailedKey(e) \in e.failed
    <2> DEFINE g == [e EXCEPT !.next = @ + 1]
    <2>1. f = FinishOnce(g, "failed")
        BY <1>5 DEF AdvanceFilled
    <2>2. /\ DOMAIN g = EngineFields /\ g.next = e.next + 1 /\ g.run = e.run /\ g.suspended = e.suspended
          /\ g.phase = e.phase /\ g.out = e.out /\ g.resumed = e.resumed
        BY <1>1 DEF EngineFields
    <2> HIDE DEF f, g
    <2>3. Sound(e0, g) /\ g.out = <<>> /\ g.resumed = FALSE /\ Len(g.suspended) <= k
        BY <2>2 DEF Base, Sound
    <2>4. Mid(e0, FinishOnce(g, "failed"), k - 1)
        BY <2>3, FinishOnceOK
    <2> QED
        BY <2>1, <2>4 DEF f
<1>6. CASE /\ Unsure(e.run) = {} /\ Complete(e) /\ ~(e.run.task \in Confirms /\ ~e.run.confirmed)
           /\ ~(e.run.task \notin Changes /\ FailedKey(e) \in e.failed)
    <2>1. f = RunAction(e)
        BY <1>6 DEF AdvanceFilled
    <2>2. e.run.task \in Confirms => e.run.confirmed = TRUE
        BY <1>1, <1>6
    <2>3. Done(e0, RunAction(e))
        BY <2>2, RunActionOK
    <2> HIDE DEF f
    <2> QED
        BY <2>1, <2>3 DEF Mid, f
<1> QED
    BY <1>2, <1>3, <1>4, <1>5, <1>6

LEMMA AdvanceOnceOK ==
    ASSUME NEW e0, NEW e, Base(e0, e), NEW k \in Int, Len(e.suspended) <= k
    PROVE  Mid(e0, AdvanceOnce(e), k - 1)
<1>1. CASE InRun(e)
    <2> DEFINE g == FillDefaults(e)
    <2>1. Base(e0, g) /\ InRun(g) /\ RunOnly(e, g)
        BY <1>1, FilledOK DEF FillDefaults
    <2> HIDE DEF g
    <2>2. Len(g.suspended) <= k
        BY <2>1 DEF RunOnly
    <2>3. Mid(e0, AdvanceFilled(g), k - 1)
        BY <2>1, <2>2, AdvanceFilledOK
    <2> QED
        BY <1>1, <2>3 DEF AdvanceOnce, g
<1>2. CASE ~InRun(e)
    <2>1. Quiet(e0, e)
        BY <1>2 DEF Quiet, Still, Executing
    <2> QED
        BY <1>2, <2>1, QuietIsDone DEF AdvanceOnce, Mid
<1> QED
    BY <1>1, <1>2

LEMMA ResumeOK ==
    ASSUME NEW e0, NEW e, NEW k \in Int, k <= MaxSuspended, Mid(e0, e, k)
    PROVE  Mid(e0, Resume(e), k - 1)
<1>1. CASE Done(e0, e)
    <2>1. Resume(e) = e
        BY <1>1 DEF Resume, Done
    <2> QED
        BY <1>1, <2>1 DEF Mid
<1>2. CASE e.resumed = TRUE /\ Sound(e0, e) /\ InRun(e) /\ e.out = <<>> /\ Len(e.suspended) <= k
    <2> DEFINE g == [e EXCEPT !.resumed = FALSE]
    <2>1. DOMAIN e = EngineFields
        BY <1>2 DEF Sound
    <2>2. /\ DOMAIN g = EngineFields /\ g.next = e.next /\ g.run = e.run /\ g.suspended = e.suspended
          /\ g.phase = e.phase /\ g.out = e.out /\ g.resumed = FALSE
        BY <2>1 DEF EngineFields
    <2> HIDE DEF g
    <2>3. Sound(e0, g)
        BY <1>2, <2>2 DEF Sound
    <2>4. Idle(g)
        BY <1>2, <2>2 DEF Idle, InRun
    <2>5. Len(g.suspended) \in Nat
        BY <2>3, ListedNone DEF Sound, Waiting
    <2>6. Len(g.suspended) <= k /\ Len(g.suspended) <= MaxSuspended + 1
        BY <1>2, <2>2, <2>5, ConfigAssumption DEF ConfigAssumption
    <2>7. Base(e0, g)
        BY <1>2, <2>2, <2>3, <2>4, <2>6 DEF Base
    <2>8. Mid(e0, AdvanceOnce(g), k - 1)
        BY <2>6, <2>7, AdvanceOnceOK
    <2> QED
        BY <1>2, <2>8 DEF Resume, g
<1> QED
    BY <1>1, <1>2 DEF Mid

(* As often as runs wait, and then no more.                                   *)
LEMMA SettleOK ==
    ASSUME NEW e0, NEW e, Mid(e0, e, MaxSuspended)
    PROVE  Done(e0, Settle(e))
<1>1. MaxSuspended \in Int /\ MaxSuspended <= 2
    BY ConfigAssumption
<1> DEFINE a == Resume(e)
           b == Resume(a)
           c == Resume(b)
<1>2. Mid(e0, a, MaxSuspended - 1)
    BY <1>1, ResumeOK
<1> HIDE DEF a
<1>3. Mid(e0, b, MaxSuspended - 2)
    <2>1. MaxSuspended - 1 \in Int /\ MaxSuspended - 1 <= MaxSuspended /\ (MaxSuspended - 1) - 1 = MaxSuspended - 2
        BY <1>1
    <2>2. Mid(e0, b, (MaxSuspended - 1) - 1)
        BY <1>2, <2>1, ResumeOK
    <2> HIDE DEF b
    <2> QED
        BY <2>1, <2>2
<1> HIDE DEF b
<1>4. Mid(e0, c, MaxSuspended - 3)
    <2>1. MaxSuspended - 2 \in Int /\ MaxSuspended - 2 <= MaxSuspended /\ (MaxSuspended - 2) - 1 = MaxSuspended - 3
        BY <1>1
    <2>2. Mid(e0, c, (MaxSuspended - 2) - 1)
        BY <1>3, <2>1, ResumeOK
    <2> HIDE DEF c
    <2> QED
        BY <2>1, <2>2
<1> HIDE DEF c
<1>5. Done(e0, c)
    <2>1. Sound(e0, c) => Len(c.suspended) \in Nat
        BY ListedNone DEF Sound, Waiting
    <2>2. ~(Len(c.suspended) \in Nat /\ Len(c.suspended) <= MaxSuspended - 3)
        BY <1>1
    <2> QED
        BY <1>4, <2>1, <2>2 DEF Mid
<1> QED
    BY <1>5 DEF Settle, a, b, c

LEMMA AdvanceOK ==
    ASSUME NEW e0, NEW e, Base(e0, e)
    PROVE  Done(e0, Advance(e))
<1>1. MaxSuspended + 1 \in Int /\ (MaxSuspended + 1) - 1 = MaxSuspended
    BY ConfigAssumption
<1>2. Mid(e0, AdvanceOnce(e), (MaxSuspended + 1) - 1)
    BY <1>1, AdvanceOnceOK DEF Base
<1>3. Mid(e0, AdvanceOnce(e), MaxSuspended)
    BY <1>1, <1>2
<1> QED
    BY <1>3, SettleOK DEF Advance

LEMMA FinishRunOK ==
    ASSUME NEW e0, NEW e, Base(e0, e), NEW outcome
    PROVE  Done(e0, FinishRun(e, outcome))
<1>1. MaxSuspended + 1 \in Int /\ (MaxSuspended + 1) - 1 = MaxSuspended
    BY ConfigAssumption
<1>2. Mid(e0, FinishOnce(e, outcome), (MaxSuspended + 1) - 1)
    BY <1>1, FinishOnceOK DEF Base
<1>3. Mid(e0, FinishOnce(e, outcome), MaxSuspended)
    BY <1>1, <1>2
<1> QED
    BY <1>3, SettleOK DEF FinishRun

-----------------------------------------------------------------------------
(* Leaving the call, reading back, the rules of the business.                 *)

(* A call that is left keeps what it asked for.                               *)
LEMMA LeavesOK ==
    ASSUME NEW e0, NEW e, Sound(e0, e), e.resumed = FALSE, e.out = <<>> \/ Requested(e0, e),
           NEW p \in {"ending", "handing_off"}, NEW l
    PROVE  Done(e0, [e EXCEPT !.phase = p, !.last = l])
<1> DEFINE f == [e EXCEPT !.phase = p, !.last = l]
<1>1. /\ DOMAIN f = EngineFields /\ f.next = e.next /\ f.run = e.run /\ f.suspended = e.suspended
      /\ f.phase = p /\ f.out = e.out /\ f.resumed = e.resumed
    BY DEF Sound, EngineFields
<1> HIDE DEF f
<1>2. Sound(e0, f) /\ Idle(f)
    BY <1>1 DEF Sound, Idle
<1>3. Requested(e0, e) => Requested(e0, f)
    BY <1>1 DEF Requested, Executing, InRun
<1>4. Done(e0, f)
    BY <1>1, <1>2, <1>3 DEF Done
<1> QED
    BY <1>4 DEF f

LEMMA GoodbyeOK ==
    ASSUME NEW e0, NEW e, Done(e0, e) \/ Base(e0, e)
    PROVE  Done(e0, Goodbye(e))
BY LeavesOK DEF Goodbye, Done, Base

(* To a person: there, or the end, or the task goes on.                       *)
LEMMA HandOffOK ==
    ASSUME NEW e0, NEW e, Base(e0, e), NEW reason
    PROVE  Done(e0, HandOff(e, reason))
<1>1. Done(e0, [e EXCEPT !.phase = "handing_off", !.last = "handoff"])
    BY LeavesOK DEF Base
<1>2. Done(e0, Goodbye(e)) /\ Done(e0, Advance(e))
    BY GoodbyeOK, AdvanceOK
<1>3. \/ HandOff(e, reason) = [e EXCEPT !.phase = "handing_off", !.last = "handoff"]
      \/ HandOff(e, reason) = Goodbye(e)
      \/ HandOff(e, reason) = Advance(e)
    BY DEF HandOff
<1> QED
    BY <1>1, <1>2, <1>3, Zenon

LEMMA ForceHandoffOK ==
    ASSUME NEW e0, NEW e, Base(e0, e)
    PROVE  Done(e0, ForceHandoff(e))
<1> DEFINE h == HandOff(e, "forced")
<1>1. Done(e0, h)
    BY HandOffOK
<1> HIDE DEF h
<1>2. Done(e0, Goodbye(h))
    BY <1>1, GoodbyeOK
<1> QED
    BY <1>1, <1>2 DEF ForceHandoff, OrGoodbye, h

LEMMA FallbackOK ==
    ASSUME NEW e0, NEW e, Quiet(e0, e), NEW ladderOver
    PROVE  Done(e0, Fallback(e, ladderOver))
<1>1. Done(e0, HandOff(e, "not_understood")) /\ Done(e0, Advance(e)) /\ Done(e0, e)
    BY HandOffOK, AdvanceOK, QuietIsDone DEF Quiet
<1>2. \/ Fallback(e, ladderOver) = HandOff(e, "not_understood")
      \/ Fallback(e, ladderOver) = Advance(e)
      \/ Fallback(e, ladderOver) = e
    BY DEF Fallback
<1> QED
    BY <1>1, <1>2, Zenon

LEMMA ReadBackOK ==
    ASSUME NEW e0, NEW e, Quiet(e0, e)
    PROVE  Done(e0, ReadBack(e))
<1>1. CASE InRun(e)
    <2> DEFINE g == FillDefaults(e)
               o == ReadOut(g, TRUE)
               f == [o EXCEPT !.run.confirmed = FALSE]
    <2>1. Quiet(e0, g) /\ Base(e0, g)
        BY FilledOK DEF FillDefaults, Quiet
    <2> HIDE DEF g
    <2>2. Done(e0, Ask(g)) /\ Done(e0, Advance(g))
        BY <2>1, AskOK, AdvanceOK, QuietIsDone
    <2>3. Quiet(e0, o) /\ Base(e0, o)
        BY <2>1, ReadsBack DEF Quiet
    <2> HIDE DEF o
    <2>4. DOMAIN o = EngineFields /\ RunOK(o.run)
        BY <2>3 DEF Base, Sound
    <2>5. RunOnly(o, f) /\ f.run = [o.run EXCEPT !.confirmed = FALSE]
        BY <2>4 DEF RunOnly, EngineFields
    <2> HIDE DEF f
    <2>6. Follows(o.run, f.run)
        BY <2>4, <2>5, UnconfirmedOK
    <2>7. Done(e0, f)
        BY <2>3, <2>5, <2>6, CarriesOn, QuietIsDone
    <2>8. ReadBack(e) = Ask(g) \/ ReadBack(e) = f \/ ReadBack(e) = Advance(g)
        BY <1>1 DEF ReadBack, ReadBackFilled, f, o, g
    <2> QED
        BY <2>2, <2>7, <2>8, Zenon
<1>2. CASE ~InRun(e)
    BY <1>2, QuietIsDone DEF ReadBack
<1> QED
    BY <1>1, <1>2

(* A group too large sets the car: the yes is taken back if it was another.   *)
LEMMA SetCarOK ==
    ASSUME NEW e0, NEW e, Quiet(e0, e)
    PROVE  Quiet(e0, SetCar(e)) /\ RunOnly(e, SetCar(e))
<1> DEFINE f == SetCar(e)
<1>1. DOMAIN e = EngineFields /\ RunOK(e.run) /\ Base(e0, e)
    BY DEF Quiet, Base, Sound
<1>2. CASE ~RuleHit(e, "van", VanFor)
    BY <1>1, <1>2 DEF SetCar, RunOnly, Quiet
<1>3. CASE RuleHit(e, "van", VanFor)
    <2> DEFINE r == Fire(e.run, "van")
               st == Given(Van, TRUE)
    <2>1. RunOnly(e, f) /\ f.run = Set(r, CarSlot, st)
        BY <1>1, <1>3 DEF SetCar, RunOnly, EngineFields
    <2>2. Follows(e.run, r)
        BY <1>1, FiredOK DEF Fire
    <2>3. DOMAIN st = StateFields /\ st.by = "given" /\ CarSlot \in Slots
        BY ConfigAssumption DEF Given, StateFields
    <2> HIDE DEF r, st, f
    <2>4. Follows(r, f.run)
        BY <2>1, <2>2, <2>3, SetGivenOK DEF Follows
    <2>5. Follows(e.run, f.run)
        BY <2>2, <2>4 DEF Follows
    <2>6. Quiet(e0, f)
        BY <1>1, <2>1, <2>5, CarriesOn
    <2> QED
        BY <2>1, <2>6 DEF f
<1> QED
    BY <1>2, <1>3

LEMMA TakeOverOK ==
    ASSUME NEW e0, NEW e, Quiet(e0, e)
    PROVE  Done(e0, TakeOver(e))
<1>1. DOMAIN e = EngineFields /\ RunOK(e.run) /\ Base(e0, e)
    BY DEF Quiet, Base, Sound
<1>2. CASE RuleHit(e, "person", PersonFor)
    <2> DEFINE g == [e EXCEPT !.run = Fire(@, "person")]
    <2>1. RunOnly(e, g) /\ g.run = Fire(e.run, "person")
        BY <1>1 DEF RunOnly, EngineFields
    <2>2. Follows(e.run, Fire(e.run, "person"))
        BY <1>1, FiredOK DEF Fire
    <2> HIDE DEF g
    <2>3. Base(e0, g)
        BY <1>1, <2>1, <2>2, CarriesOn
    <2>4. Done(e0, HandOff(g, "rule"))
        BY <2>3, HandOffOK
    <2> QED
        BY <1>2, <2>4 DEF TakeOver, g
<1>3. CASE ~RuleHit(e, "person", PersonFor)
    <2> DEFINE r == Fire(e.run, "refused")
               c == Clear(r, GroupSlot)
               g == [e EXCEPT !.run = [c EXCEPT !.step = "collecting", !.slot = None]]
    <2>1. RunOnly(e, g) /\ g.run = [c EXCEPT !.step = "collecting", !.slot = None]
        BY <1>1 DEF RunOnly, EngineFields
    <2>2. TakeOver(e) = Ask(g)
        BY <1>3 DEF TakeOver
    <2>3. Follows(e.run, r)
        BY <1>1, FiredOK DEF Fire
    <2> HIDE DEF r
    <2>4. Follows(r, c)
        BY <2>3, ClearOK DEF Follows
    <2> HIDE DEF c
    <2>5. Follows(c, [c EXCEPT !.step = "collecting", !.slot = None])
        BY <2>4, StepOK DEF Follows
    <2>6. Follows(c, g.run)
        BY <2>1, <2>5, Zenon
    <2> HIDE DEF g
    <2>7. Follows(e.run, g.run)
        BY <2>3, <2>4, <2>6 DEF Follows
    <2>8. Quiet(e0, g) /\ Base(e0, g)
        BY <1>1, <2>1, <2>7, CarriesOn
    <2> QED
        BY <2>2, <2>8, AskOK, QuietIsDone
<1> QED
    BY <1>2, <1>3

-----------------------------------------------------------------------------
(* A turn decided by the language model.                                      *)

LEMMA SameRun ==
    ASSUME NEW e0, NEW e, NEW f, Quiet(e0, e), RunOnly(e, f), f.run = e.run
    PROVE  Quiet(e0, f) /\ Base(e0, f)
<1>1. Base(e0, e) /\ Follows(e.run, f.run)
    BY DEF Quiet, Base, Sound, Follows
<1> QED
    BY <1>1, CarriesOn

LEMMA BeginOK ==
    ASSUME NEW e0, NEW e, Quiet(e0, e)
    PROVE  Quiet(e0, Begin(e)) /\ RunOnly(e, Begin(e)) /\ Begin(e).run = e.run
<1>1. RunOnly(e, Begin(e)) /\ Begin(e).run = e.run
    BY DEF Quiet, Base, Sound, Begin, RunOnly, EngineFields
<1> QED
    BY <1>1, SameRun

LEMMA AskOptionalOK ==
    ASSUME NEW e0, NEW e, Quiet(e0, e)
    PROVE  Quiet(e0, AskOptional(e))
<1>1. RunOnly(e, AskOptional(e)) /\ AskOptional(e).run = e.run
    BY DEF Quiet, Base, Sound, AskOptional, RunOnly, EngineFields
<1> QED
    BY <1>1, SameRun

LEMMA OfferMoreOK ==
    ASSUME NEW e0, NEW e, Quiet(e0, e)
    PROVE  Quiet(e0, OfferMore(e))
<1>1. RunOnly(e, OfferMore(e)) /\ OfferMore(e).run = e.run
    BY DEF Quiet, Base, Sound, OfferMore, RunOnly, EngineFields
<1> QED
    BY <1>1, SameRun

(* A task begins with the details of the last one, and with no consent.       *)
LEMMA NewRunOK ==
    ASSUME NEW e, NEW t \in Tasks
    PROVE  RunOK(NewRun(e, t)) /\ NewRun(e, t).task = t /\ NewRun(e, t).step = "collecting"
<1> DEFINE p == PipelineRun(t)
           r == NewRun(e, t)
           sl(i) == [s \in Slots |-> IF s \in SlotsOf[t] THEN Given(e.completed[i].vals[s], FALSE) ELSE Absent]
<1>1. RunOK(p) /\ p.task = t /\ p.step = "collecting"
    BY PipelineRunOK
<1>2. \A i : /\ DOMAIN sl(i) = Slots
             /\ \A s \in Slots : DOMAIN sl(i)[s] = StateFields /\ sl(i)[s].by = "given"
    BY DEF Given, Absent, StateFields
<1>3. r = p \/ \E i : r = [p EXCEPT !.slots = sl(i)]
    BY DEF NewRun
<1> HIDE DEF p, sl
<1>4. ASSUME NEW i PROVE Follows(p, [p EXCEPT !.slots = sl(i)]) /\ [p EXCEPT !.slots = sl(i)].step = p.step
    <2>1. [p EXCEPT !.slots = sl(i)].step = p.step
        BY <1>1 DEF RunOK, Formed, RunFields
    <2> QED
        BY <1>1, <1>2, <2>1, SlotsGiven
<1> HIDE DEF r
<1>5. RunOK(r) /\ r.task = t /\ r.step = "collecting"
    BY <1>1, <1>3, <1>4 DEF Follows
<1> QED
    BY <1>5 DEF r

(* The task under way waits, if it has anything.                              *)
LEMMA SuspendOK ==
    ASSUME NEW e0, NEW e, Quiet(e0, e), Len(e.suspended) <= MaxSuspended
    PROVE  Base(e0, Suspend(e)) /\ Suspend(e).run = e.run
<1> DEFINE f == Suspend(e)
<1>1. DOMAIN e = EngineFields /\ RunOK(e.run) /\ Waiting(e.suspended) /\ Base(e0, e)
    BY DEF Quiet, Base, Sound
<1>2. CASE InRun(e) /\ Has(e.run) # {}
    <2> DEFINE q == Append(e.suspended, e.run)
    <2>1. /\ DOMAIN f = EngineFields /\ f.next = e.next /\ f.run = e.run /\ f.suspended = q
          /\ f.phase = e.phase /\ f.out = e.out /\ f.resumed = e.resumed
        BY <1>1, <1>2 DEF Suspend, EngineFields
    <2>2. /\ Listed(q) /\ Len(q) = Len(e.suspended) + 1 /\ Len(e.suspended) \in Nat
          /\ \A i \in 1..Len(e.suspended) : q[i] = e.suspended[i]
          /\ q[Len(e.suspended) + 1] = e.run
        BY <1>1, ListedAppend DEF Waiting
    <2> HIDE DEF f, q
    <2>3. \A i \in 1..Len(q) : i \in 1..Len(e.suspended) \/ i = Len(e.suspended) + 1
        BY <2>2
    <2>4. Waiting(q)
        BY <1>1, <1>2, <2>2, <2>3 DEF Waiting, InRun
    <2>5. Len(q) <= MaxSuspended + 1
        BY <2>2, ConfigAssumption
    <2>6. Sound(e0, f) /\ Idle(f)
        BY <1>1, <1>2, <2>1, <2>4 DEF Base, Sound, Idle, InRun
    <2>7. Base(e0, f)
        BY <1>1, <2>1, <2>5, <2>6 DEF Base
    <2> QED
        BY <2>1, <2>7 DEF f
<1>3. CASE ~(InRun(e) /\ Has(e.run) # {})
    BY <1>1, <1>3 DEF Suspend
<1> QED
    BY <1>2, <1>3

LEMMA NewTaskOK ==
    ASSUME NEW e0, NEW e, Base(e0, e), NEW t \in Tasks
    PROVE  Quiet(e0, [e EXCEPT !.run = NewRun(e, t)]) /\ [e EXCEPT !.run = NewRun(e, t)].run = NewRun(e, t)
<1> DEFINE f == [e EXCEPT !.run = NewRun(e, t)]
<1>1. RunOnly(e, f) /\ f.run = NewRun(e, t)
    BY DEF Base, Sound, RunOnly, EngineFields
<1>2. RunOK(f.run) /\ f.run.task # None /\ f.run.step # "executing"
    BY <1>1, NewRunOK, ConfigAssumption
<1> HIDE DEF f
<1>3. Quiet(e0, f)
    BY <1>1, <1>2, BeginsAnew
<1> QED
    BY <1>1, <1>3 DEF f

LEMMA TurnTaskOK ==
    ASSUME NEW e0, NEW e, Quiet(e0, e), Len(e.suspended) <= MaxSuspended, NEW t
    PROVE  Quiet(e0, TurnTask(e, t))
<1>1. CASE t \notin Tasks \ {e.run.task}
    BY <1>1 DEF TurnTask
<1>2. CASE t \in Tasks \ {e.run.task}
    <2> DEFINE s == IF Executing(e) THEN e ELSE Suspend(e)
               f == [s EXCEPT !.run = NewRun(s, t)]
    <2>1. Base(e0, s)
        BY SuspendOK DEF Quiet
    <2>2. TurnTask(e, t) = FillFromOtherTasks(f)
        BY <1>2 DEF TurnTask
    <2> HIDE DEF s
    <2>3. Quiet(e0, f)
        BY <1>2, <2>1, NewTaskOK
    <2> HIDE DEF f
    <2>4. Quiet(e0, FillFromOtherTasks(f))
        BY <2>3, FilledOK DEF FillFromOtherTasks, Quiet
    <2> QED
        BY <2>2, <2>4
<1> QED
    BY <1>1, <1>2

(* A value heard.                                                             *)
LEMMA SaidShape ==
    ASSUME NEW v, NEW sure
    PROVE  DOMAIN Said(v, sure) = StateFields
BY DEF Said, StateFields

LEMMA ApplyFillOK ==
    ASSUME NEW e0, NEW e, Quiet(e0, e), InRun(e), NEW s, NEW st, DOMAIN st = StateFields
    PROVE  Quiet(e0, ApplyFill(e, s, st))
<1> DEFINE f == ApplyFill(e, s, st)
<1>1. DOMAIN e = EngineFields /\ RunOK(e.run) /\ Base(e0, e) /\ e.run.task \in Tasks
    BY DEF Quiet, Base, Sound, RunOK, Formed, InRun
<1>2. CASE s \notin SlotsOf[e.run.task]
    BY <1>2 DEF ApplyFill
<1>3. CASE s \in SlotsOf[e.run.task]
    <2>1. s \in Slots
        BY <1>1, <1>3, ConfigAssumption
    <2>2. RunOnly(e, f) /\ f.run = Taking(e.run, s, st)
        BY <1>1, <1>3 DEF ApplyFill, Taking, RunOnly, EngineFields
    <2> HIDE DEF f
    <2>3. Follows(e.run, f.run)
        BY <1>1, <2>1, <2>2, TakenOK
    <2>4. Quiet(e0, f)
        BY <1>1, <2>2, <2>3, CarriesOn
    <2> QED
        BY <2>4 DEF f
<1> QED
    BY <1>2, <1>3

LEMMA DropStalePlaceOK ==
    ASSUME NEW e0, NEW e, Quiet(e0, e), NEW s
    PROVE  Quiet(e0, DropStalePlace(e, s))
<1> DEFINE f == DropStalePlace(e, s)
           sl == [e.run.slots EXCEPT ![s] = Absent]
<1>1. DOMAIN e = EngineFields /\ RunOK(e.run) /\ Base(e0, e)
    BY DEF Quiet, Base, Sound
<1>2. RunOnly(e, f) /\ f.run = [e.run EXCEPT !.slots = sl]
    BY <1>1 DEF DropStalePlace, RunOnly, EngineFields
<1>3. /\ DOMAIN sl = Slots
      /\ \A x \in Slots : /\ DOMAIN sl[x] = StateFields
                          /\ sl[x].by = "said" => sl[x].val = e.run.slots[x].val /\ e.run.slots[x].by = "said"
    BY <1>1 DEF RunOK, Formed, Absent, Given, StateFields
<1> HIDE DEF f, sl
<1>4. Follows(e.run, f.run)
    BY <1>1, <1>2, <1>3, SlotsGiven
<1>5. Quiet(e0, f)
    BY <1>1, <1>2, <1>4, CarriesOn
<1> QED
    BY <1>5 DEF f

(* The run replaced by the same one without a detail.                         *)
LEMMA ClearedOK ==
    ASSUME NEW e0, NEW e, Quiet(e0, e), NEW s
    PROVE  Quiet(e0, [e EXCEPT !.run = Clear(@, s)])
<1> DEFINE f == [e EXCEPT !.run = Clear(@, s)]
<1>1. DOMAIN e = EngineFields /\ RunOK(e.run) /\ Base(e0, e)
    BY DEF Quiet, Base, Sound
<1>2. RunOnly(e, f) /\ f.run = Clear(e.run, s)
    BY <1>1 DEF RunOnly, EngineFields
<1> HIDE DEF f
<1>3. Follows(e.run, f.run)
    BY <1>1, <1>2, ClearOK
<1>4. Quiet(e0, f)
    BY <1>1, <1>2, <1>3, CarriesOn
<1> QED
    BY <1>4 DEF f

LEMMA InferredOK ==
    ASSUME NEW e0, NEW e, Quiet(e0, e), NEW s
    PROVE  Quiet(e0, Inferred(e, s))
<1>1. CASE InRun(e) \/ Infer(s) = {}
    BY <1>1 DEF Inferred
<1>2. CASE ~(InRun(e) \/ Infer(s) = {})
    <2> DEFINE t == CHOOSE t \in Infer(s) : TRUE
    <2>1. t \in Infer(s)
        BY <1>2
    <2>2. t \in Tasks
        BY <2>1 DEF Infer
    <2>3. Inferred(e, s) = [e EXCEPT !.run = NewRun(e, t)]
        BY <1>2 DEF Inferred
    <2> HIDE DEF t
    <2> QED
        BY <2>2, <2>3, NewTaskOK DEF Quiet
<1> QED
    BY <1>1, <1>2

LEMMA TurnFieldsOK ==
    ASSUME NEW e0, NEW e, Quiet(e0, e), NEW in
    PROVE  Quiet(e0, TurnFields(e, in))
<1> DEFINE i == Inferred(e, in.slot)
           st == Said(in.val, TRUE)
<1>1. Quiet(e0, i) /\ DOMAIN st = StateFields
    BY InferredOK, SaidShape
<1> HIDE DEF i, st
<1>2. Quiet(e0, Taken(i, in.slot, st))
    BY <1>1, ApplyFillOK DEF Taken
<1>3. Quiet(e0, DropStalePlace(e, in.slot))
    BY DropStalePlaceOK
<1>4. Quiet(e0, [e EXCEPT !.run = Clear(@, in.slot)])
    BY ClearedOK
<1>5. \/ TurnFields(e, in) = Taken(i, in.slot, st)
      \/ TurnFields(e, in) = DropStalePlace(e, in.slot)
      \/ TurnFields(e, in) = [e EXCEPT !.run = Clear(@, in.slot)]
      \/ TurnFields(e, in) = e
    BY DEF TurnFields, i, st
<1> QED
    BY <1>1, <1>2, <1>3, <1>4, <1>5, Zenon

LEMMA NextQuestionOK ==
    ASSUME NEW e0, NEW e, Quiet(e0, e)
    PROVE  Done(e0, NextQuestion(e))
<1> DEFINE g == FillDefaults(e)
<1>1. Quiet(e0, g)
    BY FilledOK DEF FillDefaults, Quiet
<1> HIDE DEF g
<1>2. Done(e0, AskOptional(g)) /\ Done(e0, ReadBack(g)) /\ Done(e0, e)
    BY <1>1, AskOptionalOK, ReadBackOK, QuietIsDone
<1>3. NextQuestion(e) = AskOptional(g) \/ NextQuestion(e) = ReadBack(g) \/ NextQuestion(e) = e
    BY DEF NextQuestion, NextQuestionFilled, g
<1> QED
    BY <1>2, <1>3, Zenon

(* The yes: to what was read back.                                            *)
LEMMA AgreeOK ==
    ASSUME NEW e0, NEW e, Quiet(e0, e), e.run.step = "awaiting_confirmation"
    PROVE  Base(e0, Agree(e))
<1> DEFINE f == Agree(e)
           sl == [s \in Slots |-> Confirmed(e.run.slots[s])]
           r == [e.run EXCEPT !.confirmed = TRUE, !.agreed = e.run.heard, !.consent = TRUE, !.slots = sl]
<1>1. DOMAIN e = EngineFields /\ RunOK(e.run) /\ Base(e0, e)
    BY DEF Quiet, Base, Sound
<1>2. RunOnly(e, f) /\ f.run = r
    BY <1>1 DEF Agree, RunOnly, EngineFields
<1>3. /\ DOMAIN sl = Slots
      /\ \A s \in Slots : /\ DOMAIN sl[s] = StateFields /\ sl[s].by = e.run.slots[s].by
                          /\ sl[s].val = e.run.slots[s].val
    BY <1>1 DEF Confirmed, RunOK, Formed, StateFields
<1> HIDE DEF f, sl
<1>4. Follows(e.run, r)
    BY <1>1, <1>3, AgreedOK
<1> HIDE DEF r
<1>5. Base(e0, f)
    BY <1>1, <1>2, <1>4, CarriesOn
<1> QED
    BY <1>5 DEF f

LEMMA TurnEndOK ==
    ASSUME NEW e0, NEW e, Quiet(e0, e), NEW in
    PROVE  Done(e0, TurnEnd(e, in))
<1>1. Done(e0, AskOptional(e)) /\ Done(e0, ReadBack(e)) /\ Done(e0, Goodbye(e))
    BY AskOptionalOK, ReadBackOK, GoodbyeOK, QuietIsDone
<1>2. TurnEnd(e, in) = AskOptional(e) \/ TurnEnd(e, in) = ReadBack(e) \/ TurnEnd(e, in) = Goodbye(e)
    BY DEF TurnEnd
<1> QED
    BY <1>1, <1>2, Zenon

LEMMA TurnSubmitOK ==
    ASSUME NEW e0, NEW e, Quiet(e0, e), NEW in, NEW changed
    PROVE  Done(e0, TurnSubmit(e, in, changed))
<1>1. CASE in.how = "yes" /\ ~changed /\ InRun(e) /\ e.run.step = "awaiting_confirmation"
    <2>1. TurnSubmit(e, in, changed) = Advance(Agree(e))
        BY <1>1 DEF TurnSubmit
    <2> QED
        BY <1>1, <2>1, AgreeOK, AdvanceOK
<1>2. CASE ~(in.how = "yes" /\ ~changed /\ InRun(e) /\ e.run.step = "awaiting_confirmation")
    <2>1. TurnSubmit(e, in, changed) = ReadBack(e)
        BY <1>2 DEF TurnSubmit
    <2> QED
        BY <2>1, ReadBackOK
<1> QED
    BY <1>1, <1>2

AgentActs == {"none", "transfer", "end", "submit"}

LEMMA TurnActionOK ==
    ASSUME NEW e0, NEW e, Quiet(e0, e), NEW in, NEW act \in AgentActs, NEW changed
    PROVE  Done(e0, TurnAction(e, in, act, changed))
<1> DEFINE a == Ask(e)
           g == [e EXCEPT !.asking = in.how = "asking"]
<1>1. Quiet(e0, a) /\ Base(e0, a)
    BY AskOK DEF Quiet
<1>2. Quiet(e0, g)
    <2>1. RunOnly(e, g) /\ g.run = e.run
        BY DEF Quiet, Base, Sound, RunOnly, EngineFields
    <2> QED
        BY <2>1, SameRun
<1> HIDE DEF a, g
<1>3. Done(e0, Advance(a)) /\ Done(e0, g)
    BY <1>1, <1>2, AdvanceOK, QuietIsDone
<1>4. Done(e0, HandOff(a, "caller_requested")) /\ Done(e0, TurnEnd(a, in)) /\ Done(e0, TurnSubmit(a, in, changed))
    BY <1>1, HandOffOK, TurnEndOK, TurnSubmitOK
<1>5. CASE act = "none"
    <2>1. TurnAction(e, in, act, changed) = Advance(a) \/ TurnAction(e, in, act, changed) = g
        BY <1>5 DEF TurnAction, a, g
    <2> QED
        BY <1>3, <2>1, Zenon
<1>6. CASE act = "transfer"
    <2>1. TurnAction(e, in, act, changed) = HandOff(a, "caller_requested")
        BY <1>6 DEF TurnAction, a
    <2> QED
        BY <1>4, <2>1
<1>7. CASE act = "end"
    <2>1. TurnAction(e, in, act, changed) = TurnEnd(a, in)
        BY <1>7 DEF TurnAction, a
    <2> QED
        BY <1>4, <2>1
<1>8. CASE act = "submit"
    <2>1. TurnAction(e, in, act, changed) = TurnSubmit(a, in, changed)
        BY <1>8 DEF TurnAction, a
    <2> QED
        BY <1>4, <2>1
<1> QED
    BY <1>5, <1>6, <1>7, <1>8 DEF AgentActs

LEMMA BeforeActionOK ==
    ASSUME NEW e0, NEW e, Quiet(e0, e), NEW in, NEW act \in AgentActs, NEW changed, NEW was
    PROVE  Done(e0, BeforeAction(e, in, act, changed, was))
<1> DEFINE b == BeforeAction(e, in, act, changed, was)
<1>1. Done(e0, TakeOver(e)) /\ Done(e0, AskOptional(e)) /\ Done(e0, ForceHandoff(e)) /\ Done(e0, Ask(e))
    BY TakeOverOK, AskOptionalOK, ForceHandoffOK, AskOK, QuietIsDone DEF Quiet
<1>2. Done(e0, NextQuestion(e)) /\ Done(e0, TurnAction(e, in, act, changed))
    BY NextQuestionOK, TurnActionOK
<1>3. \/ b = TakeOver(e) \/ b = AskOptional(e) \/ b = ForceHandoff(e) \/ b = Ask(e)
      \/ b = NextQuestion(e) \/ b = TurnAction(e, in, act, changed)
    BY DEF BeforeAction
<1> HIDE DEF b
<1>4. Done(e0, b)
    BY <1>1, <1>2, <1>3, Zenon
<1> QED
    BY <1>4 DEF b

(* The agent's turn.                                                          *)
LEMMA AgentTurnOK ==
    ASSUME NEW e0, NEW e, Quiet(e0, e), Len(e.suspended) <= MaxSuspended, NEW in, in.act \in AgentActs
    PROVE  Done(e0, AgentTurn(e, in))
<1> DEFINE b == Begin(e)
           t == TurnTask(b, in.task)
           f == TurnFields(t, in)
           c == SetCar(f)
<1>1. Quiet(e0, b) /\ Base(e0, b) /\ Len(b.suspended) <= MaxSuspended
    BY BeginOK DEF RunOnly, Quiet
<1> HIDE DEF b
<1>2. Quiet(e0, t)
    BY <1>1, TurnTaskOK
<1> HIDE DEF t
<1>3. Quiet(e0, f)
    BY <1>2, TurnFieldsOK
<1> HIDE DEF f
<1>4. Quiet(e0, c)
    BY <1>3, SetCarOK
<1> HIDE DEF c
<1>5. ASSUME NEW changed, NEW was PROVE Done(e0, Corrected(f, in, changed, was))
    <2> DEFINE act == IF in.act = "none" /\ changed /\ was THEN "submit" ELSE in.act
    <2>1. act \in AgentActs
        BY DEF AgentActs
    <2>2. Corrected(f, in, changed, was) = BeforeAction(c, in, act, changed, was)
        BY DEF Corrected, c
    <2> HIDE DEF act
    <2> QED
        BY <1>4, <2>1, <2>2, BeforeActionOK
<1>6. Done(e0, TurnValues(t, f, in))
    BY <1>5 DEF TurnValues
<1>7. Done(e0, Ask(t)) /\ Done(e0, HandOff(b, "intent"))
    BY <1>1, <1>2, AskOK, HandOffOK, QuietIsDone DEF Quiet
<1>8. \/ AgentTurn(e, in) = HandOff(b, "intent") \/ AgentTurn(e, in) = Ask(t)
      \/ AgentTurn(e, in) = TurnValues(t, f, in)
    BY DEF AgentTurn, TurnWithTask, b, t, f
<1> QED
    BY <1>6, <1>7, <1>8, Zenon

-----------------------------------------------------------------------------
(* A turn understood by the rules.                                            *)

LEMMA SwitchOK ==
    ASSUME NEW e0, NEW e, Quiet(e0, e), Len(e.suspended) <= MaxSuspended, NEW t \in Tasks
    PROVE  Quiet(e0, Switch(e, t))
<1> DEFINE s == IF t = e.run.task THEN e ELSE Suspend(e)
<1>1. Base(e0, s)
    BY SuspendOK DEF Quiet
<1>2. Switch(e, t) = [s EXCEPT !.run = NewRun(s, t)]
    BY DEF Switch
<1> HIDE DEF s
<1> QED
    BY <1>1, <1>2, NewTaskOK

(* Yes or no to one value: an earlier yes to the whole is not made from it.   *)
LEMMA AnswerSlotOK ==
    ASSUME NEW e0, NEW e, Quiet(e0, e), NEW in
    PROVE  Done(e0, AnswerSlot(e, in))
<1> DEFINE s == e.run.slot
           c == Clear(e.run, s)
           asked == [e EXCEPT !.run = [Clear(@, s) EXCEPT !.step = "collecting", !.slot = None]]
           g == [e EXCEPT !.run = [e.run EXCEPT !.step = "collecting", !.slot = None]]
           y == [g EXCEPT !.run.slots[s].ok = TRUE]
<1>1. DOMAIN e = EngineFields /\ RunOK(e.run) /\ Base(e0, e)
    BY DEF Quiet, Base, Sound
<1>2. Quiet(e0, asked)
    <2>1. RunOnly(e, asked) /\ asked.run = [c EXCEPT !.step = "collecting", !.slot = None]
        BY <1>1 DEF RunOnly, EngineFields
    <2>2. Follows(e.run, c)
        BY <1>1, ClearOK
    <2> HIDE DEF c
    <2>3. Follows(c, [c EXCEPT !.step = "collecting", !.slot = None])
        BY <2>2, StepOK DEF Follows
    <2>4. Follows(c, asked.run)
        BY <2>1, <2>3, Zenon
    <2> HIDE DEF asked
    <2>5. Follows(e.run, asked.run)
        BY <2>2, <2>4 DEF Follows
    <2> QED
        BY <1>1, <2>1, <2>5, CarriesOn
<1>3. Quiet(e0, g)
    BY <1>1, StepsBack
<1>4. AnswerSlot(e, in) = Fallback(asked, in.ladderOver) \/ AnswerSlot(e, in) = Advance(y)
      \/ AnswerSlot(e, in) = Ask(asked)
    BY DEF AnswerSlot, Step
<1> HIDE DEF asked, g
<1>5. Quiet(e0, y)
    <2> DEFINE sl == [g.run.slots EXCEPT ![s].ok = TRUE]
    <2>1. DOMAIN g = EngineFields /\ RunOK(g.run) /\ Base(e0, g)
        BY <1>3 DEF Quiet, Base, Sound
    <2>2. RunOnly(g, y) /\ y.run = [g.run EXCEPT !.slots = sl]
        BY <2>1 DEF RunOnly, EngineFields
    <2>3. /\ DOMAIN sl = Slots
          /\ \A x \in Slots : /\ DOMAIN sl[x] = StateFields
                              /\ sl[x].by = "said" => sl[x].val = g.run.slots[x].val /\ g.run.slots[x].by = "said"
        BY <2>1 DEF RunOK, Formed, StateFields
    <2> HIDE DEF sl, y
    <2>4. Follows(g.run, y.run)
        BY <2>1, <2>2, <2>3, SlotsGiven
    <2> QED
        BY <1>3, <2>1, <2>2, <2>4, CarriesOn
<1> HIDE DEF y
<1>6. Done(e0, Fallback(asked, in.ladderOver)) /\ Done(e0, Advance(y)) /\ Done(e0, Ask(asked))
    BY <1>2, <1>5, FallbackOK, AdvanceOK, AskOK, QuietIsDone DEF Quiet
<1> QED
    BY <1>4, <1>6, Zenon

(* Yes or no to the read-back.                                                *)
LEMMA AnswerReadBackOK ==
    ASSUME NEW e0, NEW e, Quiet(e0, e), e.run.step = "awaiting_confirmation", NEW in
    PROVE  Done(e0, AnswerReadBack(e, in))
<1> DEFINE g == [e EXCEPT !.run = [e.run EXCEPT !.step = "collecting", !.slot = None]]
<1>1. Done(e0, Advance(Agree(e))) /\ Done(e0, FinishRun(e, "declined"))
    BY AgreeOK, AdvanceOK, FinishRunOK DEF Quiet
<1>2. Quiet(e0, g)
    BY StepsBack DEF Quiet
<1>3. Done(e0, g)
    BY <1>2, QuietIsDone
<1>4. \/ AnswerReadBack(e, in) = Advance(Agree(e)) \/ AnswerReadBack(e, in) = FinishRun(e, "declined")
      \/ AnswerReadBack(e, in) = g
    BY DEF AnswerReadBack, Step
<1> HIDE DEF g
<1> QED
    BY <1>1, <1>3, <1>4, Zenon

LEMMA UnderstandValueOK ==
    ASSUME NEW e0, NEW e, Quiet(e0, e), InRun(e), NEW in, NEW progressed
    PROVE  Done(e0, UnderstandValue(e, in, progressed))
<1> DEFINE d == DropStalePlace(e, in.slot)
           a == ApplyFill(e, in.slot, Said(in.val, in.sure))
           u == UnderstandValue(e, in, progressed)
<1>1. Quiet(e0, d) /\ Quiet(e0, a)
    BY DropStalePlaceOK, ApplyFillOK, SaidShape
<1>2. u = OrTakeOver(SetCar(e)) \/ u = Fallback(e, in.ladderOver) \/ u = OrTakeOver(SetCar(d)) \/ u = OrTakeOver(SetCar(a))
    BY DEF UnderstandValue
<1> HIDE DEF d, a, u
<1>3. ASSUME NEW x, Quiet(e0, x) PROVE Done(e0, OrTakeOver(SetCar(x)))
    <2> DEFINE c == SetCar(x)
    <2>1. Quiet(e0, c)
        BY <1>3, SetCarOK
    <2> HIDE DEF c
    <2>2. Done(e0, TakeOver(c)) /\ Done(e0, Advance(c))
        BY <2>1, TakeOverOK, AdvanceOK DEF Quiet
    <2>3. Done(e0, OrTakeOver(c))
        BY <2>2 DEF OrTakeOver
    <2> QED
        BY <2>3 DEF c
<1>4. Done(e0, Fallback(e, in.ladderOver))
    BY FallbackOK
<1>5. Done(e0, u)
    BY <1>1, <1>2, <1>3, <1>4, Zenon
<1> QED
    BY <1>5 DEF u

LEMMA UnderstandTaskOK ==
    ASSUME NEW e0, NEW e, NEW task, Quiet(e0, task), NEW in, NEW offered
    PROVE  Done(e0, UnderstandTask(e, task, in, offered))
<1>1. Done(e0, Goodbye(task)) /\ Done(e0, task) /\ Done(e0, Fallback(task, in.ladderOver))
    BY GoodbyeOK, FallbackOK, QuietIsDone
<1>2. InRun(task) => Done(e0, UnderstandValue(task, in, Switches(e, in) \/ ~InRun(e)))
    BY UnderstandValueOK
<1> DEFINE u == UnderstandTask(e, task, in, offered)
<1>3. \/ InRun(task) /\ u = UnderstandValue(task, in, Switches(e, in) \/ ~InRun(e))
      \/ u = Goodbye(task) \/ u = task \/ u = Fallback(task, in.ladderOver)
    BY DEF UnderstandTask
<1> HIDE DEF u
<1>4. Done(e0, u)
    BY <1>1, <1>2, <1>3, Zenon
<1> QED
    BY <1>4 DEF u

LEMMA UnderstandOK ==
    ASSUME NEW e0, NEW e, Quiet(e0, e), Len(e.suspended) <= MaxSuspended, NEW in, NEW offered
    PROVE  Done(e0, Understand(e, in, offered))
<1> DEFINE s == IF Switches(e, in) THEN Switch(e, in.intent) ELSE e
           t == Inferred(s, in.slot)
           u == Understand(e, in, offered)
<1>1. Quiet(e0, s)
    <2>1. CASE Switches(e, in)
        <3>1. in.intent \in Tasks
            BY <2>1 DEF Switches
        <3> QED
            BY <2>1, <3>1, SwitchOK
    <2>2. CASE ~Switches(e, in)
        BY <2>2
    <2> QED
        BY <2>1, <2>2
<1> HIDE DEF s
<1>2. Quiet(e0, t)
    BY <1>1, InferredOK
<1> HIDE DEF t
<1>3. Done(e0, UnderstandTask(e, t, in, offered))
    BY <1>2, UnderstandTaskOK
<1>4. Done(e0, HandOff(e, "intent")) /\ Done(e0, Advance(e)) /\ Done(e0, OfferMore(e))
    BY HandOffOK, AdvanceOK, OfferMoreOK, QuietIsDone DEF Quiet
<1>5. \/ u = HandOff(e, "intent") \/ u = Advance(e) \/ u = OfferMore(e)
      \/ u = UnderstandTask(e, t, in, offered)
    BY DEF Understand, t, s
<1> HIDE DEF u
<1>6. Done(e0, u)
    BY <1>3, <1>4, <1>5, Zenon
<1> QED
    BY <1>6 DEF u

LEMMA UtteranceOK ==
    ASSUME NEW e0, NEW e, Quiet(e0, e), Len(e.suspended) <= MaxSuspended, NEW in
    PROVE  Done(e0, Utterance(e, in))
<1> DEFINE b == Begin(e)
           u == Utterance(e, in)
<1>1. Quiet(e0, b) /\ Len(b.suspended) <= MaxSuspended
    BY BeginOK DEF RunOnly
<1>2. \/ u = AnswerSlot(b, in)
      \/ b.run.step = "awaiting_confirmation" /\ u = AnswerReadBack(b, in)
      \/ u = Understand(b, in, e.offered)
    BY DEF Utterance
<1> HIDE DEF b, u
<1>3. Done(e0, AnswerSlot(b, in)) /\ Done(e0, Understand(b, in, e.offered))
    BY <1>1, AnswerSlotOK, UnderstandOK
<1>4. b.run.step = "awaiting_confirmation" => Done(e0, AnswerReadBack(b, in))
    BY <1>1, AnswerReadBackOK
<1>5. Done(e0, u)
    BY <1>2, <1>3, <1>4, Zenon
<1> QED
    BY <1>5 DEF u

LEMMA MetaOK ==
    ASSUME NEW e0, NEW e1, Quiet(e0, e1), NEW m \in {"cancel", "go_back", "transfer", "goodbye"}
    PROVE  Done(e0, Meta(e1, m))
<1> DEFINE e == [e1 EXCEPT !.turns = @ + 1]
           x == Meta(e1, m)
<1>1. Quiet(e0, e) /\ Base(e0, e)
    <2>1. RunOnly(e1, e) /\ e.run = e1.run
        BY DEF Quiet, Base, Sound, RunOnly, EngineFields
    <2> QED
        BY <2>1, SameRun
<1>2. m = "cancel" => x = OfferMore([(IF InRun(e) THEN CloseRun(e, "cancelled") ELSE e) EXCEPT !.suspended = <<>>])
    BY DEF Meta
<1>3. m = "go_back" => \/ InRun(e) /\ e.run.journal # <<>>
                          /\ x = Ask([e EXCEPT !.run = [Undo(e.run) EXCEPT !.step = "collecting", !.slot = None]])
                       \/ x = e
    BY DEF Meta
<1>4. (m = "transfer" => x = HandOff(e, "caller_requested")) /\ (m = "goodbye" => x = Goodbye(e))
    BY DEF Meta
<1> HIDE DEF e, x
<1>5. DOMAIN e = EngineFields /\ RunOK(e.run)
    BY <1>1 DEF Base, Sound
<1>6. CASE m = "cancel"
    <2> DEFINE c == IF InRun(e) THEN CloseRun(e, "cancelled") ELSE e
               f == [c EXCEPT !.suspended = <<>>]
    <2>1. /\ DOMAIN c = EngineFields /\ c.run \in {e.run, NoRun} /\ ~InRun(c) /\ c.phase = e.phase
          /\ c.next = e.next /\ c.out = e.out /\ c.resumed = e.resumed
        <3>1. CASE InRun(e)
            <4>1. NoRun.task = None
                BY PipelineRunOK DEF NoRun
            <4>2. c = CloseRun(e, "cancelled")
                BY <3>1
            <4> HIDE DEF c
            <4>3. /\ DOMAIN c = EngineFields /\ c.run = NoRun /\ c.phase = e.phase
                  /\ c.next = e.next /\ c.out = e.out /\ c.resumed = e.resumed
                BY <1>5, <4>2 DEF CloseRun, EngineFields
            <4> QED
                BY <4>1, <4>3 DEF InRun
        <3>2. CASE ~InRun(e)
            BY <1>5, <3>2
        <3> QED
            BY <3>1, <3>2
    <2> HIDE DEF c
    <2>2. /\ DOMAIN f = EngineFields /\ f.run = c.run /\ f.phase = e.phase /\ f.suspended = <<>>
          /\ f.next = e.next /\ f.out = e.out /\ f.resumed = e.resumed
        BY <2>1 DEF EngineFields
    <2> HIDE DEF f
    <2>3. RunOK(f.run) /\ ~InRun(f)
        BY <1>5, <2>1, <2>2, PipelineRunOK DEF NoRun, InRun
    <2>4. Waiting(f.suspended) /\ Len(f.suspended) <= MaxSuspended + 1
        BY <2>2, ListedEmpty, ConfigAssumption DEF Waiting
    <2>5. Sound(e0, f) /\ Idle(f) /\ Still(e0, f)
        BY <1>1, <2>2, <2>3, <2>4 DEF Base, Sound, Idle, Still, Executing
    <2>6. Quiet(e0, f)
        BY <1>1, <2>2, <2>4, <2>5 DEF Quiet, Base
    <2>7. Done(e0, OfferMore(f))
        BY <2>6, OfferMoreOK, QuietIsDone
    <2> QED
        BY <1>2, <1>6, <2>7 DEF f, c, x
<1>7. CASE m = "go_back"
    <2> DEFINE u == [Undo(e.run) EXCEPT !.step = "collecting", !.slot = None]
               f == [e EXCEPT !.run = u]
    <2>1. Done(e0, e)
        BY <1>1, QuietIsDone
    <2>2. CASE InRun(e) /\ e.run.journal # <<>> /\ x = Ask(f)
        <3>1. Follows(e.run, u)
            BY <1>5, <2>2, UndoOK
        <3> HIDE DEF u
        <3>2. RunOnly(e, f) /\ f.run = u
            BY <1>5 DEF RunOnly, EngineFields
        <3> HIDE DEF f
        <3>3. Quiet(e0, f) /\ Base(e0, f)
            BY <1>1, <3>1, <3>2, CarriesOn
        <3>4. Done(e0, Ask(f))
            BY <3>3, AskOK, QuietIsDone
        <3> QED
            BY <2>2, <3>4 DEF x
    <2> QED
        BY <1>3, <1>7, <2>1, <2>2 DEF x
<1>8. CASE m = "transfer"
    BY <1>1, <1>4, <1>8, HandOffOK DEF x
<1>9. CASE m = "goodbye"
    BY <1>1, <1>4, <1>9, GoodbyeOK DEF x
<1> QED
    BY <1>6, <1>7, <1>8, <1>9

LEMMA NoToOptionalOK ==
    ASSUME NEW e0, NEW e, Quiet(e0, e)
    PROVE  Done(e0, NoToOptional(e))
<1> DEFINE a == Ask(e)
           g == [a EXCEPT !.turns = @ + 1, !.asked = TRUE]
<1>1. Quiet(e0, a)
    BY AskOK DEF Quiet
<1> HIDE DEF a
<1>2. RunOnly(a, g) /\ g.run = a.run
    BY <1>1 DEF Quiet, Base, Sound, RunOnly, EngineFields
<1> HIDE DEF g
<1>3. Done(e0, ReadBack(g))
    BY <1>1, <1>2, SameRun, ReadBackOK
<1> QED
    BY <1>3 DEF NoToOptional, g, a

-----------------------------------------------------------------------------
(* The result of an action.                                                   *)

\* The same request once more, under the same key, for a task nobody was asked about.
Retried(e0, e) ==
    LET q == e.out[1]
    IN  /\ Sound(e0, e) /\ Idle(e) /\ e.resumed = FALSE /\ e.next = e0.next
        /\ Executing(e) /\ e.out = <<q>> /\ Matches(q, e.run) /\ q.id = e0.run.id
        /\ q.task \notin Confirms

LEMMA ResultOK ==
    ASSUME NEW e, Quiet(e, e), NEW q, Executing(e), e.run.id = q.id, NEW outcome
    PROVE  LET f == OnActionResult(e, q, outcome)
           IN  Done([e EXCEPT !.run = NoRun], f) \/ Retried(e, f)
<1> DEFINE e0 == [e EXCEPT !.run = NoRun]
           f == OnActionResult(e, q, outcome)
           t == e.run.task
           retry == [e EXCEPT !.run.attempts = @ + 1,
                              !.out = Append(@, ActionInput(e, e.run.id, e.run.attempts + 1))]
           counted == IF t \in Changes THEN [e EXCEPT !.failures = @ + 1]
                      ELSE [e EXCEPT !.failed = @ \cup {FailedKey(e)}]
           left == CloseRun(HandOff(e, "unknown"), "unknown")
<1>1. /\ DOMAIN e = EngineFields /\ RunOK(e.run) /\ Base(e, e) /\ t \in Tasks /\ e.run.step = "executing"
      /\ e.run.attempts \in Nat /\ e.run.attempts >= 1 /\ DOMAIN e.run = RunFields
    BY DEF Quiet, Base, Sound, RunOK, Formed, Executing, InRun
<1>2. e0.phase = e.phase /\ e0.next = e.next
    BY <1>1 DEF EngineFields
<1>3. \/ f = FinishRun(e, "success")
      \/ e.run.attempts < MaxAttempts[t] /\ f = retry
      \/ e.desk /\ f = left
      \/ f = FinishRun(e, "unknown")
      \/ f = HandOff(counted, "action_failed")
      \/ f = FinishRun(counted, "failed")
    BY DEF OnActionResult, ActionFailed
<1> HIDE DEF e0, f
<1>4. Base(e0, e)
    BY <1>1, <1>2 DEF Base, Sound
<1>5. Base(e0, counted)
    <2>1. RunOnly(e, counted) /\ counted.run = e.run
        BY <1>1 DEF RunOnly, EngineFields
    <2> HIDE DEF counted
    <2>2. Follows(e.run, counted.run)
        BY <1>1, <2>1 DEF Follows
    <2> QED
        BY <1>4, <2>1, <2>2, CarriesOn
<1>6. ASSUME e.desk PROVE Done(e0, left)
    <2> DEFINE h == HandOff(e, "unknown")
    <2>1. h = [e EXCEPT !.phase = "handing_off", !.last = "handoff"]
        BY <1>6 DEF HandOff
    <2> HIDE DEF h
    <2>2. /\ DOMAIN h = EngineFields /\ h.phase = "handing_off" /\ h.suspended = e.suspended
          /\ h.next = e.next /\ h.out = e.out /\ h.resumed = e.resumed
        BY <1>1, <2>1 DEF EngineFields
    <2>3. left = CloseRun(h, "unknown")
        BY DEF h
    <2> HIDE DEF left
    <2>4. /\ DOMAIN left = EngineFields /\ left.phase = "handing_off" /\ left.suspended = e.suspended
          /\ left.next = e.next /\ left.out = e.out /\ left.resumed = e.resumed /\ left.run = NoRun
        BY <2>2, <2>3 DEF CloseRun, EngineFields
    <2>5. RunOK(NoRun)
        BY PipelineRunOK DEF NoRun
    <2>6. Sound(e0, left) /\ Idle(left)
        BY <1>4, <2>4, <2>5 DEF Base, Sound, Idle
    <2> QED
        BY <1>4, <2>4, <2>6 DEF Done, Base
<1>7. ASSUME e.run.attempts < MaxAttempts[t] PROVE Retried(e, retry)
    <2> DEFINE n == e.run.attempts + 1
               q1 == ActionInput(e, e.run.id, n)
               r == [e.run EXCEPT !.attempts = n]
    <2>1. t \notin Confirms
        BY <1>1, <1>7, ConfigAssumption
    <2>2. /\ DOMAIN retry = EngineFields /\ retry.phase = e.phase /\ retry.suspended = e.suspended
          /\ retry.next = e.next /\ retry.resumed = e.resumed /\ retry.run = r
          /\ retry.out = Append(e.out, q1)
        BY <1>1 DEF EngineFields
    <2>3. /\ DOMAIN r = RunFields /\ r.step = e.run.step /\ r.id = e.run.id /\ r.attempts = n /\ r.task = t
          /\ r.slots = e.run.slots /\ r.journal = e.run.journal /\ r.confirmed = e.run.confirmed
          /\ r.agreed = e.run.agreed
        BY <1>1 DEF RunFields
    <2>4. q1.id = e.run.id /\ q1.task = t /\ q1.n = n
        BY DEF ActionInput
    <2>5. n \in Nat /\ n >= 1
        BY <1>1
    <2> HIDE DEF retry, q1, r, n
    <2>6. retry.out = <<q1>> /\ retry.out[1] = q1
        BY <1>1, <2>2 DEF Base
    <2>7. RunOK(r)
        <3>1. Formed(r)
            BY <1>1, <2>3, <2>5 DEF RunOK, Formed
        <3>2. Attested(e.run, e.run.agreed) => Attested(r, r.agreed)
            BY <2>3 DEF Attested
        <3> QED
            BY <1>1, <2>3, <2>5, <3>1, <3>2 DEF RunOK
    <2>8. Sound(e, retry) /\ Executing(retry) /\ Idle(retry)
        BY <1>1, <2>2, <2>3, <2>7, ConfigAssumption DEF Base, Sound, Executing, InRun, Idle
    <2>9. Matches(q1, retry.run)
        BY <2>2, <2>3, <2>4 DEF Matches
    <2> QED
        BY <1>1, <2>1, <2>2, <2>4, <2>6, <2>8, <2>9 DEF Retried, Base
<1>8. /\ Done(e0, FinishRun(e, "success")) /\ Done(e0, FinishRun(e, "unknown"))
      /\ Done(e0, HandOff(counted, "action_failed")) /\ Done(e0, FinishRun(counted, "failed"))
    BY <1>4, <1>5, FinishRunOK, HandOffOK
<1> HIDE DEF counted, left, retry, t
<1>9. Done(e0, f) \/ Retried(e, f)
    BY <1>3, <1>6, <1>7, <1>8, Zenon
<1> QED
    BY <1>9 DEF e0, f

-----------------------------------------------------------------------------
(* The call.                                                                  *)

Sent == \A q \in flight' \ flight : AgreedTo(q, eng'.run)

(* What comes of a turn or a result is started: nothing, and then what is     *)
(* waited for is on its way already; or one request, whose key no other has.  *)
LEMMA ProceedOK ==
    ASSUME BInv, NEW e, NEW running, running \subseteq flight, Proceed(e, running),
           Sound(eng, e), Idle(e), e.resumed = FALSE,
           \/ /\ e.out = <<>>
              /\ e.phase = "active" /\ Executing(e) => \E q \in running : Matches(q, e.run)
           \/ /\ e.out = <<e.out[1]>> /\ Executing(e) /\ Matches(e.out[1], e.run) /\ AgreedTo(e.out[1], e.run)
              /\ e.out[1].id \in Nat /\ e.out[1].id < e.next /\ \A r \in running : r.id # e.out[1].id
    PROVE  BInv' /\ Sent
<1>1. /\ DOMAIN eng' = EngineFields /\ eng'.run = e.run /\ eng'.suspended = e.suspended /\ eng'.phase = e.phase
      /\ eng'.next = e.next /\ eng'.resumed = e.resumed /\ eng'.out = <<>>
    BY DEF Proceed, Sound, EngineFields
<1>2. Len(e.suspended) <= MaxSuspended /\ Len(e.suspended) \in Nat
    BY ListedNone DEF Proceed, Within, Sound, Waiting
<1>3. Len(e.suspended) <= MaxSuspended + 1
    BY <1>2, ConfigAssumption
<1>4. Quiet(eng', eng')
    <2>1. Sound(eng', eng') /\ Idle(eng') /\ Still(eng', eng')
        BY <1>1 DEF Sound, Idle, Still, InRun
    <2> QED
        BY <1>1, <1>3, <2>1 DEF Quiet, Base
<1>5. \A q \in running : q.id \in Nat /\ q.id < e.next
    BY DEF BInv, Sound
<1>6. \A q, r \in running : q.id = r.id => q = r
    BY DEF BInv, OneRequestPerKey
<1>7. CASE /\ e.out = <<>>
           /\ e.phase = "active" /\ Executing(e) => \E q \in running : Matches(q, e.run)
    <2>1. flight' = running
        BY <1>7 DEF Proceed
    <2>2. OneRequestPerKey'
        BY <1>6, <2>1 DEF OneRequestPerKey
    <2>3. WaitsForARequest'
        BY <1>1, <1>7, <2>1 DEF WaitsForARequest, Matches, Executing, InRun
    <2>4. Sent
        BY <2>1 DEF Sent
    <2> QED
        BY <1>1, <1>2, <1>4, <1>5, <2>1, <2>2, <2>3, <2>4 DEF BInv
<1>8. CASE /\ e.out = <<e.out[1]>> /\ Executing(e) /\ Matches(e.out[1], e.run) /\ AgreedTo(e.out[1], e.run)
           /\ e.out[1].id \in Nat /\ e.out[1].id < e.next /\ \A r \in running : r.id # e.out[1].id
    <2> DEFINE n == e.out[1]
    <2>1. e.out = <<n>>
        BY <1>8
    <2>2. n.id \in Nat /\ n.id < e.next /\ Matches(n, e.run) /\ AgreedTo(n, e.run) /\ \A r \in running : r.id # n.id
        BY <1>8
    <2> HIDE DEF n
    <2>3. flight' = running \cup {n}
        <3>1. flight' = running \cup {e.out[i] : i \in DOMAIN e.out}
            BY DEF Proceed
        <3>2. DOMAIN e.out = {1} /\ e.out[1] = n
            BY <2>1
        <3> QED
            BY <3>1, <3>2
    <2>4. OneRequestPerKey'
        BY <1>6, <2>2, <2>3 DEF OneRequestPerKey
    <2>5. WaitsForARequest'
        BY <1>1, <2>2, <2>3 DEF WaitsForARequest, Matches
    <2>6. Sent
        BY <1>1, <2>2, <2>3 DEF Sent
    <2>7. \A q \in flight' : q.id \in Nat /\ q.id < eng'.next
        BY <1>1, <1>5, <2>2, <2>3
    <2> QED
        BY <1>1, <1>2, <1>4, <2>4, <2>5, <2>6, <2>7 DEF BInv
<1> QED
    BY <1>7, <1>8

(* A turn.                                                                    *)
LEMMA ExecuteOK ==
    ASSUME BInv, NEW e, Done(eng, e), Execute(e)
    PROVE  BInv' /\ Sent
<1>1. Proceed(e, flight) /\ Sound(eng, e) /\ Idle(e) /\ e.resumed = FALSE
    BY DEF Execute, Done
<1>2. CASE e.out = <<>> /\ (e.phase = "active" => Still(eng, e))
    <2>1. e.phase = "active" /\ Executing(e) => \E q \in flight : Matches(q, e.run)
        BY <1>1, <1>2 DEF Still, Sound, BInv, WaitsForARequest, Matches
    <2> QED
        BY <1>1, <1>2, <2>1, ProceedOK
<1>3. CASE Requested(eng, e)
    <2>1. /\ e.out = <<e.out[1]>> /\ Executing(e) /\ Matches(e.out[1], e.run) /\ AgreedTo(e.out[1], e.run)
          /\ e.out[1].id \in Nat /\ eng.next <= e.out[1].id /\ e.out[1].id < e.next
        BY <1>3 DEF Requested
    <2>2. \A r \in flight : r.id # e.out[1].id
        BY <1>1, <2>1 DEF BInv, Sound
    <2> QED
        BY <1>1, <2>1, <2>2, ProceedOK
<1> QED
    BY <1>2, <1>3 DEF Done

(* A result.                                                                  *)
LEMMA ActionEndsOK ==
    ASSUME BInv, NEW q, NEW outcome, ActionEnds(q, outcome)
    PROVE  BInv' /\ Sent
<1> DEFINE e == OnActionResult(eng, q, outcome)
           running == flight \ {q}
           e0 == [eng EXCEPT !.run = NoRun]
<1>1. q \in flight /\ Proceed(e, running) /\ running \subseteq flight
    BY DEF ActionEnds
<1>2. Quiet(eng, eng) /\ Base(eng, eng) /\ DOMAIN eng = EngineFields
    BY DEF BInv, Quiet, Base, Sound
<1>3. CASE ~(Executing(eng) /\ eng.run.id = q.id)
    <2>1. e = eng
        BY <1>3 DEF OnActionResult
    <2> HIDE DEF e
    <2>2. Sound(eng, e) /\ Idle(e) /\ e.resumed = FALSE /\ e.out = <<>>
        BY <1>2, <2>1 DEF Base
    <2>3. e.phase = "active" /\ Executing(e) => \E r \in running : Matches(r, e.run)
        BY <1>3, <2>1 DEF BInv, WaitsForARequest, Matches
    <2> HIDE DEF running
    <2> QED
        BY <1>1, <2>2, <2>3, ProceedOK
<1>4. CASE Executing(eng) /\ eng.run.id = q.id
    <2>1. Done(e0, e) \/ Retried(eng, e)
        BY <1>2, <1>4, ResultOK
    <2>2. e0.phase = eng.phase /\ e0.next = eng.next /\ e0.run = NoRun /\ ~Executing(e0)
        <3>1. e0.phase = eng.phase /\ e0.next = eng.next /\ e0.run = NoRun
            BY <1>2 DEF EngineFields
        <3>2. NoRun.task = None
            BY PipelineRunOK DEF NoRun
        <3> QED
            BY <3>1, <3>2 DEF Executing, InRun
    <2> HIDE DEF e, e0
    <2>3. Sound(eng, e) /\ Idle(e) /\ e.resumed = FALSE
        BY <2>1, <2>2 DEF Done, Retried, Sound
    <2>4. CASE Done(e0, e) /\ e.out = <<>> /\ (e.phase = "active" => Still(e0, e))
        <3>1. ~(e.phase = "active" /\ Executing(e))
            BY <2>2, <2>4 DEF Still
        <3> HIDE DEF running
        <3> QED
            BY <1>1, <2>3, <2>4, <3>1, ProceedOK
    <2>5. CASE Requested(e0, e)
        <3>1. /\ e.out = <<e.out[1]>> /\ Executing(e) /\ Matches(e.out[1], e.run) /\ AgreedTo(e.out[1], e.run)
              /\ e.out[1].id \in Nat /\ eng.next <= e.out[1].id /\ e.out[1].id < e.next
            BY <2>2, <2>5 DEF Requested
        <3>2. \A r \in running : r.id # e.out[1].id
            BY <2>3, <3>1 DEF BInv, Sound
        <3> HIDE DEF running
        <3> QED
            BY <1>1, <2>3, <3>1, <3>2, ProceedOK
    <2>6. CASE Retried(eng, e)
        <3>1. /\ e.out = <<e.out[1]>> /\ Executing(e) /\ Matches(e.out[1], e.run) /\ AgreedTo(e.out[1], e.run)
              /\ e.out[1].id = q.id /\ e.next = eng.next
            BY <1>4, <2>6 DEF Retried, AgreedTo
        <3>2. q.id \in Nat /\ q.id < eng.next /\ \A r \in running : r.id # q.id
            BY <1>1 DEF BInv, OneRequestPerKey
        <3>3. e.out[1].id \in Nat /\ e.out[1].id < e.next /\ \A r \in running : r.id # e.out[1].id
            BY <3>1, <3>2
        <3> HIDE DEF running
        <3> QED
            BY <1>1, <2>3, <3>1, <3>3, ProceedOK
    <2> QED
        BY <2>1, <2>4, <2>5, <2>6 DEF Done
<1> QED
    BY <1>3, <1>4

LEMMA DecisionActs ==
    ASSUME NEW in \in Decisions
    PROVE  in.act \in AgentActs
<1>1. \A w, t : \A a \in Acts \cup Leaving \cup {<<"none", "missed">>} : Decision(w, t, a).act \in AgentActs
    <2>1. ASSUME NEW w, NEW t, NEW a \in Acts \cup Leaving \cup {<<"none", "missed">>}
          PROVE  Decision(w, t, a).act \in AgentActs
        <3>1. Decision(w, t, a).act = a[1]
            BY DEF Decision
        <3>2. a[1] \in AgentActs
            <4>1. CASE a \in Acts
                BY <4>1 DEF Acts, AgentActs
            <4>2. CASE a \in Leaving
                BY <4>2 DEF Leaving, AgentActs
            <4>3. CASE a = <<"none", "missed">>
                BY <4>3 DEF AgentActs
            <4> QED
                BY <4>1, <4>2, <4>3
        <3> QED
            BY <3>1, <3>2
    <2> QED
        BY <2>1
<1>2. <<"none", "plain">> \in Acts
    BY DEF Acts
<1>3. CASE in \in {Decision(w, t, a) : w \in Heard \cup {Nothing, Rejected}, t \in Tasks \cup {None}, a \in Acts}
    BY <1>1, <1>3
<1>4. CASE in \in {Decision(Nothing, None, a) : a \in Leaving}
    BY <1>1, <1>4
<1>5. CASE in = Decision(Nothing, "person", <<"none", "plain">>) \/ in = Decision(Rejected, None, <<"none", "missed">>)
    BY <1>1, <1>2, <1>5
<1>6. CASE in \in {Decision([Nothing EXCEPT !.words = "which_way"], t, <<"none", "plain">>) : t \in Tasks}
    BY <1>1, <1>2, <1>6
<1>7. CASE in \in {Decision([words |-> "misplaced", slot |-> s, val |-> None], None, <<"none", "plain">>) : s \in Places}
    BY <1>1, <1>2, <1>7
<1> QED
    BY <1>3, <1>4, <1>5, <1>6, <1>7 DEF Decisions

LEMMA InitOK == Init => BInv
<1> SUFFICES ASSUME Init PROVE BInv
    OBVIOUS
<1>1. /\ DOMAIN eng = EngineFields /\ eng.run = NoRun /\ eng.suspended = <<>> /\ eng.phase = "active"
      /\ eng.next = 0 /\ eng.out = <<>> /\ eng.resumed = FALSE
    BY DEF Init, EngineFields
<1>2. RunOK(NoRun) /\ NoRun.task = None
    BY PipelineRunOK DEF NoRun
<1>3. Waiting(eng.suspended) /\ Len(eng.suspended) <= MaxSuspended /\ Len(eng.suspended) <= MaxSuspended + 1
    BY <1>1, ListedEmpty, ConfigAssumption DEF Waiting
<1>4. ~InRun(eng) /\ ~Executing(eng)
    BY <1>1, <1>2 DEF InRun, Executing
<1>5. Quiet(eng, eng)
    BY <1>1, <1>2, <1>3, <1>4 DEF Quiet, Base, Sound, Idle, Still
<1> QED
    BY <1>3, <1>4, <1>5 DEF Init, BInv, OneRequestPerKey, WaitsForARequest

LEMMA StepKeeps == BInv /\ [Next]_vars => BInv' /\ Sent
<1> SUFFICES ASSUME BInv, [Next]_vars PROVE BInv' /\ Sent
    OBVIOUS
<1>1. Quiet(eng, eng) /\ Len(eng.suspended) <= MaxSuspended /\ Base(eng, eng) /\ DOMAIN eng = EngineFields
    BY DEF BInv, Quiet, Base, Sound
<1>2. CASE AgentDecides
    <2>1. PICK in \in Decisions : Execute(AgentTurn(eng, in))
        BY <1>2 DEF AgentDecides
    <2> QED
        BY <1>1, <2>1, DecisionActs, AgentTurnOK, ExecuteOK
<1>3. CASE RulesDecide
    <2>1. PICK in \in Understandings : Execute(Utterance(eng, in))
        BY <1>3 DEF RulesDecide
    <2> QED
        BY <1>1, <2>1, UtteranceOK, ExecuteOK
<1>4. CASE SaysOfTheCall
    <2>1. PICK m \in {"cancel", "go_back", "transfer", "goodbye"} : Execute(Meta(eng, m))
        BY <1>4 DEF SaysOfTheCall
    <2> QED
        BY <1>1, <2>1, MetaOK, ExecuteOK
<1>5. CASE OnNoToOptional
    BY <1>1, <1>5, NoToOptionalOK, ExecuteOK DEF OnNoToOptional
<1>6. CASE OnClosing
    <2> DEFINE g == [eng EXCEPT !.offered = FALSE, !.turns = @ + 1]
    <2>1. RunOnly(eng, g) /\ g.run = eng.run
        BY <1>1 DEF RunOnly, EngineFields
    <2>2. Execute(Goodbye(g))
        BY <1>6 DEF OnClosing
    <2> HIDE DEF g
    <2> QED
        BY <1>1, <2>1, <2>2, SameRun, GoodbyeOK, ExecuteOK
<1>7. CASE Stuck
    BY <1>1, <1>7, ForceHandoffOK, ExecuteOK DEF Stuck
<1>8. CASE CustomerFound
    <2>1. flight' = flight /\ RunOnly(eng, eng') /\ eng'.run = eng.run
        BY <1>1, <1>8 DEF CustomerFound, RunOnly, EngineFields
    <2>2. Quiet(eng, eng')
        BY <1>1, <2>1, SameRun
    <2>3. Quiet(eng', eng')
        BY <2>1, <2>2 DEF Quiet, Base, Sound, Still, RunOnly
    <2> QED
        BY <2>1, <2>3 DEF BInv, OneRequestPerKey, WaitsForARequest, Executing, InRun, RunOnly, Sent
<1>9. CASE \E q \in flight, outcome \in Outcomes : ActionEnds(q, outcome)
    BY <1>9, ActionEndsOK
<1>10. CASE Terminate \/ UNCHANGED vars
    <2>1. eng' = eng /\ flight' = flight
        BY <1>10 DEF Terminate, vars
    <2> QED
        BY <2>1 DEF BInv, Quiet, Base, Sound, Idle, Still, Executing, InRun, OneRequestPerKey, WaitsForARequest, Sent
<1> QED
    BY <1>2, <1>3, <1>4, <1>5, <1>6, <1>7, <1>8, <1>9, <1>10 DEF Next

-----------------------------------------------------------------------------
(* The theorems.                                                              *)

(* The inductive invariant: every run is well formed and its consent is to    *)
(* the values it has, the runs put aside can all go on, every key given out   *)
(* is below the next one.                                                     *)
THEOREM Invariant == Spec => []BInv
<1> QED
    BY InitOK, StepKeeps, PTL DEF Spec

(* Two requests with one idempotency key are never on their way together,     *)
(* however often actions are retried, runs put aside and results late         *)
(* (action_input, on_action_result).                                          *)
THEOREM OneRequestPerKeyHolds == Spec => []OneRequestPerKey
<1>1. BInv => OneRequestPerKey
    BY DEF BInv
<1> QED
    BY <1>1, Invariant, PTL

(* The run that waits for its action waits for a request that is still on its *)
(* way: no caller is told to wait for an answer that cannot come              *)
(* (on_action_result, advance).                                               *)
THEOREM WaitsForARequestHolds == Spec => []WaitsForARequest
<1>1. BInv => WaitsForARequest
    BY DEF BInv
<1> QED
    BY <1>1, Invariant, PTL

(* A task put aside for another is taken up again when that one is over,      *)
(* whatever its outcome (finish_run, meta).                                   *)
THEOREM NothingForgottenHolds == Spec => []NothingForgotten
<1>1. BInv => NothingForgotten
    BY DEF BInv, Quiet, Base, Idle, NothingForgotten
<1> QED
    BY <1>1, Invariant, PTL

(* What the caller said and a task that needs a yes sends is what was last    *)
(* read back and agreed to (on_agent_turn, understood, PipelineRun::set).     *)
THEOREM SentWasAgreedHolds == Spec => SentWasAgreed
<1>1. BInv /\ [Next]_vars =>
        [\A q \in flight' \ flight :
            q.task \in Confirms =>
                \A s \in q.said \ {NameSlot} : q.vals[s] = eng'.run.agreed[s]]_vars
    BY StepKeeps DEF Sent, AgreedTo
<1> QED
    BY <1>1, Invariant, PTL DEF Spec, SentWasAgreed
=============================================================================
