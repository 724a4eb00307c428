---------------------------- MODULE PlayoutProofs ----------------------------
(***************************************************************************)
(* Proofs about Playout.tla, for any number of items, frames and commands  *)
(* and any lead.                                                           *)
(*                                                                         *)
(* That no item is lost and none ends twice rests on their order: an item  *)
(* that starts leaves the queue because no other there has its number.  So *)
(* Accounted and InOrder are proved together, with the items the task has  *)
(* taken as the bound of both.                                             *)
(***************************************************************************)
EXTENDS MCPlayout, FiniteSetTheorems, SequenceTheorems, TLAPS

Taken ==
    /\ queue \in Seq(Nat) /\ cur \in Nat /\ accepted \in Nat /\ ends \in [Ids -> Nat]
    /\ cur <= accepted
    /\ \A k \in 1 .. Len(queue) : queue[k] <= accepted

IInv == Taken /\ InOrder /\ Accounted

(* Where an item is, counted as Accounted does. *)
Counted(i) ==
    (IF i > accepted THEN 1 ELSE 0) + (IF i = cur THEN 1 ELSE 0)
        + (IF i \in QueuedIds THEN 1 ELSE 0) + ends[i]

LEMMA IdsAreNatural == \A i \in Ids : i \in Nat /\ i # None
  BY PlayoutAssumption DEF Ids, None

LEMMA EndedIs ==
    ASSUME NEW X
    PROVE  \A i \in Ids : Ended(X)[i] = IF i \in X THEN ends[i] + 1 ELSE ends[i]
  BY DEF Ended

LEMMA EndedType ==
    ASSUME Taken, NEW X
    PROVE  Ended(X) \in [Ids -> Nat]
  BY DEF Ended, Taken

(* Leaving the items alone leaves the invariant alone. *)
LEMMA Untouched ==
    ASSUME IInv, UNCHANGED <<queue, cur, accepted, ends>>
    PROVE  IInv'
  BY DEF IInv, Taken, InOrder, Accounted, QueuedIds

(* The queue is emptied: what was in it, and possibly the current item, has ended. *)
LEMMA EmptiedKeeps ==
    ASSUME IInv, queue' = <<>>, accepted' = accepted,
           \/ cur' = cur /\ ends' = Ended(QueuedIds)
           \/ cur' = None /\ ends' = Ended({cur} \cup QueuedIds)
    PROVE  IInv'
<1>1. queue' \in Seq(Nat) /\ Len(queue') = 0 /\ QueuedIds' = {}
  BY EmptySeq DEF QueuedIds
<1>2. cur' \in Nat /\ cur' <= accepted
  BY DEF IInv, Taken, None
<1>3. Taken'
  BY <1>1, <1>2, EndedType DEF IInv, Taken
<1>4. InOrder'
  BY <1>1 DEF InOrder
<1>5. ASSUME NEW i \in Ids
      PROVE  Counted(i)' = 1
  <2>1. Counted(i) = 1 /\ i \in Nat /\ i # None /\ ends[i] \in Nat
    BY IdsAreNatural DEF IInv, Accounted, Counted, Taken
  <2>2. CASE cur' = cur /\ ends' = Ended(QueuedIds)
    <3>1. ends'[i] = IF i \in QueuedIds THEN ends[i] + 1 ELSE ends[i]
      BY <2>2, EndedIs
    <3> QED
      BY <1>1, <2>1, <2>2, <3>1 DEF Counted
  <2>3. CASE cur' = None /\ ends' = Ended({cur} \cup QueuedIds)
    <3>1. ends'[i] = IF i = cur \/ i \in QueuedIds THEN ends[i] + 1 ELSE ends[i]
      BY <2>3, EndedIs
    <3>2. ~(i = cur /\ i \in QueuedIds)
      BY <2>1 DEF Counted, IInv, Taken
    <3> QED
      BY <1>1, <2>1, <2>3, <3>1, <3>2 DEF Counted, IInv, Taken
  <2> QED
    BY <2>2, <2>3
<1>6. Accounted'
  BY <1>5 DEF Accounted, Counted
<1> QED
  BY <1>3, <1>4, <1>6 DEF IInv

(* The current item ends and the next one starts. *)
LEMMA StartedKeeps ==
    ASSUME IInv, queue # <<>>, accepted' = accepted, cur' = Head(queue), queue' = Tail(queue),
           ends' = Ended({cur})
    PROVE  IInv'
<1> DEFINE n == Len(queue)
<1>1. /\ n \in Nat \ {0} /\ queue' \in Seq(Nat) /\ Len(queue') = n - 1
      /\ cur' = queue[1] /\ \A k \in 1 .. (n - 1) : queue'[k] = queue[k + 1]
  BY HeadTailProperties, LenProperties, EmptySeq DEF IInv, Taken
<1>2. \A k \in 1 .. n : queue[k] \in Nat /\ queue[k] <= accepted
  BY ElementOfSeq DEF IInv, Taken
<1> HIDE DEF n
<1>3. Taken'
  BY <1>1, <1>2, EndedType DEF IInv, Taken
<1>4. /\ \A k \in 1 .. n : cur < queue[k]
      /\ \A j, k \in 1 .. n : j < k => queue[j] < queue[k]
  BY DEF IInv, InOrder, n
<1>5. InOrder'
  <2>1. ASSUME NEW k \in 1 .. (n - 1)
        PROVE  cur' < queue'[k]
    <3>1. 1 \in 1 .. n /\ k + 1 \in 1 .. n /\ 1 < k + 1
      BY <1>1
    <3> QED
      BY <1>1, <1>4, <3>1
  <2>2. ASSUME NEW j \in 1 .. (n - 1), NEW k \in 1 .. (n - 1), j < k
        PROVE  queue'[j] < queue'[k]
    <3>1. j + 1 \in 1 .. n /\ k + 1 \in 1 .. n /\ j + 1 < k + 1
      BY <1>1, <2>2
    <3> QED
      BY <1>1, <1>4, <3>1
  <2> QED
    BY <1>1, <2>1, <2>2 DEF InOrder
<1>6. ASSUME NEW i
      PROVE  /\ i \in QueuedIds <=> i = cur' \/ i \in QueuedIds'
             /\ ~(i = cur' /\ i \in QueuedIds')
  <2>1. i \in QueuedIds <=> \E k \in 1 .. n : i = queue[k]
    BY DEF QueuedIds, n
  <2>2. i \in QueuedIds' <=> \E k \in 1 .. (n - 1) : i = queue'[k]
    BY <1>1 DEF QueuedIds
  <2>3. i \in QueuedIds => i = cur' \/ i \in QueuedIds'
    <3> SUFFICES ASSUME NEW k \in 1 .. n, i = queue[k], k # 1
                 PROVE  i \in QueuedIds'
      BY <1>1, <2>1
    <3>1. k - 1 \in 1 .. (n - 1) /\ (k - 1) + 1 = k
      BY <1>1
    <3> QED
      BY <1>1, <2>2, <3>1
  <2>4. i = cur' => i \in QueuedIds
    <3>1. 1 \in 1 .. n
      BY <1>1
    <3> QED
      BY <1>1, <2>1, <3>1
  <2>5. i \in QueuedIds' => i \in QueuedIds
    <3> SUFFICES ASSUME NEW k \in 1 .. (n - 1), i = queue'[k]
                 PROVE  i \in QueuedIds
      BY <2>2
    <3>1. k + 1 \in 1 .. n
      BY <1>1
    <3> QED
      BY <1>1, <2>1, <3>1
  <2>6. ~(i = cur' /\ i \in QueuedIds')
    <3> SUFFICES ASSUME NEW k \in 1 .. (n - 1), cur' = queue'[k]
                 PROVE  FALSE
      BY <2>2
    <3>1. cur' < queue'[k]
      BY <1>1, <1>5 DEF InOrder
    <3>2. cur' \in Nat
      BY <1>3 DEF Taken
    <3>3. cur' < cur'
      BY <3>1
    <3> QED
      BY <3>2, <3>3
  <2> QED
    BY <2>3, <2>4, <2>5, <2>6
<1>7. ASSUME NEW i \in Ids
      PROVE  Counted(i)' = 1
  <2>1. Counted(i) = 1 /\ i \in Nat /\ ends[i] \in Nat
    BY IdsAreNatural DEF IInv, Accounted, Counted, Taken
  <2>2. ends'[i] = IF i = cur THEN ends[i] + 1 ELSE ends[i]
    BY EndedIs
  <2>3. /\ i \in QueuedIds <=> i = cur' \/ i \in QueuedIds'
        /\ ~(i = cur' /\ i \in QueuedIds')
    BY <1>6
  <2> QED
    BY <2>1, <2>2, <2>3 DEF Counted
<1>8. Accounted'
  BY <1>7 DEF Accounted, Counted
<1> QED
  BY <1>3, <1>5, <1>8 DEF IInv

(* The current item ends and nothing waits, or nothing is looked at yet. *)
LEMMA EndedKeeps ==
    ASSUME IInv, UNCHANGED <<queue, accepted>>, cur' = None, ends' = Ended({cur})
    PROVE  IInv'
<1>1. Taken'
  BY EndedType DEF IInv, Taken, None
<1>2. \A k \in 1 .. Len(queue) : queue[k] \in Nat /\ cur < queue[k]
  BY ElementOfSeq DEF IInv, Taken, InOrder
<1>3. InOrder'
  <2>1. ASSUME NEW k \in 1 .. Len(queue)
        PROVE  0 < queue[k]
    BY <1>2 DEF IInv, Taken
  <2> QED
    BY <2>1 DEF IInv, InOrder, None
<1>4. ASSUME NEW i \in Ids
      PROVE  Counted(i)' = 1
  <2>1. Counted(i) = 1 /\ i \in Nat /\ i # None /\ ends[i] \in Nat
    BY IdsAreNatural DEF IInv, Accounted, Counted, Taken
  <2>2. ends'[i] = IF i = cur THEN ends[i] + 1 ELSE ends[i]
    BY EndedIs
  <2>3. QueuedIds' = QueuedIds
    BY DEF QueuedIds
  <2> QED
    BY <2>1, <2>2, <2>3 DEF Counted
<1>5. Accounted'
  BY <1>4 DEF Accounted, Counted
<1> QED
  BY <1>1, <1>3, <1>5 DEF IInv

(* An item taken from the channel is the next one, and goes to the end. *)
LEMMA EnqueuedKeeps ==
    ASSUME IInv, accepted' = accepted + 1, queue' = Append(queue, accepted + 1), UNCHANGED <<cur, ends>>
    PROVE  IInv'
<1> DEFINE n == Len(queue)
           a == accepted + 1
<1>1. /\ n \in Nat /\ a \in Nat /\ queue' \in Seq(Nat) /\ Len(queue') = n + 1
      /\ queue'[n + 1] = a /\ \A k \in 1 .. n : queue'[k] = queue[k]
  BY AppendProperties, LenProperties DEF IInv, Taken
<1>2. \A k \in 1 .. n : queue[k] \in Nat /\ queue[k] <= accepted
  BY ElementOfSeq DEF IInv, Taken
<1>3. accepted \in Nat /\ cur \in Nat /\ cur <= accepted /\ accepted < a
  BY DEF IInv, Taken
<1>4. /\ \A k \in 1 .. n : cur < queue[k]
      /\ \A j, k \in 1 .. n : j < k => queue[j] < queue[k]
  BY DEF IInv, InOrder
<1>5. accepted' = a
  OBVIOUS
<1>6. \A i : i \in QueuedIds <=> \E k \in 1 .. n : i = queue[k]
  BY DEF QueuedIds
<1> HIDE DEF n, a
<1>7. \A k \in 1 .. (n + 1) : k = n + 1 \/ k \in 1 .. n
  BY <1>1
<1>8. Taken'
  <2>1. ASSUME NEW k \in 1 .. (n + 1)
        PROVE  queue'[k] <= a
    BY <1>1, <1>2, <1>3, <1>7
  <2> QED
    BY <1>1, <1>3, <1>5, <2>1 DEF IInv, Taken
<1>9. InOrder'
  <2>1. ASSUME NEW k \in 1 .. (n + 1)
        PROVE  cur < queue'[k]
    BY <1>1, <1>3, <1>4, <1>7
  <2>2. ASSUME NEW j \in 1 .. (n + 1), NEW k \in 1 .. (n + 1), j < k
        PROVE  queue'[j] < queue'[k]
    <3>1. j \in 1 .. n
      BY <1>1, <2>2
    <3>2. CASE k = n + 1
      BY <1>1, <1>2, <1>3, <3>1, <3>2
    <3>3. CASE k \in 1 .. n
      BY <1>1, <1>4, <2>2, <3>1, <3>3
    <3> QED
      BY <1>7, <3>2, <3>3
  <2> QED
    BY <1>1, <2>1, <2>2 DEF InOrder
<1>10. ASSUME NEW i \in Ids
       PROVE  Counted(i)' = 1
  <2>1. Counted(i) = 1 /\ i \in Nat /\ ends[i] \in Nat
    BY IdsAreNatural DEF IInv, Accounted, Counted, Taken
  <2>2. i \in QueuedIds' <=> \E k \in 1 .. (n + 1) : i = queue'[k]
    BY <1>1 DEF QueuedIds
  <2>3. i \in QueuedIds' <=> i \in QueuedIds \/ i = a
    <3>1. n + 1 \in 1 .. (n + 1) /\ \A k \in 1 .. n : k \in 1 .. (n + 1)
      BY <1>1
    <3> QED
      BY <1>1, <1>6, <1>7, <2>2, <3>1
  <2>4. i = a => i \notin QueuedIds
    BY <1>2, <1>3, <1>6
  <2>5. i > a <=> i > accepted /\ i # a
    BY <1>3, <2>1 DEF a
  <2> QED
    BY <1>3, <1>5, <2>1, <2>3, <2>4, <2>5 DEF Counted
<1>11. Accounted'
  BY <1>10 DEF Accounted, Counted
<1> QED
  BY <1>8, <1>9, <1>11 DEF IInv

(* The items of a call, through every order of cancels and stream ends. *)
THEOREM Invariant == Spec => []IInv
<1>1. Init => IInv
  <2> SUFFICES ASSUME Init
               PROVE  IInv
    OBVIOUS
  <2>1. /\ queue = <<>> /\ cur = 0 /\ accepted = 0 /\ ends = [i \in Ids |-> 0]
        /\ queue \in Seq(Nat) /\ Len(queue) = 0 /\ QueuedIds = {}
    BY EmptySeq DEF Init, None, QueuedIds
  <2>2. Taken /\ InOrder
    BY <2>1 DEF Taken, InOrder
  <2>3. ASSUME NEW i \in Ids
        PROVE  Counted(i) = 1
    BY <2>1, IdsAreNatural DEF Counted, None
  <2> QED
    BY <2>2, <2>3 DEF IInv, Accounted, Counted
<1>2. IInv /\ [Next]_vars => IInv'
  <2> SUFFICES ASSUME IInv, [Next]_vars
               PROVE  IInv'
    OBVIOUS
  <2>1. CASE Session \/ TakeEvent \/ Tts \/ UNCHANGED vars
    BY <2>1, Untouched DEF Session, Say, Interrupt, TakeEvent, Tts, StreamChunk, StreamEnds, vars, itemVars
  <2>2. CASE SendFrame \/ NoFrame \/ LeadReached \/ ReportIdle \/ Data \/ Tick
    BY <2>2, Untouched DEF SendFrame, NoFrame, LeadReached, ReportIdle, Data, Tick, itemVars
  <2>3. CASE NextItem
    <3>1. accepted' = accepted /\ ends' = Ended({cur})
      BY <2>3 DEF NextItem
    <3>2. CASE queue = <<>>
      BY <2>3, <3>1, <3>2, EndedKeeps DEF NextItem
    <3>3. CASE queue # <<>>
      BY <2>3, <3>1, <3>3, StartedKeeps DEF NextItem
    <3> QED
      BY <3>2, <3>3
  <2>4. CASE ReportFinished
    BY <2>4, EndedKeeps DEF ReportFinished
  <2>5. CASE RecvEnqueue
    BY <2>5, EnqueuedKeeps DEF RecvEnqueue, itemVars
  <2>6. CASE CancelHard
    <3>1. queue' = <<>> /\ accepted' = accepted /\ cur' = None /\ ends' = Ended(({cur} \ {None}) \cup QueuedIds)
      BY <2>6 DEF CancelHard, Drop
    <3>2. Ended(({cur} \ {None}) \cup QueuedIds) = Ended({cur} \cup QueuedIds)
      BY IdsAreNatural DEF Ended
    <3> QED
      BY <3>1, <3>2, EmptiedKeeps
  <2>7. CASE CancelSoft
    BY <2>7, EmptiedKeeps DEF CancelSoft, Drop
  <2> QED
    BY <2>1, <2>2, <2>3, <2>4, <2>5, <2>6, <2>7 DEF Next, Run
<1> QED
  BY <1>1, <1>2, PTL DEF Spec

(* No item is lost, none ends twice, and they play in the order in which they   *)
(* were said (InPlace; the playout's loop).                                     *)
THEOREM InPlaceHolds == Spec => []InPlace
<1>1. IInv => InPlace
  BY DEF IInv, InPlace
<1> QED
  BY <1>1, Invariant, PTL

-----------------------------------------------------------------------------
(***************************************************************************)
(* The session's count.  What is counted is on its way to the task, with   *)
(* it, or on its way back: the first is what the channel of commands       *)
(* holds, the last what the channel of events does.                        *)
(***************************************************************************)

(* The items on their way to the task. *)
Sayings(cs) == {i \in 1 .. Len(cs) : cs[i] = "enqueue"}

LEMMA SayingsFinite ==
    ASSUME NEW cs \in Seq(S!Commands)
    PROVE  IsFiniteSet(Sayings(cs)) /\ Cardinality(Sayings(cs)) \in Nat
<1>1. IsFiniteSet(1 .. Len(cs))
  BY FS_Interval
<1>2. IsFiniteSet(Sayings(cs))
  BY <1>1, FS_Subset DEF Sayings
<1> QED
  BY <1>2, FS_CardinalityType

(* A command that is sent is an item, or not. *)
LEMMA SayingsAppend ==
    ASSUME NEW cs \in Seq(S!Commands), NEW c \in S!Commands
    PROVE  /\ Append(cs, c) \in Seq(S!Commands)
           /\ Cardinality(Sayings(Append(cs, c)))
                = Cardinality(Sayings(cs)) + (IF c = "enqueue" THEN 1 ELSE 0)
<1> DEFINE ds == Append(cs, c)
<1>1. /\ ds \in Seq(S!Commands)
      /\ Len(ds) = Len(cs) + 1 /\ Len(cs) \in Nat
      /\ ds[Len(cs) + 1] = c
      /\ \A i \in 1 .. Len(cs) : ds[i] = cs[i]
  BY AppendProperties, LenProperties
<1> HIDE DEF ds
<1>2. Len(cs) + 1 \notin Sayings(cs)
  BY <1>1 DEF Sayings
<1>3. IsFiniteSet(Sayings(cs)) /\ Cardinality(Sayings(cs)) \in Nat
  BY SayingsFinite
<1>4. CASE c = "enqueue"
  <2>1. Sayings(ds) = Sayings(cs) \cup {Len(cs) + 1}
    BY <1>1, <1>4 DEF Sayings
  <2>2. Cardinality(Sayings(cs) \cup {Len(cs) + 1}) = Cardinality(Sayings(cs)) + 1
    BY <1>2, <1>3, FS_AddElement
  <2> QED
    BY <1>1, <1>4, <2>1, <2>2 DEF ds
<1>5. CASE c # "enqueue"
  <2>1. Sayings(ds) = Sayings(cs)
    BY <1>1, <1>5 DEF Sayings
  <2>2. Cardinality(Sayings(ds)) = Cardinality(Sayings(cs)) + 0
    BY <1>3, <2>1
  <2> QED
    BY <1>1, <1>5, <2>2 DEF ds
<1> QED
  BY <1>4, <1>5

(* A set of pairs and the same with the first halves one further have as many. *)
LEMMA ShiftedCount ==
    ASSUME NEW A, IsFiniteSet(A), NEW B, NEW f \in [A -> B],
           \A x, y \in A : f[x] = f[y] => x = y,
           \A b \in B : \E x \in A : f[x] = b
    PROVE  IsFiniteSet(B) /\ Cardinality(B) = Cardinality(A)
<1>1. f \in Bijection(A, B)
  BY Zenon DEF Bijection, Injection, Surjection, IsInjective
<1> QED
  BY <1>1, FS_Bijection DEF ExistsBijection

(* The command that is taken was an item, or not. *)
LEMMA SayingsTail ==
    ASSUME NEW cs \in Seq(S!Commands), cs # <<>>
    PROVE  /\ Tail(cs) \in Seq(S!Commands)
           /\ Cardinality(Sayings(cs))
                = Cardinality(Sayings(Tail(cs))) + (IF Head(cs) = "enqueue" THEN 1 ELSE 0)
<1> DEFINE ds == Tail(cs)
           T == {i \in 2 .. Len(cs) : cs[i] = "enqueue"}
           f == [i \in Sayings(ds) |-> i + 1]
<1>1. /\ Len(cs) \in Nat /\ Len(cs) > 0 /\ Len(ds) = Len(cs) - 1
      /\ ds \in Seq(S!Commands) /\ Head(cs) = cs[1]
      /\ \A i \in 1 .. Len(ds) : ds[i] = cs[i + 1]
  BY HeadTailProperties, LenProperties, EmptySeq
<1> HIDE DEF ds
<1>2. f \in [Sayings(ds) -> T]
  BY <1>1 DEF Sayings
<1>3. \A i, j \in Sayings(ds) : f[i] = f[j] => i = j
  BY DEF Sayings
<1>4. \A t \in T : \E i \in Sayings(ds) : f[i] = t
  <2> TAKE t \in T
  <2>1. t - 1 \in Sayings(ds)
    BY <1>1 DEF Sayings
  <2>2. f[t - 1] = t
    BY <2>1
  <2> QED
    BY <2>1, <2>2, Zenon
<1>5. IsFiniteSet(Sayings(ds)) /\ Cardinality(Sayings(ds)) \in Nat
  BY <1>1, SayingsFinite
<1> HIDE DEF f
<1>6. IsFiniteSet(T) /\ Cardinality(T) = Cardinality(Sayings(ds))
  BY <1>2, <1>3, <1>4, <1>5, ShiftedCount
<1>7. CASE Head(cs) = "enqueue"
  <2>1. Sayings(cs) = T \cup {1}
    BY <1>1, <1>7 DEF Sayings
  <2>2. 1 \notin T
    OBVIOUS
  <2>3. Cardinality(T \cup {1}) = Cardinality(T) + 1
    BY <1>6, <2>2, FS_AddElement
  <2> QED
    BY <1>1, <1>6, <1>7, <2>1, <2>3 DEF ds
<1>8. CASE Head(cs) # "enqueue"
  <2>1. Sayings(cs) = T
    BY <1>1, <1>8 DEF Sayings
  <2>2. Cardinality(Sayings(cs)) = Cardinality(Sayings(ds)) + 0
    BY <1>5, <1>6, <2>1
  <2> QED
    BY <1>1, <1>8, <2>2 DEF ds
<1> QED
  BY <1>7, <1>8

(* One event's ends. *)
Row(i, n) == {<<i, k>> : k \in 1 .. n}

LEMMA RowCount ==
    ASSUME NEW i, NEW n \in Nat
    PROVE  IsFiniteSet(Row(i, n)) /\ Cardinality(Row(i, n)) = n
<1> DEFINE f == [k \in 1 .. n |-> <<i, k>>]
<1>1. IsFiniteSet(1 .. n) /\ Cardinality(1 .. n) = n
  BY FS_Interval
<1>2. f \in [1 .. n -> Row(i, n)]
  BY DEF Row
<1>3. \A x, y \in 1 .. n : f[x] = f[y] => x = y
  OBVIOUS
<1>4. \A b \in Row(i, n) : \E x \in 1 .. n : f[x] = b
  BY DEF Row
<1> HIDE DEF f
<1> QED
  BY <1>1, <1>2, <1>3, <1>4, ShiftedCount

LEMMA AnnouncedIs ==
    ASSUME NEW es
    PROVE  Announced(es) = UNION {Row(i, es[i].n) : i \in 1 .. Len(es)}
  BY DEF Announced, Row

LEMMA AnnouncedFinite ==
    ASSUME NEW es \in Seq(S!Events)
    PROVE  IsFiniteSet(Announced(es)) /\ Cardinality(Announced(es)) \in Nat
<1> DEFINE rows == {Row(i, es[i].n) : i \in 1 .. Len(es)}
           f == [i \in 1 .. Len(es) |-> Row(i, es[i].n)]
<1>1. IsFiniteSet(1 .. Len(es))
  BY FS_Interval
<1>2. f \in Surjection(1 .. Len(es), rows)
  BY DEF Surjection
<1>3. IsFiniteSet(rows)
  BY <1>1, <1>2, FS_Surjection
<1>4. \A i \in 1 .. Len(es) : es[i].n \in Nat
  <2>1. \A e \in S!Events : e.n \in Nat
    BY DEF S!Events
  <2> QED
    BY <2>1, ElementOfSeq
<1>5. \A r \in rows : IsFiniteSet(r)
  BY <1>4, RowCount
<1>6. IsFiniteSet(UNION rows)
  BY <1>3, <1>5, FS_UNION
<1> QED
  BY <1>6, AnnouncedIs, FS_CardinalityType

(* An event that is sent brings the ends it says. *)
LEMMA AnnouncedAppend ==
    ASSUME NEW es \in Seq(S!Events), NEW e \in S!Events
    PROVE  /\ es \o <<e>> \in Seq(S!Events)
           /\ Cardinality(Announced(es \o <<e>>)) = Cardinality(Announced(es)) + e.n
<1> DEFINE ds == es \o <<e>>
           m == Len(es) + 1
<1>1. e.n \in Nat
  BY DEF S!Events
<1>2. /\ ds \in Seq(S!Events) /\ Len(es) \in Nat /\ Len(ds) = m /\ ds[m] = e
      /\ \A i \in 1 .. Len(es) : ds[i] = es[i]
  OBVIOUS
<1> HIDE DEF ds
<1>3. Announced(ds) = Announced(es) \cup Row(m, e.n)
  <2>1. {Row(i, ds[i].n) : i \in 1 .. Len(ds)}
          = {Row(i, es[i].n) : i \in 1 .. Len(es)} \cup {Row(m, e.n)}
    <3>1. 1 .. Len(ds) = (1 .. Len(es)) \cup {m}
      BY <1>2
    <3>2. \A i \in 1 .. Len(es) : Row(i, ds[i].n) = Row(i, es[i].n)
      BY <1>2
    <3>3. Row(m, ds[m].n) = Row(m, e.n)
      BY <1>2
    <3> QED
      BY ONLY <3>1, <3>2, <3>3, Zenon
  <2> QED
    BY <2>1, AnnouncedIs, Zenon
<1>4. Announced(es) \cap Row(m, e.n) = {}
  BY <1>2 DEF Announced, Row
<1>5. IsFiniteSet(Announced(es)) /\ Cardinality(Announced(es)) \in Nat
  BY AnnouncedFinite
<1>6. IsFiniteSet(Row(m, e.n)) /\ Cardinality(Row(m, e.n)) = e.n
  BY <1>1, RowCount
<1>7. Cardinality(Announced(es) \cup Row(m, e.n)) = Cardinality(Announced(es)) + e.n - 0
  BY <1>4, <1>5, <1>6, FS_Union, FS_EmptySet
<1>8. Cardinality(Announced(ds)) = Cardinality(Announced(es)) + e.n
  BY <1>1, <1>3, <1>5, <1>7
<1> QED
  BY <1>2, <1>8 DEF ds
(* The event that is taken takes its ends with it. *)
LEMMA AnnouncedTail ==
    ASSUME NEW es \in Seq(S!Events), es # <<>>
    PROVE  /\ Tail(es) \in Seq(S!Events) /\ Head(es).n \in Nat
           /\ Cardinality(Announced(es)) = Cardinality(Announced(Tail(es))) + Head(es).n
<1> DEFINE ds == Tail(es)
           n == Head(es).n
           T == UNION {Row(i, es[i].n) : i \in 2 .. Len(es)}
           f == [p \in Announced(ds) |-> <<p[1] + 1, p[2]>>]
<1>1. /\ Len(es) \in Nat /\ Len(es) > 0 /\ Len(ds) = Len(es) - 1
      /\ ds \in Seq(S!Events) /\ Head(es) = es[1] /\ Head(es) \in S!Events
      /\ \A i \in 1 .. Len(ds) : ds[i] = es[i + 1]
  BY HeadTailProperties, LenProperties, EmptySeq
<1>2. n \in Nat
  BY <1>1 DEF S!Events
<1> HIDE DEF ds, n
<1>3. ASSUME NEW p
      PROVE  p \in Announced(ds) <=> \E i \in 1 .. Len(ds) : \E k \in 1 .. ds[i].n : p = <<i, k>>
  BY DEF Announced
<1>4. ASSUME NEW p
      PROVE  p \in T <=> \E i \in 2 .. Len(es) : \E k \in 1 .. es[i].n : p = <<i, k>>
  BY DEF Row
<1> HIDE DEF T
<1>5. ASSUME NEW p \in Announced(ds)
      PROVE  f[p] \in T /\ p = <<p[1], p[2]>> /\ p[1] \in Nat /\ f[p] = <<p[1] + 1, p[2]>>
  <2>0. PICK i \in 1 .. Len(ds) : \E k \in 1 .. ds[i].n : p = <<i, k>>
    BY <1>3
  <2>1. PICK k \in 1 .. ds[i].n : p = <<i, k>>
    BY <2>0
  <2>2. f[p] = <<i + 1, k>> /\ p[1] = i /\ p[2] = k
    BY <2>1
  <2>3. i + 1 \in 2 .. Len(es) /\ ds[i] = es[i + 1]
    BY <1>1, <2>1
  <2>4. k \in 1 .. es[i + 1].n
    BY <2>1, <2>3
  <2>5. <<i + 1, k>> \in T
    BY <1>4, <2>3, <2>4
  <2> QED
    BY <2>1, <2>2, <2>5
<1>6. f \in [Announced(ds) -> T]
  BY <1>5
<1>7. \A x, y \in Announced(ds) : f[x] = f[y] => x = y
  <2> SUFFICES ASSUME NEW x \in Announced(ds), NEW y \in Announced(ds), f[x] = f[y]
               PROVE  x = y
    OBVIOUS
  <2>1. x[1] + 1 = y[1] + 1 /\ x[2] = y[2] /\ x[1] \in Nat /\ y[1] \in Nat
    BY <1>5
  <2>2. x[1] = y[1]
    BY <2>1
  <2> QED
    BY <1>5, <2>1, <2>2
<1>8. \A t \in T : \E x \in Announced(ds) : f[x] = t
  <2> TAKE t \in T
  <2>0. PICK i \in 2 .. Len(es) : \E k \in 1 .. es[i].n : t = <<i, k>>
    BY <1>4
  <2>1. PICK k \in 1 .. es[i].n : t = <<i, k>>
    BY <2>0
  <2>2. i - 1 \in 1 .. Len(ds) /\ (i - 1) + 1 = i
    BY <1>1
  <2>3. ds[i - 1] = es[i]
    BY <1>1, <2>2
  <2>4. <<i - 1, k>> \in Announced(ds)
    BY <1>3, <2>2, <2>3
  <2>5. f[<<i - 1, k>>] = <<(i - 1) + 1, k>>
    BY <2>4
  <2> QED
    BY <2>1, <2>2, <2>4, <2>5
<1>9. IsFiniteSet(Announced(ds)) /\ Cardinality(Announced(ds)) \in Nat
  BY <1>1, AnnouncedFinite
<1> HIDE DEF f
<1>10. IsFiniteSet(T) /\ Cardinality(T) = Cardinality(Announced(ds))
  BY <1>6, <1>7, <1>8, <1>9, ShiftedCount
<1>11. Announced(es) = Row(1, n) \cup T
  <2>1. ASSUME NEW p
        PROVE  p \in Announced(es) <=> \E i \in 1 .. Len(es) : \E k \in 1 .. es[i].n : p = <<i, k>>
    BY DEF Announced
  <2>2. ASSUME NEW p
        PROVE  p \in Row(1, n) <=> \E k \in 1 .. es[1].n : p = <<1, k>>
    BY <1>1 DEF Row, n
  <2>3. ASSUME NEW i
        PROVE  i \in 1 .. Len(es) <=> i = 1 \/ i \in 2 .. Len(es)
    BY <1>1
  <2> QED
    BY ONLY <1>4, <2>1, <2>2, <2>3, Zenon
<1>12. Row(1, n) \cap T = {}
  BY <1>4 DEF Row
<1>13. IsFiniteSet(Row(1, n)) /\ Cardinality(Row(1, n)) = n
  BY <1>2, RowCount
<1>14. Cardinality(Row(1, n) \cup T) = n + Cardinality(T) - 0
  BY <1>10, <1>12, <1>13, FS_Union, FS_EmptySet
<1>15. Cardinality(Announced(es)) = Cardinality(Announced(ds)) + n
  BY <1>2, <1>9, <1>10, <1>11, <1>14
<1> QED
  BY <1>1, <1>2, <1>15 DEF ds, n

LEMMA AnnouncedNone == Cardinality(Announced(<<>>)) = 0
<1>1. Announced(<<>>) = {}
  BY DEF Announced
<1> QED
  BY <1>1, FS_EmptySet

(* The events an interruption has when the condition holds. *)
LEMMA AnnouncedIf ==
    ASSUME NEW es \in Seq(S!Events), NEW cond \in BOOLEAN, NEW kind \in S!EventKinds, NEW n \in Nat
    PROVE  /\ es \o S!EventIf(cond, kind, n) \in Seq(S!Events)
           /\ Cardinality(Announced(es \o S!EventIf(cond, kind, n)))
                = Cardinality(Announced(es)) + (IF cond THEN n ELSE 0)
<1>1. CASE cond
  <2> DEFINE e == [kind |-> kind, n |-> n]
  <2>1. e \in S!Events /\ e.n = n /\ S!EventIf(cond, kind, n) = <<e>>
    BY <1>1 DEF S!EventIf, S!Event, S!Events
  <2> HIDE DEF e
  <2> QED
    BY <1>1, <2>1, AnnouncedAppend
<1>2. CASE ~cond
  <2>1. S!EventIf(cond, kind, n) = <<>>
    BY <1>2 DEF S!EventIf
  <2>2. es \o <<>> = es
    BY ConcatEmptySeq
  <2>3. Cardinality(Announced(es)) \in Nat
    BY AnnouncedFinite
  <2> QED
    BY <1>2, <2>1, <2>2, <2>3
<1> QED
  BY <1>1, <1>2
(* The items the task has, and the ends on their way back. *)
With == Len(queue) + (IF cur = None THEN 0 ELSE 1)
Coming == Cardinality(Announced(evs))

Channels ==
    /\ said \in Nat /\ queued \in Nat
    /\ cmds \in Seq(S!Commands) /\ evs \in Seq(S!Events)
    /\ said = accepted + Cardinality(Sayings(cmds))

QInv == Channels /\ QueuedIsExact

(* The items on their way to the task, as a number. *)
OnWay == Cardinality(Sayings(cmds))

LEMMA CountTypes ==
    ASSUME IInv, QInv
    PROVE  /\ OnWay \in Nat /\ Coming \in Nat /\ With \in Nat
           /\ said \in Nat /\ queued \in Nat /\ accepted \in Nat /\ Len(queue) \in Nat
           /\ said = accepted + OnWay
           /\ queued = OnWay + With + Coming
<1>1. OnWay \in Nat /\ Coming \in Nat
  BY SayingsFinite, AnnouncedFinite DEF QInv, Channels, Coming, OnWay
<1>2. Len(queue) \in Nat /\ accepted \in Nat /\ said \in Nat /\ queued \in Nat
  BY LenProperties DEF IInv, Taken, QInv, Channels
<1>3. said = accepted + OnWay
  BY DEF QInv, Channels, OnWay
<1> DEFINE c == IF cur = None THEN 0 ELSE 1
           l == Len(queue)
<1>4. c \in Nat /\ l \in Nat /\ With = l + c
  BY <1>2 DEF With
<1>5. queued = (said - accepted) + l + c + Coming
  BY DEF QInv, QueuedIsExact, Coming
<1> HIDE DEF c, l
<1>6. With \in Nat /\ queued = OnWay + With + Coming
  BY ONLY <1>1, <1>2, <1>3, <1>4, <1>5
<1> QED
  BY <1>1, <1>2, <1>3, <1>6

LEMMA CountFrom ==
    ASSUME cmds' \in Seq(S!Commands), evs' \in Seq(S!Events), Len(queue)' \in Nat,
           said' \in Nat, queued' \in Nat, accepted' \in Nat,
           said' = accepted' + OnWay', queued' = OnWay' + With' + Coming'
    PROVE  QInv'
<1>1. OnWay' \in Nat /\ Coming' \in Nat
  BY SayingsFinite, AnnouncedFinite DEF Coming, OnWay
<1> DEFINE c == IF cur' = None THEN 0 ELSE 1
           l == Len(queue')
<1>2. c \in Nat /\ l \in Nat /\ With' = l + c
  BY DEF With
<1> HIDE DEF c, l
<1>3. /\ said' \in Nat /\ accepted' \in Nat /\ said' = accepted' + OnWay'
      /\ queued' = OnWay' + With' + Coming'
  OBVIOUS
<1>31. queued' = (said' - accepted') + l + c + Coming'
  BY ONLY <1>1, <1>2, <1>3
<1>4. QueuedIsExact'
  BY <1>31 DEF QueuedIsExact, Coming, c, l
<1>5. Channels'
  BY DEF Channels, OnWay
<1> QED
  BY <1>4, <1>5 DEF QInv

(* The task moves items and reports ends: what it has and what comes back
   together stay what they were. *)
LEMMA MovedKeeps ==
    ASSUME IInv, QInv, UNCHANGED <<said, queued>>, accepted' = accepted,
           cmds' \in Seq(S!Commands), OnWay' = OnWay,
           evs' \in Seq(S!Events), Len(queue)' \in Nat, With' + Coming' = With + Coming
    PROVE  QInv'
<1>1. Coming' \in Nat /\ With' \in Nat
  BY AnnouncedFinite DEF Coming, With
<1>2. /\ OnWay \in Nat /\ Coming \in Nat /\ With \in Nat
      /\ said \in Nat /\ queued \in Nat /\ accepted \in Nat
      /\ said = accepted + OnWay
      /\ queued = OnWay + With + Coming
  BY CountTypes
<1>3. queued' = queued /\ OnWay' = OnWay /\ With' + Coming' = With + Coming
  OBVIOUS
<1>31. \A o, w, c \in Nat : o + w + c = o + (w + c)
  OBVIOUS
<1>4. queued' = OnWay' + With' + Coming'
  <2>1. OnWay + With + Coming = OnWay + (With + Coming)
    BY ONLY <1>2, <1>31
  <2>2. OnWay + With' + Coming' = OnWay + (With' + Coming')
    BY ONLY <1>1, <1>2, <1>31
  <2>3. queued' = OnWay + With' + Coming'
    BY ONLY <1>2, <1>3, <2>1, <2>2, Zenon
  <2> QED
    BY ONLY <1>3, <2>3, Zenon
<1> QED
  BY <1>2, <1>4, CountFrom

(* Session and TTS tasks. *)
LEMMA SessionCounts ==
    ASSUME IInv, QInv, Session \/ TakeEvent \/ Tts
    PROVE  QInv'
<1>0. /\ OnWay \in Nat /\ Coming \in Nat /\ With \in Nat
      /\ said \in Nat /\ queued \in Nat /\ accepted \in Nat /\ Len(queue) \in Nat
      /\ said = accepted + OnWay
      /\ queued = OnWay + With + Coming
  BY CountTypes
<1>1. ASSUME NEW clip \in BOOLEAN, Say(clip)
      PROVE  QInv'
  <2>1. /\ said' = said + 1 /\ queued' = queued + 1 /\ cmds' = Append(cmds, "enqueue")
        /\ UNCHANGED <<accepted, evs, queue, cur>>
    BY <1>1 DEF Say, itemVars
  <2>2. cmds' \in Seq(S!Commands) /\ OnWay' = OnWay + 1
    BY <2>1, SayingsAppend DEF S!Commands, QInv, Channels, OnWay
  <2>3. With' = With /\ Coming' = Coming
    BY <2>1 DEF With, Coming
  <2>4. queued' = OnWay' + With' + Coming'
    BY <1>0, <2>1, <2>2, <2>3
  <2>5. said' \in Nat /\ queued' \in Nat /\ said' = accepted' + OnWay'
    BY <1>0, <2>1, <2>2
  <2> QED
    BY <1>0, <2>1, <2>2, <2>4, <2>5, CountFrom DEF QInv, Channels
<1>2. ASSUME NEW c \in {"cancel", "soft"}, Interrupt(c)
      PROVE  QInv'
  <2>1. cmds' = Append(cmds, c) /\ UNCHANGED <<said, queued, accepted, evs, queue, cur>>
    BY <1>2 DEF Interrupt, itemVars, sessionVars
  <2>2. c \in S!Commands /\ c # "enqueue"
    BY DEF S!Commands
  <2>3. /\ cmds' \in Seq(S!Commands)
        /\ OnWay' = OnWay + 0
    BY <2>1, <2>2, SayingsAppend DEF QInv, Channels, OnWay
  <2>4. With' = With /\ Coming' = Coming
    BY <2>1 DEF With, Coming
  <2> QED
    BY <2>1, <2>3, <2>4, <1>0, MovedKeeps DEF QInv, Channels
<1>3. CASE TakeEvent
  <2> DEFINE n == Head(evs).n
  <2>1. /\ evs # <<>> /\ evs' = Tail(evs) /\ queued' = IF n > queued THEN 0 ELSE queued - n
        /\ UNCHANGED <<said, accepted, cmds, queue, cur>>
    BY <1>3 DEF TakeEvent, itemVars
  <2>2. evs' \in Seq(S!Events) /\ n \in Nat /\ Coming = Coming' + n
    BY <2>1, AnnouncedTail DEF QInv, Channels, Coming
  <2> HIDE DEF n
  <2>3. With' = With
    BY <2>1 DEF With
  <2>4. Coming' \in Nat
    BY <2>2, AnnouncedFinite DEF Coming
  <2>5. queued >= n /\ queued - n = OnWay + With + Coming' /\ OnWay + With + Coming' \in Nat
    <3>1. PICK o \in Nat, w \in Nat, c \in Nat, k \in Nat, q \in Nat :
            o = OnWay /\ w = With /\ c = Coming' /\ k = n /\ q = queued
      BY ONLY <1>0, <2>2, <2>4, Zenon
    <3>2. q = o + w + (c + k)
      BY ONLY <1>0, <2>2, <3>1, Zenon
    <3>3. q >= k /\ q - k = o + w + c /\ o + w + c \in Nat
      BY ONLY <3>2, o \in Nat, w \in Nat, c \in Nat, k \in Nat, q \in Nat
    <3> QED
      BY ONLY <3>1, <3>3, Zenon
  <2>6. queued' = queued - n
    BY <2>1, <2>2, <2>5, <1>0
  <2>7. OnWay' = OnWay
    BY <2>1 DEF OnWay
  <2>8. queued' \in Nat /\ queued' = OnWay' + With' + Coming'
    BY ONLY <2>3, <2>5, <2>6, <2>7, Zenon
  <2> QED
    BY <1>0, <2>1, <2>2, <2>7, <2>8, CountFrom DEF QInv, Channels
<1>4. CASE Tts
  <2>1. UNCHANGED <<said, queued, accepted, cmds, evs, queue, cur>>
    BY <1>4 DEF Tts, StreamChunk, StreamEnds, itemVars, sessionVars
  <2> QED
    BY <2>1 DEF QInv, Channels, QueuedIsExact
<1> QED
  BY <1>1, <1>2, <1>3, <1>4 DEF Session

(* The task. *)
LEMMA RunCounts ==
    ASSUME IInv, QInv, Run
    PROVE  QInv'
<1>0. /\ OnWay \in Nat /\ Coming \in Nat /\ With \in Nat
      /\ said \in Nat /\ queued \in Nat /\ accepted \in Nat /\ Len(queue) \in Nat
      /\ said = accepted + OnWay
      /\ queued = OnWay + With + Coming
  BY CountTypes
<1> USE DEF S!EventKinds
<1>1. evs \in Seq(S!Events) /\ cmds \in Seq(S!Commands) /\ queue \in Seq(Nat)
  BY DEF QInv, Channels, IInv, Taken
<1>2. CASE SendFrame \/ NoFrame \/ LeadReached \/ Data \/ Tick
  <2>1. UNCHANGED <<said, queued, accepted, cmds, evs, queue, cur>>
    BY <1>2 DEF SendFrame, NoFrame, LeadReached, Data, Tick, itemVars, sessionVars
  <2> QED
    BY <2>1 DEF QInv, Channels, QueuedIsExact
<1>3. CASE NextItem
  <2>1. /\ evs' = evs \o S!EventIf(cur # None, "finished", 1)
        /\ UNCHANGED <<said, queued, accepted, cmds>>
    BY <1>3 DEF NextItem, sessionVars
  <2>2. /\ evs' \in Seq(S!Events)
        /\ Coming' = Coming + (IF cur # None THEN 1 ELSE 0)
    BY <1>1, <2>1, AnnouncedIf DEF Coming
  <2>3. CASE queue = <<>>
    <3>1. With' = 0 /\ With = (IF cur # None THEN 1 ELSE 0)
      BY <1>3, <2>3 DEF NextItem, With
    <3>2. OnWay' = OnWay /\ Len(queue)' \in Nat
      BY <1>3, <2>1, <2>3 DEF OnWay, NextItem
    <3>3. With' + Coming' = With + Coming
      BY ONLY <1>0, <2>2, <3>1
    <3> QED
      BY <1>1, <2>1, <2>2, <3>2, <3>3, MovedKeeps
  <2>4. CASE queue # <<>>
    <3>1. cur' = Head(queue) /\ queue' = Tail(queue)
      BY <1>3, <2>4 DEF NextItem
    <3>2. Len(queue') = Len(queue) - 1 /\ Len(queue) \in Nat \ {0} /\ cur' = queue[1]
      BY <1>1, <2>4, <3>1, HeadTailProperties, LenProperties, EmptySeq
    <3>3. cur' # None
      BY <3>2 DEF IInv, Taken, InOrder, None
    <3>4. With' = Len(queue) /\ With = Len(queue) + (IF cur # None THEN 1 ELSE 0)
      BY <3>2, <3>3 DEF With
    <3>5. OnWay' = OnWay /\ Len(queue)' \in Nat
      BY <2>1, <3>2 DEF OnWay
    <3>6. With' + Coming' = With + Coming
      BY ONLY <1>0, <2>2, <3>4
    <3> QED
      BY <1>1, <2>1, <2>2, <3>5, <3>6, MovedKeeps
  <2> QED
    BY <2>3, <2>4
<1>4. CASE ReportFinished
  <2> DEFINE e == [kind |-> "finished", n |-> 1]
  <2>1. /\ evs' = evs \o <<e>> /\ cur # None /\ cur' = None
        /\ UNCHANGED <<said, queued, accepted, cmds, queue>>
    BY <1>4 DEF ReportFinished, sessionVars, Done, S!Event
  <2>2. e \in S!Events /\ e.n = 1
    BY DEF S!Events
  <2> HIDE DEF e
  <2>3. evs' \in Seq(S!Events) /\ Coming' = Coming + 1
    BY <1>1, <2>1, <2>2, AnnouncedAppend DEF Coming
  <2>4. With = Len(queue) + 1 /\ With' = Len(queue) + 0
    BY <2>1 DEF With
  <2>5. OnWay' = OnWay /\ Len(queue)' \in Nat
    BY <1>0, <2>1 DEF OnWay
  <2>6. With' + Coming' = With + Coming
    BY ONLY <1>0, <2>3, <2>4
  <2> QED
    BY <1>1, <2>1, <2>3, <2>5, <2>6, MovedKeeps
<1>5. CASE ReportIdle
  <2> DEFINE heard == cur = None /\ queue = <<>> /\ ahead = 0 /\ ~idle
  <2>1. /\ evs' = evs \o S!EventIf(heard, "idle", 0)
        /\ UNCHANGED <<said, queued, accepted, cmds, queue, cur>>
    BY <1>5 DEF ReportIdle, sessionVars, itemVars
  <2>2. heard \in BOOLEAN
    OBVIOUS
  <2> HIDE DEF heard
  <2>3. evs' \in Seq(S!Events) /\ Coming' = Coming + (IF heard THEN 0 ELSE 0)
    BY <1>1, <2>1, <2>2, AnnouncedIf DEF Coming
  <2>4. With' = With
    BY <2>1 DEF With
  <2>5. OnWay' = OnWay /\ Len(queue)' \in Nat
    BY <1>0, <2>1 DEF OnWay
  <2>6. With' + Coming' = With + Coming
    BY ONLY <1>0, <2>3, <2>4
  <2> QED
    BY <1>1, <2>1, <2>3, <2>5, <2>6, MovedKeeps
<1>6. CASE RecvEnqueue
  <2>1. /\ cmds # <<>> /\ Head(cmds) = "enqueue" /\ cmds' = Tail(cmds)
        /\ accepted' = accepted + 1 /\ queue' = Append(queue, accepted + 1)
        /\ UNCHANGED <<said, queued, evs, cur>>
    BY <1>6 DEF RecvEnqueue, sessionVars, itemVars
  <2>2. /\ cmds' \in Seq(S!Commands)
        /\ OnWay = OnWay' + 1
    BY <1>1, <2>1, SayingsTail DEF OnWay
  <2>3. OnWay' \in Nat
    BY <2>2, SayingsFinite DEF OnWay
  <2>4. Len(queue') = Len(queue) + 1
    BY <1>1, <2>1, <1>0, AppendProperties
  <2>5. With' = With + 1 /\ Coming' = Coming
    BY <2>1, <2>4, <1>0 DEF With, Coming
  <2>6. said' = accepted' + OnWay'
    BY <2>1, <2>2, <2>3, <1>0
  <2>7. queued' = OnWay' + With' + Coming'
    BY <1>0, <2>1, <2>2, <2>3, <2>5
  <2> QED
    BY <1>0, <1>1, <2>1, <2>2, <2>4, <2>6, <2>7, CountFrom
<1>7. ASSUME Head(cmds) # "enqueue", cmds # <<>>, cmds' = Tail(cmds)
      PROVE  /\ cmds' \in Seq(S!Commands)
             /\ OnWay' = OnWay
  <2>1. /\ cmds' \in Seq(S!Commands)
        /\ OnWay = OnWay' + 0
    BY <1>1, <1>7, SayingsTail DEF OnWay
  <2>2. OnWay' \in Nat
    BY <2>1, SayingsFinite DEF OnWay
  <2>20. \A x \in Nat : x + 0 = x
    OBVIOUS
  <2>3. OnWay' = OnWay
    BY ONLY <2>1, <2>2, <2>20, Zenon
  <2> QED
    BY <2>1, <2>3
<1>8. CASE CancelHard
  <2>1. /\ Head(cmds) # "enqueue" /\ cmds # <<>> /\ cmds' = Tail(cmds)
        /\ evs' = evs \o S!EventIf(With > 0, "cancelled", With) \o S!EventIf(~idle, "idle", 0)
        /\ cur' = None /\ queue' = <<>>
        /\ UNCHANGED <<said, queued, accepted>>
    BY <1>8 DEF CancelHard, sessionVars, With
  <2> DEFINE es == evs \o S!EventIf(With > 0, "cancelled", With)
  <2>2. With \in Nat /\ Coming \in Nat /\ (With > 0) \in BOOLEAN /\ (~idle) \in BOOLEAN
    BY <1>0
  <2>3. /\ es \in Seq(S!Events)
        /\ Cardinality(Announced(es)) = Coming + (IF With > 0 THEN With ELSE 0)
    BY <1>1, <2>2, AnnouncedIf DEF Coming
  <2>4. evs' = es \o S!EventIf(~idle, "idle", 0)
    BY <2>1
  <2> HIDE DEF es
  <2>5. /\ evs' \in Seq(S!Events)
        /\ Coming' = Cardinality(Announced(es)) + (IF ~idle THEN 0 ELSE 0)
    BY <2>2, <2>3, <2>4, AnnouncedIf DEF Coming
  <2>6. Coming' = Coming + With
    BY <2>2, <2>3, <2>5
  <2>7. With' = 0
    BY <2>1 DEF With
  <2>8. With' + Coming' = With + Coming
    BY ONLY <2>2, <2>6, <2>7
  <2>9. Len(queue)' \in Nat
    BY <2>1
  <2> QED
    BY <1>7, <2>1, <2>5, <2>8, <2>9, MovedKeeps
<1>9. CASE CancelSoft
  <2> DEFINE told == cur # None /\ spared # cur
  <2>1. /\ Head(cmds) # "enqueue" /\ cmds # <<>> /\ cmds' = Tail(cmds)
        /\ evs' = evs \o S!EventIf(told, "protected", 0)
                      \o S!EventIf(queue # <<>>, "cancelled", Len(queue))
        /\ queue' = <<>>
        /\ UNCHANGED <<said, queued, accepted, cur>>
    BY <1>9 DEF CancelSoft, sessionVars
  <2>2. told \in BOOLEAN /\ (queue # <<>>) \in BOOLEAN /\ Len(queue) \in Nat /\ Coming \in Nat
    BY <1>0
  <2> HIDE DEF told
  <2> DEFINE es == evs \o S!EventIf(told, "protected", 0)
  <2>3. /\ es \in Seq(S!Events)
        /\ Cardinality(Announced(es)) = Coming + (IF told THEN 0 ELSE 0)
    BY <1>1, <2>2, AnnouncedIf DEF Coming
  <2>4. evs' = es \o S!EventIf(queue # <<>>, "cancelled", Len(queue))
    BY <2>1
  <2> HIDE DEF es
  <2>5. /\ evs' \in Seq(S!Events)
        /\ Coming' = Cardinality(Announced(es)) + (IF queue # <<>> THEN Len(queue) ELSE 0)
    BY <2>2, <2>3, <2>4, AnnouncedIf DEF Coming
  <2>6. queue = <<>> => Len(queue) = 0
    OBVIOUS
  <2>7. Coming' = Coming + Len(queue)
    BY <2>2, <2>3, <2>5, <2>6
  <2>8. With = Len(queue) + With' /\ With' \in Nat
    BY <2>1, <2>2 DEF With
  <2>9. With' + Coming' = With + Coming
    BY ONLY <2>2, <2>7, <2>8
  <2>10. Len(queue)' \in Nat
    BY <2>1
  <2> QED
    BY <1>7, <2>1, <2>5, <2>9, <2>10, MovedKeeps
<1> QED
  BY <1>2, <1>3, <1>4, <1>5, <1>6, <1>8, <1>9 DEF Run

(* The counts that the session's own rests on. *)
THEOREM CountInvariant == Spec => []QInv
<1>1. Init => QInv
  <2> SUFFICES ASSUME Init
               PROVE  QInv
    OBVIOUS
  <2>1. /\ said = 0 /\ accepted = 0 /\ queued = 0 /\ cmds = <<>> /\ evs = <<>>
        /\ queue = <<>> /\ cur = None
    BY DEF Init
  <2>2. Sayings(<<>>) = {}
    BY DEF Sayings
  <2>3. Cardinality(Sayings(cmds)) = 0
    BY <2>1, <2>2, FS_EmptySet
  <2>4. Channels
    BY <2>1, <2>3 DEF Channels
  <2>5. QueuedIsExact
    BY <2>1, AnnouncedNone DEF QueuedIsExact
  <2> QED
    BY <2>4, <2>5 DEF QInv
<1>2. IInv /\ QInv /\ [Next]_vars => QInv'
  <2>1. ASSUME UNCHANGED vars, QInv
        PROVE  QInv'
    BY <2>1 DEF vars, QInv, Channels, QueuedIsExact
  <2> QED
    BY <2>1, SessionCounts, RunCounts DEF Next
<1> QED
  BY <1>1, <1>2, Invariant, PTL DEF Spec

(* The session's count of what has not ended is exact, and its saturating
   subtraction never saturates (QueuedIsExact; Session::on_playout), whatever
   is said, cut off or spared, and however late the events are taken. *)
THEOREM QueuedIsExactHolds == Spec => []QueuedIsExact
<1>1. QInv => QueuedIsExact
  BY DEF QInv
<1> QED
  BY <1>1, CountInvariant, PTL
-----------------------------------------------------------------------------
(***************************************************************************)
(* The refinement.  Every step of the task is a step of the Speaker or     *)
(* none, and only one of them needs an invariant: an item ends after a     *)
(* sound, unless its stream failed.  So as long as nothing was heard of an *)
(* item, it has a frame to play, or one still to come.                     *)
(***************************************************************************)

ToSound(i) ==
    /\ i \notin streams \/ i \in fed => left[i] > 0
    /\ i \in streams => i \in open \/ i \in fed \/ StreamMayFail

Streams ==
    /\ left \in [Ids -> Nat] /\ idle \in BOOLEAN /\ said <= MaxItems
    /\ \A i \in streams : i \in Ids /\ i <= said
    /\ fed \subseteq streams /\ open \subseteq streams

Waiting == \A i \in Ids : i <= said /\ (i > accepted \/ i \in QueuedIds) => ToSound(i)

Unheard == cur # None /\ idle => ToSound(cur)

SeenEnd == cur # None /\ cur \in streams /\ streamDone => cur \notin open

RInv == Streams /\ Waiting /\ Unheard /\ SeenEnd

LEMMA WhereItemsAre ==
    ASSUME IInv, QInv, RInv
    PROVE  /\ said \in Nat /\ accepted \in Nat /\ accepted <= said /\ said <= MaxItems
           /\ MaxItems \in Nat
           /\ cur \in Nat /\ cur <= accepted /\ (cur # None => cur \in Ids)
           /\ \A i \in QueuedIds : i \in Ids /\ i <= accepted /\ i # cur /\ i # None
<1>1. said \in Nat /\ accepted \in Nat /\ accepted <= said /\ said <= MaxItems /\ MaxItems \in Nat
  <2>1. /\ OnWay \in Nat /\ said \in Nat /\ accepted \in Nat /\ said = accepted + OnWay
    BY CountTypes
  <2>2. accepted <= said
    BY ONLY <2>1
  <2> QED
    BY <2>1, <2>2, PlayoutAssumption DEF RInv, Streams
<1>2. cur \in Nat /\ cur <= accepted /\ (cur # None => cur \in Ids)
  BY <1>1 DEF IInv, Taken, Ids, None
<1>3. \A i \in QueuedIds : i \in Ids /\ i <= accepted /\ i # cur /\ i # None
  <2> TAKE i \in QueuedIds
  <2>1. PICK k \in 1 .. Len(queue) : i = queue[k]
    BY DEF QueuedIds
  <2>2. i \in Nat /\ i <= accepted /\ cur < i
    BY <2>1, ElementOfSeq DEF IInv, Taken, InOrder
  <2> QED
    BY <1>1, <1>2, <2>2 DEF Ids, None
<1> QED
  BY <1>1, <1>2, <1>3

(* Nothing of the streams changes and no item moves. *)
LEMMA QuietKeeps ==
    ASSUME RInv, UNCHANGED <<left, streams, fed, open, said, idle, accepted, queue, cur>>, SeenEnd'
    PROVE  RInv'
<1>1. \A i : ToSound(i)' <=> ToSound(i)
  BY DEF ToSound
<1> QED
  BY <1>1 DEF RInv, Streams, Waiting, Unheard, QueuedIds

(* The session and the TTS tasks: an item that is said has a frame, or a
   stream that is open; a stream that ends brought one. *)
LEMMA SessionSounds ==
    ASSUME IInv, QInv, RInv, Session \/ TakeEvent \/ Tts
    PROVE  RInv'
<1>0. /\ said \in Nat /\ accepted \in Nat /\ accepted <= said /\ said <= MaxItems
      /\ MaxItems \in Nat
      /\ cur \in Nat /\ cur <= accepted /\ (cur # None => cur \in Ids)
      /\ \A i \in QueuedIds : i \in Ids /\ i <= accepted /\ i # cur /\ i # None
  BY WhereItemsAre
<1>1. ASSUME NEW clip \in BOOLEAN, Say(clip)
      PROVE  RInv'
  <2>1. /\ said < MaxItems /\ said' = said + 1
        /\ UNCHANGED <<queue, cur, fed, idle, accepted, streamDone>>
    BY <1>1 DEF Say, itemVars
  <2>2. PICK m \in Ids : m = said + 1
    BY <1>0, <2>1 DEF Ids
  <2>3. m \in Nat /\ m > said /\ said' = m /\ m <= MaxItems
    BY <1>0, <2>1, <2>2 DEF Ids
  <2>4. m \notin streams /\ m \notin fed /\ m \notin QueuedIds /\ m # cur
    <3>1. \A i \in Nat : i <= said => i # m
      BY <1>0, <2>3
    <3>2. \A i \in streams : i \in Nat /\ i <= said
      BY IdsAreNatural DEF RInv, Streams
    <3>3. \A i \in QueuedIds : i \in Nat /\ i <= said
      BY <1>0, IdsAreNatural
    <3>4. cur <= said
      BY <1>0
    <3> QED
      BY <1>0, <3>1, <3>2, <3>3, <3>4 DEF RInv, Streams
  <2>5. QueuedIds' = QueuedIds
    BY <2>1 DEF QueuedIds
  <2>6. \A i \in Ids : i <= said' => i = m \/ i <= said
    BY <1>0, <2>2, <2>3, IdsAreNatural
  <2>7. \A i \in Ids : i <= said => i <= said'
    BY <1>0, <2>3, IdsAreNatural
  <2>8. /\ left' \in [Ids -> Nat]
        /\ \A i \in Ids : i # m => left'[i] = left[i]
        /\ (clip /\ left'[m] > 0 /\ UNCHANGED <<open, streams>>)
             \/ (~clip /\ open' = open \cup {m} /\ streams' = streams \cup {m})
    <3>1. left \in [Ids -> Nat]
      BY DEF RInv, Streams
    <3>2. CASE clip
      <4>1. PICK f \in 1 .. MaxFrames : left' = [left EXCEPT ![m] = f]
        BY <1>1, <2>2, <3>2 DEF Say
      <4>2. f \in Nat /\ f > 0
        BY PlayoutAssumption
      <4>3. left' \in [Ids -> Nat] /\ left'[m] = f /\ \A i \in Ids : i # m => left'[i] = left[i]
        BY <3>1, <4>1, <4>2
      <4>4. UNCHANGED <<open, streams>>
        BY <1>1, <3>2 DEF Say
      <4> QED
        BY <3>2, <4>2, <4>3, <4>4
    <3>3. CASE ~clip
      BY <1>1, <2>2, <3>1, <3>3 DEF Say
    <3> QED
      BY <3>2, <3>3
  <2>9. Streams'
    <3>1. \A i \in streams' : i \in Ids /\ i <= said'
      <4>1. \A i \in streams : i \in Ids /\ i <= said'
        BY <2>7 DEF RInv, Streams
      <4>2. m \in Ids /\ m <= said'
        BY <2>3
      <4>3. \A i \in streams' : i \in streams \/ i = m
        BY <2>8
      <4> QED
        BY <4>1, <4>2, <4>3
    <3>2. fed' \subseteq streams' /\ open' \subseteq streams'
      BY <2>1, <2>8 DEF RInv, Streams
    <3> QED
      BY <2>1, <2>3, <2>8, <3>1, <3>2 DEF RInv, Streams
  <2>10. \A i \in Ids : i # m /\ ToSound(i) => ToSound(i)'
    BY <2>1, <2>8 DEF ToSound
  <2>11. ToSound(m)'
    BY <2>1, <2>4, <2>8 DEF ToSound
  <2>12. Waiting'
    BY <2>1, <2>5, <2>6, <2>10, <2>11 DEF RInv, Waiting
  <2>13. Unheard'
    <3>1. CASE cur # None /\ idle
      BY <1>0, <2>1, <2>4, <2>10, <3>1 DEF RInv, Unheard, ToSound
    <3>2. CASE ~(cur # None /\ idle)
      BY <2>1, <3>2 DEF Unheard
    <3> QED
      BY <3>1, <3>2
  <2>14. SeenEnd'
    BY <2>1, <2>4, <2>8 DEF RInv, SeenEnd
  <2> QED
    BY <2>9, <2>12, <2>13, <2>14 DEF RInv
<1>2. ASSUME NEW c, Interrupt(c)
      PROVE  RInv'
  BY <1>2, QuietKeeps DEF Interrupt, itemVars, audioVars, sessionVars, RInv, SeenEnd
<1>3. CASE TakeEvent
  BY <1>3, QuietKeeps DEF TakeEvent, itemVars, audioVars, RInv, SeenEnd
<1>4. ASSUME NEW i \in Ids, StreamChunk(i)
      PROVE  RInv'
  <2>1. /\ i \in open /\ left' = [left EXCEPT ![i] = @ + 1] /\ fed' = fed \cup {i}
        /\ UNCHANGED <<queue, cur, streamDone, open, streams, idle, accepted, said>>
    BY <1>4 DEF StreamChunk, itemVars, sessionVars
  <2>2. left' \in [Ids -> Nat] /\ left'[i] > 0 /\ \A j \in Ids : j # i => left'[j] = left[j]
    BY <2>1 DEF RInv, Streams
  <2>3. Streams'
    BY <2>1, <2>2 DEF RInv, Streams
  <2>4. \A j \in Ids : ToSound(j) => ToSound(j)'
    BY <2>1, <2>2 DEF ToSound
  <2>5. QueuedIds' = QueuedIds
    BY <2>1 DEF QueuedIds
  <2>6. Waiting' /\ Unheard' /\ SeenEnd'
    BY <1>0, <2>1, <2>4, <2>5 DEF RInv, Waiting, Unheard, SeenEnd
  <2> QED
    BY <2>3, <2>6 DEF RInv
<1>5. ASSUME NEW i \in Ids, StreamEnds(i)
      PROVE  RInv'
  <2>1. /\ i \in open /\ (i \in fed \/ StreamMayFail) /\ open' = open \ {i}
        /\ UNCHANGED <<queue, cur, streamDone, left, fed, streams, idle, accepted, said>>
    BY <1>5 DEF StreamEnds, itemVars, sessionVars
  <2>2. Streams'
    BY <2>1 DEF RInv, Streams
  <2>3. \A j \in Ids : ToSound(j) => ToSound(j)'
    BY <2>1 DEF ToSound
  <2>4. QueuedIds' = QueuedIds
    BY <2>1 DEF QueuedIds
  <2>5. Waiting' /\ Unheard' /\ SeenEnd'
    BY <1>0, <2>1, <2>3, <2>4 DEF RInv, Waiting, Unheard, SeenEnd
  <2> QED
    BY <2>2, <2>5 DEF RInv
<1> QED
  BY <1>1, <1>2, <1>3, <1>4, <1>5 DEF Session, Tts

(* Items move about, but nothing of the streams changes and nothing starts
   to wait that did not. *)
LEMMA MovingSounds ==
    ASSUME RInv, UNCHANGED <<left, streams, fed, open, said>>, idle' \in BOOLEAN,
           \A i \in Ids : i > accepted' \/ i \in QueuedIds' => i > accepted \/ i \in QueuedIds,
           Unheard', SeenEnd'
    PROVE  RInv'
<1>1. \A i : ToSound(i)' <=> ToSound(i)
  BY DEF ToSound
<1>2. Streams'
  BY DEF RInv, Streams
<1>3. Waiting'
  BY <1>1 DEF RInv, Waiting
<1> QED
  BY <1>2, <1>3 DEF RInv

(* Items that were taken are dropped, and nothing waits with the task. *)
LEMMA DroppedSounds ==
    ASSUME IInv, QInv, RInv, NEW ids, \A i \in ids : i \in Nat /\ i <= accepted,
           Drop(ids), UNCHANGED <<streams, fed, said, accepted>>, queue' = <<>>,
           idle' \in BOOLEAN, SeenEnd',
           cur' = None \/ (cur' = cur /\ cur \notin ids /\ idle' = idle)
    PROVE  RInv'
<1>0. /\ said \in Nat /\ accepted \in Nat /\ (cur # None => cur \in Ids)
  BY WhereItemsAre
<1>1. /\ left' = [i \in Ids |-> IF i \in ids THEN 0 ELSE left[i]]
      /\ open' = open \ ids
  BY DEF Drop
<1>2. left' \in [Ids -> Nat] /\ \A i \in Ids : i \notin ids => left'[i] = left[i]
  BY <1>1 DEF RInv, Streams
<1>3. QueuedIds' = {}
  BY EmptySeq DEF QueuedIds
<1>4. Streams'
  BY <1>1, <1>2 DEF RInv, Streams
<1>5. \A i \in Ids : i \notin ids /\ ToSound(i) => ToSound(i)'
  BY <1>1, <1>2 DEF ToSound
<1>6. \A i \in Ids : i > accepted => i \notin ids
  BY <1>0, IdsAreNatural
<1>7. Waiting'
  BY <1>3, <1>5, <1>6 DEF RInv, Waiting
<1>8. Unheard'
  <2>1. CASE cur' = None
    BY <2>1 DEF Unheard
  <2>2. CASE cur' = cur /\ cur \notin ids /\ idle' = idle /\ cur # None /\ idle
    <3>1. PICK c \in Ids : c = cur
      BY <1>0, <2>2
    <3>2. ToSound(c)'
      BY <1>5, <2>2, <3>1 DEF RInv, Unheard
    <3> QED
      BY <2>2, <3>1, <3>2 DEF Unheard, ToSound
  <2>3. CASE cur' = cur /\ idle' = idle /\ ~(cur # None /\ idle)
    BY <2>3 DEF Unheard
  <2> QED
    BY <2>1, <2>2, <2>3
<1> QED
  BY <1>4, <1>7, <1>8 DEF RInv

(* The task's own steps. *)
LEMMA RunSounds ==
    ASSUME IInv, QInv, RInv, Run
    PROVE  RInv'
<1>0. /\ said \in Nat /\ accepted \in Nat /\ accepted <= said /\ said <= MaxItems
      /\ MaxItems \in Nat
      /\ cur \in Nat /\ cur <= accepted /\ (cur # None => cur \in Ids)
      /\ \A i \in QueuedIds : i \in Ids /\ i <= accepted /\ i # cur /\ i # None
  BY WhereItemsAre
<1>00. /\ idle \in BOOLEAN /\ left \in [Ids -> Nat] /\ queue \in Seq(Nat)
  BY DEF RInv, Streams, IInv, Taken
<1>1. CASE NextItem
  <2>1. UNCHANGED <<left, streams, fed, open, said, idle, accepted>>
    BY <1>1 DEF NextItem, audioVars, sessionVars
  <2>2. CASE queue = <<>>
    <3>1. cur' = None /\ queue' = queue
      BY <1>1, <2>2 DEF NextItem
    <3>2. QueuedIds' = QueuedIds
      BY <3>1 DEF QueuedIds
    <3>3. Unheard' /\ SeenEnd'
      BY <3>1 DEF Unheard, SeenEnd
    <3> QED
      BY <1>00, <2>1, <3>2, <3>3, MovingSounds
  <2>3. CASE queue # <<>>
    <3>1. cur' = Head(queue) /\ queue' = Tail(queue) /\ streamDone' = FALSE
      BY <1>1, <2>3 DEF NextItem
    <3>2. /\ Len(queue) \in Nat /\ Len(queue) >= 1 /\ Len(queue') = Len(queue) - 1
          /\ cur' = queue[1]
          /\ \A k \in 1 .. (Len(queue) - 1) : queue'[k] = queue[k + 1]
      BY <1>00, <2>3, <3>1, HeadTailProperties, LenProperties, EmptySeq
    <3>3. QueuedIds' \subseteq QueuedIds
      <4>1. ASSUME NEW k \in 1 .. Len(queue')
            PROVE  queue'[k] \in QueuedIds
        <5>1. k + 1 \in 1 .. Len(queue) /\ queue'[k] = queue[k + 1]
          BY <3>2
        <5> QED
          BY <5>1 DEF QueuedIds
      <4> QED
        BY <4>1 DEF QueuedIds
    <3>4. PICK h \in QueuedIds : h = cur'
      BY <3>2 DEF QueuedIds
    <3>5. ToSound(h)
      <4>1. h \in Ids /\ h <= said
        BY <1>0, IdsAreNatural
      <4> QED
        BY <4>1 DEF RInv, Waiting
    <3>6. Unheard' /\ SeenEnd'
      BY <2>1, <3>1, <3>4, <3>5 DEF Unheard, SeenEnd, ToSound
    <3> QED
      BY <1>00, <2>1, <3>3, <3>6, MovingSounds
  <2> QED
    BY <2>2, <2>3
<1>2. CASE SendFrame
  <2>1. /\ cur # None /\ left' = [left EXCEPT ![cur] = @ - 1] /\ left[cur] > 0
        /\ idle' = FALSE /\ streamDone' = SeesEnd
        /\ UNCHANGED <<queue, cur, open, fed, streams, accepted, said>>
    BY <1>2 DEF SendFrame, FrameReady, sessionVars
  <2>2. left[cur] - 1 \in Nat
    BY <1>0, <1>00, <2>1
  <2>3. left' \in [Ids -> Nat] /\ \A i \in Ids : i # cur => left'[i] = left[i]
    BY <1>00, <2>1, <2>2
  <2>4. Streams'
    BY <2>1, <2>3 DEF RInv, Streams
  <2>5. \A i \in Ids : i # cur /\ ToSound(i) => ToSound(i)'
    BY <2>1, <2>3 DEF ToSound
  <2>6. \A i \in Ids : i > accepted => i # cur
    BY <1>0, IdsAreNatural
  <2>7. QueuedIds' = QueuedIds
    BY <2>1 DEF QueuedIds
  <2>8. Waiting'
    BY <1>0, <2>1, <2>5, <2>6, <2>7 DEF RInv, Waiting
  <2>9. Unheard'
    BY <2>1 DEF Unheard
  <2>10. SeenEnd'
    BY <2>1 DEF RInv, SeenEnd, SeesEnd
  <2> QED
    BY <2>4, <2>8, <2>9, <2>10 DEF RInv
<1>3. CASE NoFrame
  <2>1. /\ UNCHANGED <<left, streams, fed, open, said, idle, accepted, queue, cur>>
        /\ streamDone' = SeesEnd
    BY <1>3 DEF NoFrame, audioVars, sessionVars
  <2>2. SeenEnd'
    BY <2>1 DEF RInv, SeenEnd, SeesEnd
  <2> QED
    BY <2>1, <2>2, QuietKeeps
<1>4. CASE LeadReached \/ Data \/ Tick
  <2>1. UNCHANGED <<left, streams, fed, open, said, idle, accepted, queue, cur, streamDone>>
    BY <1>4 DEF LeadReached, Data, Tick, itemVars, audioVars, sessionVars
  <2>2. SeenEnd'
    BY <2>1 DEF RInv, SeenEnd
  <2> QED
    BY <2>1, <2>2, QuietKeeps
<1>5. CASE ReportFinished
  <2>1. /\ UNCHANGED <<left, streams, fed, open, said, idle, accepted, queue>> /\ cur' = None
    BY <1>5 DEF ReportFinished, audioVars, sessionVars
  <2>2. Unheard' /\ SeenEnd' /\ QueuedIds' = QueuedIds
    BY <2>1 DEF Unheard, SeenEnd, QueuedIds
  <2> QED
    BY <1>00, <2>1, <2>2, MovingSounds
<1>6. CASE ReportIdle
  <2>1. /\ UNCHANGED <<left, streams, fed, open, said, accepted, queue, cur, streamDone>>
        /\ idle' = (idle \/ (cur = None /\ queue = <<>> /\ ahead = 0 /\ ~idle))
    BY <1>6 DEF ReportIdle, itemVars, audioVars, sessionVars
  <2>2. idle' \in BOOLEAN /\ (cur # None => (idle' <=> idle))
    BY <2>1
  <2>3. Unheard' /\ SeenEnd' /\ QueuedIds' = QueuedIds
    BY <2>1, <2>2 DEF RInv, Unheard, SeenEnd, QueuedIds, ToSound
  <2> QED
    BY <2>1, <2>2, <2>3, MovingSounds
<1>7. CASE RecvEnqueue
  <2>1. /\ UNCHANGED <<left, streams, fed, open, said, idle, cur, streamDone>>
        /\ accepted' = accepted + 1 /\ queue' = Append(queue, accepted + 1)
    BY <1>7 DEF RecvEnqueue, itemVars, audioVars, sessionVars
  <2>2. \A i \in QueuedIds' : i \in QueuedIds \/ i = accepted + 1
    <3>1. /\ Len(queue) \in Nat /\ Len(queue') = Len(queue) + 1
          /\ queue'[Len(queue) + 1] = accepted + 1
          /\ \A k \in 1 .. Len(queue) : queue'[k] = queue[k]
      BY <1>0, <1>00, <2>1, AppendProperties, LenProperties
    <3>2. \A k \in 1 .. Len(queue') : k \in 1 .. Len(queue) \/ k = Len(queue) + 1
      BY <3>1
    <3> QED
      BY <3>1, <3>2 DEF QueuedIds
  <2>3. /\ \A i \in Ids : i > accepted + 1 => i > accepted
        /\ accepted + 1 > accepted
    BY <1>0, IdsAreNatural
  <2>4. Unheard' /\ SeenEnd'
    BY <2>1 DEF RInv, Unheard, SeenEnd, ToSound
  <2> QED
    BY <1>00, <2>1, <2>2, <2>3, <2>4, MovingSounds
<1>8. CASE CancelHard
  <2>1. /\ UNCHANGED <<streams, fed, said, accepted>> /\ queue' = <<>> /\ cur' = None
        /\ idle' = TRUE /\ Drop(({cur} \ {None}) \cup QueuedIds)
    BY <1>8 DEF CancelHard, sessionVars
  <2>2. \A i \in ({cur} \ {None}) \cup QueuedIds : i \in Nat /\ i <= accepted
    BY <1>0, IdsAreNatural
  <2>3. SeenEnd'
    BY <2>1 DEF SeenEnd
  <2> QED
    BY <2>1, <2>2, <2>3, DroppedSounds
<1>9. CASE CancelSoft
  <2>1. /\ UNCHANGED <<streams, fed, said, accepted, cur, idle>> /\ queue' = <<>>
        /\ streamDone' = (streamDone \/ cur \in streams)
        /\ Drop(QueuedIds) /\ NearlyOver
    BY <1>9 DEF CancelSoft, sessionVars
  <2>2. \A i \in QueuedIds : i \in Nat /\ i <= accepted
    BY <1>0, IdsAreNatural
  <2>3. SeenEnd'
    BY <2>1 DEF SeenEnd, NearlyOver, Exact, Drop
  <2>4. cur \notin QueuedIds
    BY <1>0
  <2> QED
    BY <1>00, <2>1, <2>2, <2>3, <2>4, DroppedSounds
<1> QED
  BY <1>1, <1>2, <1>3, <1>4, <1>5, <1>6, <1>7, <1>8, <1>9 DEF Run

(* The Speaker's view leaves out all that is behind these. *)
LEMMA UnseenSteps ==
    ASSUME UNCHANGED <<cmds, queue, cur, idle, evs>>
    PROVE  UNCHANGED S!speakerVars
  BY DEF S!speakerVars

(* An item ends after a sound, unless its stream failed. *)
LEMMA EndsHeard ==
    ASSUME IInv, QInv, RInv, Done
    PROVE  ~idle \/ StreamMayFail
<1>1. cur \in Ids /\ cur # None /\ left[cur] = 0 /\ (cur \in streams => streamDone)
  BY WhereItemsAre DEF Done
<1>2. ASSUME idle
      PROVE  StreamMayFail
  <2>1. ToSound(cur)
    BY <1>1, <1>2 DEF RInv, Unheard
  <2>2. ~(left[cur] > 0)
    BY <1>1
  <2>3. cur \in streams /\ cur \notin fed
    BY <2>1, <2>2 DEF ToSound
  <2>4. cur \notin open
    BY <1>1, <2>3 DEF RInv, SeenEnd
  <2> QED
    BY <2>1, <2>3, <2>4 DEF ToSound
<1> QED
  BY <1>2

(* Every step is one of the Speaker's, or none that it can see. *)
LEMMA StepsSpeak ==
    ASSUME IInv, QInv, RInv, Next
    PROVE  [S!SpeakerNext]_(S!speakerVars)
<1>0. /\ Len(queue) \in Nat /\ queue \in Seq(Nat) /\ idle \in BOOLEAN
      /\ (queue # <<>> => Len(queue) >= 1) /\ (queue = <<>> => Len(queue) = 0)
  BY LenProperties, EmptySeq DEF IInv, Taken, RInv, Streams
<1>1. CASE Session
  <2>1. PICK c \in S!Commands : cmds' = Append(cmds, c) /\ UNCHANGED <<queue, cur, idle, evs>>
    BY <1>1 DEF Session, Say, Interrupt, S!Commands, itemVars
  <2>2. S!Command
    BY <2>1 DEF S!Command
  <2> QED
    BY <2>2 DEF S!SpeakerNext
<1>2. CASE TakeEvent
  <2>1. evs # <<>> /\ evs' = Tail(evs) /\ UNCHANGED <<cmds, queue, cur, idle>>
    BY <1>2 DEF TakeEvent, itemVars
  <2>2. S!TakeEvent
    BY <2>1 DEF S!TakeEvent
  <2> QED
    BY <2>2 DEF S!SpeakerNext
<1>3. CASE Tts
  <2>1. UNCHANGED <<cmds, queue, cur, idle, evs>>
    BY <1>3 DEF Tts, StreamChunk, StreamEnds, itemVars
  <2> QED
    BY <2>1, UnseenSteps
<1>4. CASE NextItem
  <2>1. /\ cur = None \/ Done
        /\ evs' = evs \o S!EventIf(cur # None, "finished", 1)
        /\ UNCHANGED <<cmds, idle>>
    BY <1>4 DEF NextItem
  <2>2. CASE cur # None
    <3>1. Len(queue') + (IF cur' = None THEN 0 ELSE 1)
            = (Len(queue) + (IF cur = None THEN 0 ELSE 1)) - 1
      <4>1. CASE queue = <<>>
        BY <1>0, <1>4, <2>2, <4>1 DEF NextItem
      <4>2. CASE queue # <<>>
        <5>1. cur' = Head(queue) /\ queue' = Tail(queue)
          BY <1>4, <4>2 DEF NextItem
        <5>2. Len(queue') = Len(queue) - 1 /\ cur' = queue[1] /\ 1 \in 1 .. Len(queue)
          BY <1>0, <4>2, <5>1, HeadTailProperties
        <5>3. cur' # None
          BY <5>2, WhereItemsAre DEF QueuedIds
        <5> QED
          BY <1>0, <2>2, <5>2, <5>3
      <4> QED
        BY <4>1, <4>2
    <3>2. ~idle \/ StreamMayFail
      BY <2>1, <2>2, EndsHeard
    <3>3. evs' = evs \o S!Event("finished", 1)
      BY <2>1, <2>2 DEF S!EventIf
    <3>4. Len(queue) + (IF cur = None THEN 0 ELSE 1) > 0
      BY <1>0, <2>2
    <3>5. S!Finish
      BY <2>1, <3>1, <3>2, <3>3, <3>4 DEF S!Finish
    <3> QED
      BY <3>5 DEF S!SpeakerNext, S!Play
  <2>3. CASE cur = None
    <3>1. evs' = evs
      <4>1. S!EventIf(cur # None, "finished", 1) = <<>>
        BY <2>3 DEF S!EventIf
      <4> QED
        BY <2>1, <4>1, ConcatEmptySeq DEF QInv, Channels
    <3>2. Len(queue') + (IF cur' = None THEN 0 ELSE 1)
            = Len(queue) + (IF cur = None THEN 0 ELSE 1)
      <4>1. CASE queue = <<>>
        BY <1>0, <1>4, <2>3, <4>1 DEF NextItem
      <4>2. CASE queue # <<>>
        <5>1. cur' = Head(queue) /\ queue' = Tail(queue)
          BY <1>4, <4>2 DEF NextItem
        <5>2. Len(queue') = Len(queue) - 1 /\ cur' = queue[1] /\ 1 \in 1 .. Len(queue)
          BY <1>0, <4>2, <5>1, HeadTailProperties
        <5>3. cur' # None
          BY <5>2, WhereItemsAre DEF QueuedIds
        <5> QED
          BY <1>0, <2>3, <5>2, <5>3
      <4> QED
        BY <4>1, <4>2
    <3> QED
      BY <2>1, <3>1, <3>2 DEF S!speakerVars
  <2> QED
    BY <2>2, <2>3
<1>5. CASE SendFrame
  <2>1. cur # None /\ idle' = FALSE /\ UNCHANGED <<cmds, queue, cur, evs>>
    BY <1>5 DEF SendFrame
  <2>2. CASE idle
    <3>1. Len(queue) + (IF cur = None THEN 0 ELSE 1) > 0
      BY <1>0, <2>1
    <3>2. S!Sound
      BY <2>1, <2>2, <3>1 DEF S!Sound
    <3> QED
      BY <3>2 DEF S!SpeakerNext, S!Play
  <2>3. CASE ~idle
    <3>1. idle' = idle
      BY <1>0, <2>1, <2>3
    <3> QED
      BY <2>1, <3>1, UnseenSteps
  <2> QED
    BY <2>2, <2>3
<1>6. CASE NoFrame \/ LeadReached \/ Data \/ Tick
  <2>1. UNCHANGED <<cmds, queue, cur, idle, evs>>
    BY <1>6 DEF NoFrame, LeadReached, Data, Tick, itemVars
  <2> QED
    BY <2>1, UnseenSteps
<1>7. CASE ReportFinished
  <2>1. /\ Done /\ cur # None /\ cur' = None /\ UNCHANGED <<cmds, queue, idle>>
        /\ evs' = evs \o S!Event("finished", 1)
    BY <1>7 DEF ReportFinished, Done
  <2>2. ~idle \/ StreamMayFail
    BY <2>1, EndsHeard
  <2>3. /\ Len(queue) + (IF cur = None THEN 0 ELSE 1) > 0
        /\ Len(queue') + (IF cur' = None THEN 0 ELSE 1)
             = (Len(queue) + (IF cur = None THEN 0 ELSE 1)) - 1
    BY <1>0, <2>1
  <2>4. S!Finish
    BY <2>1, <2>2, <2>3 DEF S!Finish
  <2> QED
    BY <2>4 DEF S!SpeakerNext, S!Play
<1>8. CASE ReportIdle
  <2> DEFINE heard == cur = None /\ queue = <<>> /\ ahead = 0 /\ ~idle
  <2>1. /\ idle' = (idle \/ heard) /\ evs' = evs \o S!EventIf(heard, "idle", 0)
        /\ UNCHANGED <<cmds, queue, cur>>
    BY <1>8 DEF ReportIdle, itemVars
  <2>2. CASE heard
    <3>1. Len(queue) + (IF cur = None THEN 0 ELSE 1) = 0
      BY <1>0, <2>2
    <3>2. evs' = evs \o S!Event("idle", 0) /\ ~idle /\ idle' = TRUE
      BY <2>1, <2>2 DEF S!EventIf
    <3>3. S!Rest
      BY <2>1, <3>1, <3>2 DEF S!Rest
    <3> QED
      BY <3>3 DEF S!SpeakerNext, S!Play
  <2>3. CASE ~heard
    <3>1. S!EventIf(heard, "idle", 0) = <<>>
      BY <2>3 DEF S!EventIf
    <3>2. evs' = evs
      BY <2>1, <3>1, ConcatEmptySeq DEF QInv, Channels
    <3>3. idle' = idle
      BY <1>0, <2>1, <2>3
    <3> QED
      BY <2>1, <3>2, <3>3, UnseenSteps
  <2> QED
    BY <2>2, <2>3
<1>9. CASE RecvEnqueue
  <2>1. /\ cmds # <<>> /\ Head(cmds) = "enqueue" /\ cmds' = Tail(cmds)
        /\ queue' = Append(queue, accepted + 1) /\ UNCHANGED <<cur, idle, evs>>
    BY <1>9 DEF RecvEnqueue, itemVars
  <2>2. Len(queue') = Len(queue) + 1
    BY <1>0, <2>1, WhereItemsAre, AppendProperties
  <2>3. Len(queue') + (IF cur' = None THEN 0 ELSE 1)
          = (Len(queue) + (IF cur = None THEN 0 ELSE 1)) + 1
    BY <1>0, <2>1, <2>2
  <2>4. S!Accept
    BY <2>1, <2>3 DEF S!Accept
  <2> QED
    BY <2>4 DEF S!SpeakerNext, S!Play
<1>10. CASE CancelHard
  <2>1. /\ cmds # <<>> /\ Head(cmds) \in {"cancel", "soft"} /\ cmds' = Tail(cmds)
        /\ cur' = None /\ queue' = <<>> /\ idle' = TRUE
        /\ evs' = evs
                  \o S!EventIf(Len(queue) + (IF cur = None THEN 0 ELSE 1) > 0, "cancelled",
                               Len(queue) + (IF cur = None THEN 0 ELSE 1))
                  \o S!EventIf(~idle, "idle", 0)
    BY <1>10 DEF CancelHard
  <2>2. Len(queue') + (IF cur' = None THEN 0 ELSE 1) = 0
    BY <2>1, EmptySeq
  <2>3. S!Stop
    BY <2>1, <2>2 DEF S!Stop
  <2> QED
    BY <2>3 DEF S!SpeakerNext, S!Play
<1>11. CASE CancelSoft
  <2> DEFINE kept == IF cur = None THEN 0 ELSE 1
             told == cur # None /\ spared # cur
             all == Len(queue) + (IF cur = None THEN 0 ELSE 1)
  <2>1. /\ cmds # <<>> /\ Head(cmds) = "soft" /\ cmds' = Tail(cmds)
        /\ queue' = <<>> /\ UNCHANGED <<cur, idle>>
        /\ evs' = evs \o S!EventIf(told, "protected", 0)
                      \o S!EventIf(queue # <<>>, "cancelled", Len(queue))
    BY <1>11 DEF CancelSoft
  <2>2. kept \in {0, 1} /\ told \in BOOLEAN /\ (told => kept = 1)
    OBVIOUS
  <2>3. kept <= all /\ all - kept = Len(queue) /\ (all > kept <=> queue # <<>>)
    BY <1>0
  <2>4. Len(queue') + (IF cur' = None THEN 0 ELSE 1) = kept
    BY <2>1, EmptySeq
  <2>5. S!EventIf(all > kept, "cancelled", all - kept)
          = S!EventIf(queue # <<>>, "cancelled", Len(queue))
    BY <2>3 DEF S!EventIf
  <2>6. evs' = evs \o S!EventIf(told, "protected", 0)
                   \o S!EventIf(all > kept, "cancelled", all - kept)
    BY <2>1, <2>5
  <2> HIDE DEF kept, told
  <2>7. S!Spare
    BY <2>1, <2>2, <2>3, <2>4, <2>6 DEF S!Spare
  <2> QED
    BY <2>7 DEF S!SpeakerNext, S!Play
<1> QED
  BY <1>1, <1>2, <1>3, <1>4, <1>5, <1>6, <1>7, <1>8, <1>9, <1>10, <1>11 DEF Next, Run

(* The task implements the promise the session is written against
   (Speaker.tla): every item it takes ends once, in a `finished` or in a
   `cancelled`, and once anything was heard of it; and after a sound an idle
   follows exactly when nothing is left (Playout::run). *)
THEOREM PlayoutImplementsSpeaker == Spec => ImplementsSpeaker
<1>1. Init => RInv
  <2> SUFFICES ASSUME Init
               PROVE  RInv
    OBVIOUS
  <2>1. /\ left = [i \in Ids |-> 0] /\ idle = TRUE /\ said = 0 /\ cur = None
        /\ streams = {} /\ fed = {} /\ open = {}
    BY DEF Init
  <2>2. Streams
    BY <2>1, PlayoutAssumption DEF Streams
  <2>3. Waiting
    BY <2>1, PlayoutAssumption DEF Waiting, Ids
  <2> QED
    BY <2>1, <2>2, <2>3 DEF RInv, Unheard, SeenEnd
<1>2. Init => S!SpeakerInit
  BY EmptySeq DEF Init, S!SpeakerInit
<1>3. IInv /\ QInv /\ RInv /\ [Next]_vars => RInv'
  <2>1. ASSUME UNCHANGED vars, RInv
        PROVE  RInv'
    <3>1. SeenEnd'
      BY <2>1 DEF vars, RInv, SeenEnd
    <3> QED
      BY <2>1, <3>1, QuietKeeps DEF vars
  <2> QED
    BY <2>1, SessionSounds, RunSounds DEF Next
<1>4. IInv /\ QInv /\ RInv /\ [Next]_vars => [S!SpeakerNext]_(S!speakerVars)
  <2>1. ASSUME UNCHANGED vars
        PROVE  UNCHANGED S!speakerVars
    BY <2>1, UnseenSteps DEF vars
  <2> QED
    BY <2>1, StepsSpeak
<1> QED
  BY <1>1, <1>2, <1>3, <1>4, Invariant, CountInvariant, PTL
     DEF Spec, ImplementsSpeaker, S!SpeakerSpec
=============================================================================
