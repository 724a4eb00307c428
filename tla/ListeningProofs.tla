--------------------------- MODULE ListeningProofs ---------------------------
(***************************************************************************)
(* Proofs about how the caller is heard, as MCListening runs it.  Hearing  *)
(* is extended, so its results are of its own specification; D is Deciding *)
(* and E is Ears, and their results are of ListeningSpec.                  *)
(***************************************************************************)
EXTENDS MCListening, SequenceTheorems, TLAPS

-----------------------------------------------------------------------------
(* Hearing, for any cities and any number of utterances, connections and      *)
(* reconnects.  A call that lost its recognizer always has a reconnect on its *)
(* way: the connections being opened are a list from which a biased session   *)
(* takes its own entry away and no other, and a session that takes over is    *)
(* one.                                                                       *)

(* A recognizer's session, as far as telling it from none goes. *)
Named(s) == "by" \in DOMAIN s /\ s.by \in {"primary", "backup"}
MaybeNamed(s) == s = NoStt \/ Named(s)

Reconnecting == \E i \in DOMAIN opens : opens[i].for = "reconnect"

IInv ==
    /\ opens \in Seq(Opens) /\ sttCity \in Focus /\ focus \in Focus
    /\ MaybeNamed(stt) /\ MaybeNamed(next) /\ (next # NoStt => next.city \in Focus)
    /\ NeverDeaf

(* A named session is not none. *)
LEMMA NamedIsOne ==
    ASSUME NEW s, Named(s)
    PROVE  s # NoStt
  BY DEF Named, NoStt

(* Taking one entry out of a list leaves the others in it. *)
LEMMA WithoutKeeps ==
    ASSUME NEW S, NEW s \in Seq(S), NEW i \in DOMAIN s
    PROVE  /\ Without(s, i) \in Seq(S)
           /\ \A j \in DOMAIN s : j # i => \E k \in DOMAIN Without(s, i) : Without(s, i)[k] = s[j]
<1> DEFINE n == Len(s)
           a == SubSeq(s, 1, i - 1)
           b == SubSeq(s, i + 1, n)
<1>1. n \in Nat /\ DOMAIN s = 1 .. n /\ i \in 1 .. n
  BY LenProperties
<1>2. a \in Seq(S) /\ Len(a) = i - 1 /\ \A k \in 1 .. (i - 1) : a[k] = s[k]
  BY <1>1, SubSeqProperties
<1>3. b \in Seq(S) /\ Len(b) = n - i /\ \A k \in 1 .. (n - i) : b[k] = s[i + k]
  BY <1>1, SubSeqProperties
<1> HIDE DEF a, b, n
<1>4. /\ a \o b \in Seq(S) /\ Len(a \o b) = (i - 1) + (n - i)
      /\ \A k \in 1 .. ((i - 1) + (n - i)) : (a \o b)[k] = IF k <= i - 1 THEN a[k] ELSE b[k - (i - 1)]
  <2>1. /\ a \o b \in Seq(S) /\ Len(a \o b) = Len(a) + Len(b)
        /\ \A k \in 1 .. Len(a) + Len(b) : (a \o b)[k] = IF k <= Len(a) THEN a[k] ELSE b[k - Len(a)]
    BY <1>2, <1>3, ConcatProperties, Zenon
  <2>2. Len(a) = i - 1 /\ Len(b) = n - i
    BY <1>2, <1>3
  <2> QED
    BY <2>1, <2>2
<1>5. Without(s, i) = a \o b
  BY DEF Without, a, b, n
<1>6. DOMAIN (a \o b) = 1 .. (n - 1)
  BY <1>1, <1>4, LenProperties
<1>7. ASSUME NEW j \in DOMAIN s, j # i
      PROVE  \E k \in DOMAIN (a \o b) : (a \o b)[k] = s[j]
  <2>1. CASE j < i
    <3>1. j \in 1 .. (i - 1) /\ j \in 1 .. (n - 1) /\ j \in 1 .. ((i - 1) + (n - i)) /\ j <= i - 1
      BY <1>1, <2>1
    <3>2. (a \o b)[j] = s[j]
      BY <1>2, <1>4, <3>1
    <3> QED
      BY <1>6, <3>1, <3>2
  <2>2. CASE j > i
    <3> DEFINE k == j - 1
    <3>1. /\ k \in 1 .. (n - 1) /\ k \in 1 .. ((i - 1) + (n - i)) /\ ~(k <= i - 1)
          /\ k - (i - 1) \in 1 .. (n - i) /\ i + (k - (i - 1)) = j
      BY <1>1, <2>2
    <3> HIDE DEF k
    <3>2. (a \o b)[k] = s[j]
      BY <1>3, <1>4, <3>1
    <3> QED
      BY <1>6, <3>1, <3>2
  <2> QED
    BY <1>1, <1>7, <2>1, <2>2
<1> QED
  BY <1>4, <1>5, <1>7

(* A list with a reconnect in it has it still when one more is added. *)
LEMMA AppendKeeps ==
    ASSUME NEW s \in Seq(Opens), NEW o \in Opens
    PROVE  /\ Append(s, o) \in Seq(Opens)
           /\ (\E j \in DOMAIN s : s[j].for = "reconnect")
                => \E k \in DOMAIN Append(s, o) : Append(s, o)[k].for = "reconnect"
           /\ \E k \in DOMAIN Append(s, o) : Append(s, o)[k] = o
<1> DEFINE t == Append(s, o)
<1>1. t \in Seq(Opens) /\ \A j \in DOMAIN s : j \in DOMAIN t /\ t[j] = s[j]
  BY AppendProperties, LenProperties
<1>2. \E k \in DOMAIN t : t[k] = o
  BY AppendProperties, LenProperties
<1> HIDE DEF t
<1>3. (\E j \in DOMAIN s : s[j].for = "reconnect") => \E k \in DOMAIN t : t[k].for = "reconnect"
  BY <1>1
<1> QED
  BY <1>1, <1>2, <1>3 DEF t

(* A step that leaves the list alone, or makes it longer, and leaves a recognizer where one was. *)
LEMMA StillHeard ==
    ASSUME IInv, opens' \in Seq(Opens), sttCity' \in Focus, focus' \in Focus,
           MaybeNamed(stt)', MaybeNamed(next)', next' # NoStt => next'.city \in Focus,
           HasStt => HasStt', gaveUp => gaveUp',
           Reconnecting => Reconnecting' \/ HasStt' \/ gaveUp'
    PROVE  IInv'
<1>1. NeverDeaf'
  BY DEF IInv, NeverDeaf, Reconnecting
<1> QED
  BY <1>1 DEF IInv

(* A session that is changed in place keeps its name. *)
LEMMA SpeechEndsKeeps ==
    ASSUME IInv, NEW w \in BOOLEAN, SpeechEnds(w)
    PROVE  IInv'
<1>1. UNCHANGED <<opens, sttCity, focus, next, gaveUp>>
  BY DEF SpeechEnds, listening
<1>2. CASE HasStt
  <2> DEFINE a == [stt EXCEPT !.sent = {}]
             d == Append(a.due, [id |-> spoken + 1, heard |-> stt.sent \cup {spoken + 1}, words |-> w])
  <2>1. Named(stt)
    BY <1>2 DEF IInv, MaybeNamed, HasStt
  <2>2. Named(a)
    BY <2>1 DEF Named
  <2>3. stt' = [a EXCEPT !.due = d]
    BY <1>2 DEF SpeechEnds
  <2> HIDE DEF a, d
  <2>4. Named(stt)'
    BY <2>2, <2>3 DEF Named
  <2>5. HasStt' /\ MaybeNamed(stt)'
    BY <2>4, NamedIsOne DEF HasStt, MaybeNamed
  <2> QED
    BY <1>1, <2>5, StillHeard DEF IInv, MaybeNamed, Named, Reconnecting
<1>3. CASE ~HasStt
  <2>1. stt' = stt
    BY <1>3 DEF SpeechEnds
  <2> QED
    BY <1>1, <2>1, StillHeard DEF IInv, MaybeNamed, Named, Reconnecting, HasStt
<1> QED
  BY <1>2, <1>3

(* A session opened for a city's streets adds to the list. *)
LEMMA RepliesKeeps ==
    ASSUME IInv, NEW c \in Focus, Replies(c)
    PROVE  IInv'
<1>1. UNCHANGED <<stt, next, sttCity, gaveUp>> /\ focus' = c
  BY DEF Replies
<1>2. opens' = opens \/ opens' = Append(opens, [for |-> "focus", city |-> c])
  BY DEF Replies, FocusStt
<1>3. [for |-> "focus", city |-> c] \in Opens
  BY DEF Opens
<1>4. opens' \in Seq(Opens) /\ (Reconnecting => Reconnecting')
  <2>1. CASE opens' = opens
    BY <2>1 DEF IInv, Reconnecting
  <2>2. CASE opens' = Append(opens, [for |-> "focus", city |-> c])
    BY <1>3, <2>2, AppendKeeps DEF IInv, Reconnecting
  <2> QED
    BY <1>2, <2>1, <2>2
<1> QED
  BY <1>1, <1>4, StillHeard DEF IInv, MaybeNamed, Named, HasStt

(* What opening a session comes to has a name, if it comes to one. *)
LEMMA OpeningNamed ==
    ASSUME NEW c \in Focus, NEW o \in Opening(c)
    PROVE  MaybeNamed(o.session) /\ (o.session # NoStt => o.session.city = c)
<1>1. o.session \in {Opened("backup", c), Opened("primary", c), NoStt}
  <2>1. CASE o \in [session : {Opened("backup", c), NoStt}, down : {TRUE}]
    BY <2>1
  <2>2. CASE o = [session |-> Opened("primary", c), down |-> FALSE]
    BY <2>2
  <2> QED
    BY <2>1, <2>2 DEF Opening
<1>2. Named(Opened("backup", c)) /\ Named(Opened("primary", c))
  BY DEF Named, Opened
<1>3. Opened("backup", c).city = c /\ Opened("primary", c).city = c
  BY DEF Opened
<1> QED
  BY <1>1, <1>2, <1>3 DEF MaybeNamed

(* A reconnect ends with a recognizer, or with a person. *)
LEMMA SttReadyKeeps ==
    ASSUME IInv, NEW i \in DOMAIN opens, NEW o \in Opening(opens[i].city), SttReady(i, o)
    PROVE  IInv'
<1>1. UNCHANGED <<next, sttCity, focus>> /\ opens' = Without(opens, i) /\ ~gaveUp
  BY DEF SttReady
<1>2. opens[i] \in Opens /\ opens[i].city \in Focus
  <2>1. opens[i] \in Opens
    BY ElementOfSeq, LenProperties DEF IInv
  <2> QED
    BY <2>1 DEF Opens
<1>3. opens' \in Seq(Opens)
  BY <1>1, WithoutKeeps DEF IInv
<1>4. CASE o.session = NoStt
  <2>1. gaveUp' = TRUE /\ stt' = stt
    BY <1>4 DEF SttReady
  <2> QED
    BY <1>1, <1>3, <2>1, StillHeard DEF IInv, MaybeNamed, Named, HasStt
<1>5. CASE o.session # NoStt
  <2> DEFINE again == resend /\ kept # {}
             t(w) == [o.session EXCEPT !.due = IF again THEN <<[id |-> spoken, heard |-> kept, words |-> w]>> ELSE @,
                                       !.sent = backlog]
  <2>0. PICK w \in BOOLEAN : stt' = t(w)
    BY <1>5 DEF SttReady
  <2> DEFINE due == IF again THEN <<[id |-> spoken, heard |-> kept, words |-> w]>> ELSE o.session.due
             a == [o.session EXCEPT !.due = due]
  <2>1. Named(o.session)
    BY <1>2, <1>5, OpeningNamed DEF MaybeNamed
  <2>2. Named(a)
    BY <2>1 DEF Named
  <2>3. stt' = [a EXCEPT !.sent = backlog] /\ gaveUp' = gaveUp
    BY <1>5, <2>0 DEF SttReady
  <2> HIDE DEF a, due, again
  <2>4. Named(stt)'
    BY <2>2, <2>3 DEF Named
  <2>5. HasStt' /\ MaybeNamed(stt)'
    BY <2>4, NamedIsOne DEF HasStt, MaybeNamed
  <2> QED
    BY <1>1, <1>3, <2>3, <2>5, StillHeard DEF IInv, MaybeNamed, Named
<1> QED
  BY <1>4, <1>5

(* A session that takes over between utterances is one; else the live one stays. *)
LEMMA SwapNamed ==
    ASSUME NEW live, NEW waiting, NEW due, SwapIfReady(live, waiting, due), sttCity \in Focus,
           MaybeNamed(live), MaybeNamed(waiting), waiting # NoStt => waiting.city \in Focus
    PROVE  /\ MaybeNamed(stt)' /\ MaybeNamed(next)' /\ sttCity' \in Focus
           /\ next' # NoStt => next'.city \in Focus
           /\ live # NoStt => HasStt'
<1>1. CASE waiting = NoStt \/ speaking \/ due # 0
  BY <1>1 DEF SwapIfReady, MaybeNamed, Named, HasStt
<1>2. CASE ~(waiting = NoStt \/ speaking \/ due # 0)
  BY <1>2 DEF SwapIfReady, MaybeNamed, Named, HasStt
<1> QED
  BY <1>1, <1>2

(* A biased session that opened takes its own entry off the list. *)
LEMMA SttFocusedKeeps ==
    ASSUME IInv, NEW i \in DOMAIN opens, NEW o \in Opening(opens[i].city), SttFocused(i, o)
    PROVE  IInv'
<1> DEFINE rest == Without(opens, i)
<1>1. opens[i].for = "focus" /\ UNCHANGED <<focus, gaveUp>>
  BY DEF SttFocused
<1>2. opens[i] \in Opens /\ opens[i].city \in Focus
  <2>1. opens[i] \in Opens
    BY ElementOfSeq, LenProperties DEF IInv
  <2> QED
    BY <2>1 DEF Opens
<1>3. rest \in Seq(Opens) /\ (Reconnecting => \E k \in DOMAIN rest : rest[k].for = "reconnect")
  <2>1. /\ rest \in Seq(Opens)
        /\ \A j \in DOMAIN opens : j # i => \E k \in DOMAIN rest : rest[k] = opens[j]
    BY WithoutKeeps, Zenon DEF IInv
  <2> HIDE DEF rest
  <2> QED
    BY <1>1, <2>1 DEF Reconnecting
<1>4. opens' = rest \/ opens' = Append(rest, [for |-> "focus", city |-> focus])
  BY DEF SttFocused
<1> HIDE DEF rest
<1>5. [for |-> "focus", city |-> focus] \in Opens
  BY DEF Opens, IInv
<1>6. opens' \in Seq(Opens) /\ (Reconnecting => Reconnecting')
  <2>1. CASE opens' = rest
    BY <1>3, <2>1 DEF Reconnecting
  <2>2. CASE opens' = Append(rest, [for |-> "focus", city |-> focus])
    BY <1>3, <1>5, <2>2, AppendKeeps DEF Reconnecting
  <2> QED
    BY <1>4, <2>1, <2>2
<1>7. UNCHANGED <<stt, next, sttCity>> \/ (o.session # NoStt /\ SwapIfReady(stt, o.session, finalize))
  BY DEF SttFocused
<1>8. MaybeNamed(o.session) /\ (o.session # NoStt => o.session.city \in Focus)
  BY <1>2, OpeningNamed
<1>9. /\ MaybeNamed(stt)' /\ MaybeNamed(next)' /\ sttCity' \in Focus
      /\ next' # NoStt => next'.city \in Focus
      /\ HasStt => HasStt'
  <2>1. CASE UNCHANGED <<stt, next, sttCity>>
    BY <2>1 DEF IInv, MaybeNamed, Named, HasStt
  <2>2. CASE SwapIfReady(stt, o.session, finalize)
    BY <1>8, <2>2, SwapNamed DEF IInv, HasStt
  <2> QED
    BY <1>7, <2>1, <2>2
<1> QED
  BY <1>1, <1>6, <1>9, StillHeard DEF IInv

(* A transcript, a failure that passes, or a connection that dies leaves a session. *)
LEMMA ReportKeeps ==
    ASSUME IInv, HasStt, UNCHANGED <<opens, focus, gaveUp>>, NEW live, Named(live),
           SwapIfReady(live, next, 0) \/ (stt' = live /\ UNCHANGED <<next, sttCity>>)
    PROVE  IInv'
<1>1. MaybeNamed(live) /\ live # NoStt
  BY NamedIsOne DEF MaybeNamed
<1>2. /\ MaybeNamed(stt)' /\ MaybeNamed(next)' /\ sttCity' \in Focus
      /\ next' # NoStt => next'.city \in Focus
      /\ HasStt'
  <2>1. CASE SwapIfReady(live, next, 0)
    BY <1>1, <2>1, SwapNamed DEF IInv
  <2>2. CASE stt' = live /\ UNCHANGED <<next, sttCity>>
    BY <1>1, <2>2 DEF IInv, MaybeNamed, Named, HasStt
  <2> QED
    BY <2>1, <2>2
<1> QED
  BY <1>2, StillHeard DEF IInv, Reconnecting

(* A session that closes sends for another, or for a person. *)
LEMMA ClosedKeeps ==
    ASSUME IInv, NEW due, ~gaveUp, Closed(due)
    PROVE  IInv'
<1>1. stt' = NoStt /\ UNCHANGED <<next, sttCity, focus>>
  BY DEF Closed
<1>2. \/ gaveUp' = TRUE /\ opens' = opens
      \/ opens' = Append(opens, [for |-> "reconnect", city |-> sttCity]) /\ gaveUp' = gaveUp
  BY DEF Closed
<1>3. [for |-> "reconnect", city |-> sttCity] \in Opens
  BY DEF Opens, IInv
<1>4. opens' \in Seq(Opens) /\ (gaveUp' \/ Reconnecting')
  <2>1. CASE gaveUp' = TRUE /\ opens' = opens
    BY <2>1 DEF IInv
  <2>2. CASE opens' = Append(opens, [for |-> "reconnect", city |-> sttCity])
    <3>1. \E k \in DOMAIN opens' : opens'[k] = [for |-> "reconnect", city |-> sttCity]
      BY <1>3, <2>2, AppendKeeps DEF IInv
    <3> QED
      BY <1>3, <2>2, <3>1, AppendKeeps DEF IInv, Reconnecting
  <2> QED
    BY <1>2, <2>1, <2>2
<1>5. NeverDeaf'
  BY <1>4 DEF NeverDeaf, Reconnecting
<1> QED
  BY <1>1, <1>4, <1>5 DEF IInv, MaybeNamed, Named

(* A call begins with a reconnect on its way. *)
LEMMA DeafBegins ==
    ASSUME Init
    PROVE  IInv
<1>1. opens = <<[for |-> "reconnect", city |-> None]>> /\ None \in Focus
  BY DEF Init, Focus
<1>2. opens \in Seq(Opens) /\ 1 \in DOMAIN opens /\ opens[1].for = "reconnect"
  BY <1>1 DEF Opens
<1> QED
  BY <1>1, <1>2 DEF Init, IInv, MaybeNamed, NeverDeaf

(* And every step leaves a recognizer, or one on its way, or a person. *)
LEMMA DeafStep ==
    ASSUME IInv, [Next]_vars
    PROVE  IInv'
<1>1. ASSUME UNCHANGED <<stt, next, opens, sttCity, focus, gaveUp>>
      PROVE  IInv'
  BY <1>1, StillHeard DEF IInv, MaybeNamed, Named, HasStt, Reconnecting
<1>2. CASE SpeechStarts \/ OtherCalls \/ UNCHANGED vars
  BY <1>1, <1>2 DEF SpeechStarts, OtherCalls, vars, listening
<1>3. CASE Final
  <2> DEFINE a == [stt EXCEPT !.due = Tail(@)]
             live == [a EXCEPT !.failed = 0]
  <2>1. HasStt /\ Named(stt)
    BY <1>3 DEF Final, IInv, MaybeNamed, HasStt
  <2>2. Named(a)
    BY <2>1 DEF Named
  <2>3. /\ UNCHANGED <<opens, focus, gaveUp>>
        /\ SwapIfReady(live, next, 0) \/ (stt' = a /\ UNCHANGED <<next, sttCity>>)
    BY <1>3 DEF Final
  <2> HIDE DEF a
  <2>4. Named(live)
    BY <2>2 DEF Named
  <2> HIDE DEF live
  <2> QED
    BY <2>1, <2>2, <2>3, <2>4, ReportKeeps
<1>4. ASSUME NEW outage \in BOOLEAN, Fails(outage)
      PROVE  IInv'
  <2> DEFINE a == [stt EXCEPT !.due = Tail(@)]
             live == [a EXCEPT !.failed = 1]
  <2>1. ~gaveUp /\ HasStt /\ Named(stt)
    BY <1>4 DEF Fails, IInv, MaybeNamed, HasStt
  <2>2. Closed(finalize) \/ (stt' = live /\ UNCHANGED <<opens, focus, gaveUp, next, sttCity>>)
    BY <1>4 DEF Fails
  <2>3. Named(a)
    BY <2>1 DEF Named
  <2> HIDE DEF a
  <2>4. Named(live)
    BY <2>3 DEF Named
  <2> HIDE DEF live
  <2> QED
    BY <2>1, <2>2, <2>4, ReportKeeps, ClosedKeeps
<1>5. CASE Dies
  <2> DEFINE live == [stt EXCEPT !.up = FALSE]
  <2>1. HasStt /\ Named(stt) /\ stt' = live /\ UNCHANGED <<opens, focus, gaveUp, next, sttCity>>
    BY <1>5 DEF Dies, IInv, MaybeNamed, HasStt, listening
  <2>2. Named(live)
    BY <2>1 DEF Named
  <2> HIDE DEF live
  <2> QED
    BY <2>1, <2>2, ReportKeeps
<1>6. CASE SessionCloses \/ FinalOverdue
  BY <1>6, ClosedKeeps DEF SessionCloses, FinalOverdue
<1>7. CASE Connecting
  BY <1>7, SttReadyKeeps, SttFocusedKeeps DEF Connecting
<1> QED
  BY <1>2, <1>3, <1>4, <1>5, <1>6, <1>7, SpeechEndsKeeps, RepliesKeeps DEF Next

(* A call has a recognizer, one on its way, or is on its way to a person         *)
(* (NeverDeaf; on_stt, reconnect_stt and the swap of hearing.rs).                *)
THEOREM NeverDeafHolds == Spec => []NeverDeaf
<1>1. Init => IInv
  BY DeafBegins
<1>2. IInv /\ [Next]_vars => IInv'
  BY DeafStep
<1>3. IInv => NeverDeaf
  BY DEF IInv
<1> QED
  BY <1>1, <1>2, <1>3, PTL DEF Spec

-----------------------------------------------------------------------------
(* Giving up, where noise gets an empty transcript.  A transcript that is     *)
(* overdue closes the session without a failure of its own, so the count of   *)
(* reconnects does not bound the failures by itself: Owed says that one has   *)
(* been counted already whenever a transcript can become overdue.             *)

(* An end of speech as a recognizer keeps it, and a recognizer's session. *)
Ends == [id : Nat, heard : SUBSET Nat, words : BOOLEAN]
Sessions ==
    [by : {"primary", "backup"}, city : Focus, up : BOOLEAN, sent : SUBSET Nat, due : Seq(Ends), failed : 0 .. 1]

Shaped ==
    /\ spoken \in Nat /\ finalize \in Nat /\ kept \subseteq Nat /\ backlog \subseteq Nat
    /\ stt \in Sessions \cup {NoStt}
    /\ next \in Sessions \cup {NoStt}
    /\ next # NoStt => next.up
    /\ stt = NoStt => finalize = 0

(* A transcript is due that the live session is not going to answer. *)
Owed == stt # NoStt /\ (~stt.up \/ (finalize # 0 /\ \A i \in DOMAIN stt.due : stt.due[i].id # finalize))

Counted ==
    /\ reconnects \in Nat /\ faults \in Nat /\ noises \in Nat
    /\ ~gaveUp => /\ reconnects <= MaxReconnects
                  /\ reconnects <= faults + noises
                  /\ Owed => reconnects + 1 <= faults + noises
    /\ GivesUpOnTroubles

FaultsInv == IInv /\ Shaped /\ Counted

(* A session is not none, and what is set of one is. *)
LEMMA SessionFields ==
    ASSUME NEW s \in Sessions
    PROVE  /\ s # NoStt
           /\ [s EXCEPT !.up = FALSE] \in Sessions
           /\ \A d \in Seq(Ends) : LET t == [s EXCEPT !.due = d]
                                   IN  t \in Sessions /\ t.due = d /\ t.up = s.up
           /\ \A h \in SUBSET Nat : LET t == [s EXCEPT !.sent = h]
                                    IN  t \in Sessions /\ t.due = s.due /\ t.up = s.up
           /\ \A n \in {0, 1} : LET t == [s EXCEPT !.failed = n]
                               IN  t \in Sessions /\ t.due = s.due /\ t.up = s.up
<1>1. s # NoStt
  BY DEF Sessions, NoStt
<1>2. [s EXCEPT !.up = FALSE] \in Sessions
  BY DEF Sessions
<1>3. ASSUME NEW d \in Seq(Ends)
      PROVE  LET t == [s EXCEPT !.due = d] IN t \in Sessions /\ t.due = d /\ t.up = s.up
  BY DEF Sessions
<1>4. ASSUME NEW h \in SUBSET Nat
      PROVE  LET t == [s EXCEPT !.sent = h] IN t \in Sessions /\ t.due = s.due /\ t.up = s.up
  BY DEF Sessions
<1>5. ASSUME NEW n \in {0, 1}
      PROVE  LET t == [s EXCEPT !.failed = n] IN t \in Sessions /\ t.due = s.due /\ t.up = s.up
  BY DEF Sessions
<1> QED
  BY <1>1, <1>2, <1>3, <1>4, <1>5

(* A failure is counted, and noise that is not answered. *)
LEMMA FaultCounts ==
    ASSUME MaxReconnects \in Nat, faults \in Nat, noises \in Nat,
           NEW n \in Nat, n <= faults + noises, n <= MaxReconnects
    PROVE  /\ Fault \in Nat /\ n + 1 <= Fault + noises
           /\ OneMore(noises) \in Nat /\ n + 1 <= faults + OneMore(noises)
  BY DEF Fault, OneMore

(* A step that closes nothing and counts nothing owes no more than before. *)
LEMMA CountKept ==
    ASSUME Counted, UNCHANGED <<reconnects, gaveUp, faults, noises>>, Owed' => Owed
    PROVE  Counted'
  BY DEF Counted, GivesUpOnTroubles

(* One that counts a failure, or noise, and closes nothing may owe what it likes. *)
LEMMA FaultKeeps ==
    ASSUME MaxReconnects \in Nat, Counted, ~gaveUp, UNCHANGED <<reconnects, gaveUp>>,
           \/ faults' = Fault /\ noises' = noises
           \/ faults' = faults /\ noises' = OneMore(noises)
    PROVE  Counted'
<1>1. /\ Fault \in Nat /\ reconnects + 1 <= Fault + noises
      /\ OneMore(noises) \in Nat /\ reconnects + 1 <= faults + OneMore(noises)
  BY FaultCounts DEF Counted
<1> QED
  BY <1>1 DEF Counted, GivesUpOnTroubles

(* Nor does one on a session that changes only in what it was not owed. *)
LEMMA OwedSame ==
    ASSUME UNCHANGED <<stt, finalize>>
    PROVE  Owed' = Owed
  BY DEF Owed

LEMMA SpeechEndsCounts ==
    ASSUME FaultsInv, NEW w \in BOOLEAN, SpeechEnds(w)
    PROVE  Shaped' /\ Counted'
<1> DEFINE n == spoken + 1
           h == stt.sent \cup {n}
           e == [id |-> n, heard |-> h, words |-> w]
<1>1. /\ spoken' = n /\ UNCHANGED <<next, reconnects, gaveUp, faults, noises>>
      /\ kept' \in {{n}, kept \cup {n}} /\ n \in Nat /\ n # 0
  BY DEF SpeechEnds, listening, FaultsInv, Shaped
<1>2. CASE HasStt
  <2> DEFINE a == [stt EXCEPT !.sent = {}]
             d == Append(stt.due, e)
             b == [a EXCEPT !.due = d]
  <2>1. stt \in Sessions /\ stt.due \in Seq(Ends) /\ stt.sent \subseteq Nat
    BY <1>2 DEF HasStt, FaultsInv, Shaped, Sessions
  <2>2. a \in Sessions /\ a.due = stt.due /\ a.up = stt.up
    BY <2>1, SessionFields
  <2>3. stt' = b /\ finalize' = n /\ backlog' = backlog
    BY <1>2, <2>2 DEF SpeechEnds
  <2>4. e \in Ends
    BY <1>1, <2>1 DEF Ends
  <2> HIDE DEF a, e
  <2>5. /\ d \in Seq(Ends) /\ Len(stt.due) + 1 \in DOMAIN d /\ d[Len(stt.due) + 1] = e
    BY <2>1, <2>4, AppendProperties, LenProperties
  <2> HIDE DEF d
  <2>6. b \in Sessions /\ b.due = d /\ b.up = a.up
    BY <2>2, <2>5, SessionFields
  <2>7. b # NoStt
    BY <2>6, SessionFields
  <2>8. e.id = n
    BY DEF e
  <2> HIDE DEF b, n
  <2>9. Owed' => Owed
    <3> SUFFICES ASSUME Owed'
                 PROVE  ~stt.up
      BY <2>1, SessionFields DEF Owed
    <3> QED
      BY <2>2, <2>3, <2>5, <2>6, <2>8 DEF Owed
  <2>10. Shaped'
    BY <1>1, <2>3, <2>6, <2>7 DEF FaultsInv, Shaped
  <2> QED
    BY <1>1, <2>9, <2>10, CountKept DEF FaultsInv
<1>3. CASE ~HasStt
  <2>1. backlog' = backlog \cup {n} /\ UNCHANGED <<stt, finalize>>
    BY <1>3 DEF SpeechEnds
  <2> HIDE DEF n
  <2> QED
    BY <1>1, <2>1, OwedSame, CountKept DEF FaultsInv, Shaped
<1> QED
  BY <1>2, <1>3

(* A session that opens is up, and answers what it is sent. *)
LEMMA OpenedIsUp ==
    ASSUME NEW c \in Focus, NEW o \in Opening(c), o.session # NoStt
    PROVE  o.session \in Sessions /\ o.session.up
<1>1. o.session \in {Opened("backup", c), Opened("primary", c), NoStt}
  <2>1. CASE o \in [session : {Opened("backup", c), NoStt}, down : {TRUE}]
    BY <2>1
  <2>2. CASE o = [session |-> Opened("primary", c), down |-> FALSE]
    BY <2>2
  <2> QED
    BY <2>1, <2>2 DEF Opening
<1>2. \A by \in {"primary", "backup"} : Opened(by, c) \in Sessions /\ Opened(by, c).up
  BY DEF Opened, Sessions
<1> QED
  BY <1>1, <1>2

LEMMA SttReadyCounts ==
    ASSUME MaxReconnects \in Nat, FaultsInv, NEW i \in DOMAIN opens, NEW o \in Opening(opens[i].city), SttReady(i, o)
    PROVE  Shaped' /\ Counted'
<1>1. UNCHANGED <<next, spoken, kept, reconnects, noises>> /\ ~gaveUp
  BY DEF SttReady, caller
<1>2. opens[i].city \in Focus
  <2>1. opens[i] \in Opens
    BY ElementOfSeq, LenProperties DEF FaultsInv, IInv
  <2> QED
    BY <2>1 DEF Opens
<1>3. CASE o.session = NoStt
  <2>1. gaveUp' = TRUE /\ faults' = MaxReconnects + 1 /\ UNCHANGED <<stt, finalize, backlog>>
    BY <1>3 DEF SttReady
  <2>2. Counted'
    BY <1>1, <2>1 DEF FaultsInv, Counted, GivesUpOnTroubles
  <2> QED
    BY <1>1, <2>1, <2>2 DEF FaultsInv, Shaped
<1>4. CASE o.session # NoStt
  <2> DEFINE again == resend /\ kept # {}
             t(w) == [o.session EXCEPT !.due = IF again THEN <<[id |-> spoken, heard |-> kept, words |-> w]>> ELSE @,
                                       !.sent = backlog]
  <2>0. PICK w \in BOOLEAN : stt' = t(w)
    BY <1>4 DEF SttReady
  <2> DEFINE e == [id |-> spoken, heard |-> kept, words |-> w]
             d == IF again THEN <<e>> ELSE o.session.due
             a == [o.session EXCEPT !.due = d]
             b == [a EXCEPT !.sent = backlog]
  <2>1. o.session \in Sessions /\ o.session.up /\ o.session.due \in Seq(Ends)
    BY <1>2, <1>4, OpenedIsUp DEF Sessions
  <2>2. e \in Ends /\ e.id = spoken
    BY DEF Ends, FaultsInv, Shaped
  <2>3. /\ stt' = b /\ finalize' = (IF again THEN spoken ELSE finalize) /\ backlog' = {}
        /\ gaveUp' = gaveUp /\ faults' = IF HasStt /\ finalize # 0 THEN Fault ELSE faults
    BY <1>4, <2>0 DEF SttReady
  <2> HIDE DEF e
  <2>4. d \in Seq(Ends) /\ (again => 1 \in DOMAIN d /\ d[1].id = spoken)
    BY <2>1, <2>2
  <2> HIDE DEF d
  <2>5. a \in Sessions /\ a.due = d /\ a.up
    BY <2>1, <2>4, SessionFields
  <2> HIDE DEF a
  <2>6. b \in Sessions /\ b.due = d /\ b.up /\ b # NoStt
    <3>1. backlog \in SUBSET Nat
      BY DEF FaultsInv, Shaped
    <3>2. b \in Sessions /\ b.due = a.due /\ b.up = a.up
      BY <2>5, <3>1, SessionFields
    <3> QED
      BY <2>5, <3>2, SessionFields
  <2> HIDE DEF b, again
  <2>7. Shaped'
    BY <1>1, <2>3, <2>6 DEF FaultsInv, Shaped
  <2>8. CASE HasStt /\ finalize # 0
    BY <1>1, <2>3, <2>7, <2>8, FaultKeeps DEF FaultsInv
  <2>9. CASE ~(HasStt /\ finalize # 0)
    <3>1. finalize = 0
      BY <2>9 DEF HasStt, FaultsInv, Shaped
    <3>2. ~Owed'
      BY <2>3, <2>4, <2>6, <3>1 DEF Owed
    <3> QED
      BY <1>1, <2>3, <2>7, <2>9, <3>2, CountKept DEF FaultsInv
  <2> QED
    BY <2>7, <2>8, <2>9
<1> QED
  BY <1>3, <1>4

LEMMA SttFocusedCounts ==
    ASSUME FaultsInv, NEW i \in DOMAIN opens, NEW o \in Opening(opens[i].city), SttFocused(i, o)
    PROVE  Shaped' /\ Counted'
<1>1. UNCHANGED <<spoken, kept, finalize, backlog, reconnects, gaveUp, faults, noises>>
  BY DEF SttFocused, caller
<1>2. opens[i].city \in Focus
  <2>1. opens[i] \in Opens
    BY ElementOfSeq, LenProperties DEF FaultsInv, IInv
  <2> QED
    BY <2>1 DEF Opens
<1>3. UNCHANGED <<stt, next>> \/ (o.session # NoStt /\ SwapIfReady(stt, o.session, finalize))
  BY DEF SttFocused
<1>4. CASE UNCHANGED <<stt, next>>
  BY <1>1, <1>4, OwedSame, CountKept DEF FaultsInv, Shaped
<1>5. CASE o.session # NoStt /\ SwapIfReady(stt, o.session, finalize)
  <2>1. o.session \in Sessions /\ o.session.up
    BY <1>2, <1>5, OpenedIsUp
  <2>2. CASE speaking \/ finalize # 0
    <3>1. stt' = stt /\ next' = o.session
      BY <1>5, <2>2 DEF SwapIfReady
    <3> QED
      BY <1>1, <2>1, <3>1, OwedSame, CountKept DEF FaultsInv, Shaped
  <2>3. CASE ~(speaking \/ finalize # 0)
    <3>1. stt' = o.session /\ next' = NoStt /\ finalize' = 0
      BY <1>1, <1>5, <2>3 DEF SwapIfReady
    <3>2. ~Owed'
      BY <2>1, <3>1 DEF Owed
    <3>3. Shaped'
      BY <1>1, <1>5, <2>1, <3>1 DEF FaultsInv, Shaped
    <3> QED
      BY <1>1, <3>2, <3>3, CountKept DEF FaultsInv
  <2> QED
    BY <2>2, <2>3
<1> QED
  BY <1>3, <1>4, <1>5

LEMMA FinalCounts ==
    ASSUME MaxReconnects \in Nat, FaultsInv, Final
    PROVE  Shaped' /\ Counted'
<1> DEFINE d == Tail(stt.due)
           a == [stt EXCEPT !.due = d]
           b == [a EXCEPT !.failed = 0]
           answers == Head(stt.due).words \/ stt.by \in EmptyFinals
<1>1. /\ ~gaveUp /\ stt # NoStt /\ stt.up /\ stt.due # <<>>
      /\ UNCHANGED <<spoken, kept, backlog, gaveUp>>
  BY DEF Final, caller, HasStt
<1>2. stt \in Sessions /\ stt.due \in Seq(Ends)
  BY <1>1 DEF FaultsInv, Shaped, Sessions
<1>3. /\ answers => SwapIfReady(b, next, 0) /\ finalize' = 0 /\ reconnects' = 0 /\ faults' = 0 /\ noises' = 0
      /\ ~answers => /\ stt' = a /\ noises' = OneMore(noises)
                     /\ UNCHANGED <<next, finalize, reconnects, faults>>
  BY <1>2 DEF Final
<1>4. d \in Seq(Ends)
  BY <1>1, <1>2, HeadTailProperties
<1> HIDE DEF d, answers
<1>5. a \in Sessions /\ a.up = stt.up
  BY <1>2, <1>4, SessionFields
<1>6. a # NoStt
  BY <1>5, SessionFields
<1> HIDE DEF a
<1>7. CASE answers
  <2>1. b \in Sessions /\ b.up = a.up
    BY <1>5, SessionFields
  <2>2. b \in Sessions /\ b.up = stt.up /\ b # NoStt
    BY <1>5, <2>1, SessionFields
  <2> HIDE DEF b
  <2>3. \/ stt' = b /\ next' = next
        \/ next # NoStt /\ stt' = next /\ next' = NoStt
    BY <1>3, <1>7 DEF SwapIfReady
  <2>4. finalize' = 0 /\ reconnects' = 0 /\ faults' = 0 /\ noises' = 0
    BY <1>3, <1>7
  <2>5. Shaped' /\ stt' # NoStt /\ stt'.up
    BY <1>1, <2>2, <2>3, <2>4 DEF FaultsInv, Shaped
  <2>6. ~Owed'
    BY <2>4, <2>5 DEF Owed
  <2> QED
    BY <1>1, <2>4, <2>5, <2>6 DEF Counted, GivesUpOnTroubles
<1>8. CASE ~answers
  <2>1. Shaped'
    BY <1>1, <1>3, <1>5, <1>6, <1>8 DEF FaultsInv, Shaped
  <2> QED
    BY <1>1, <1>3, <1>8, <2>1, FaultKeeps DEF FaultsInv
<1> QED
  BY <1>7, <1>8

(* A session that closes: its reconnect is counted, against a failure of now or of before. *)
LEMMA ClosedCounts ==
    ASSUME MaxReconnects \in Nat, FaultsInv, ~gaveUp, NEW due, Closed(due), NEW f \in Nat, NEW n \in Nat,
           faults' = f, noises' = n, reconnects + 1 <= f + n
    PROVE  Shaped' /\ Counted'
<1>1. /\ stt' = NoStt /\ reconnects' = reconnects + 1 /\ finalize' = 0
      /\ UNCHANGED <<next, backlog, spoken, kept>>
      /\ \/ reconnects + 1 > MaxReconnects /\ gaveUp' = TRUE
         \/ ~(reconnects + 1 > MaxReconnects) /\ gaveUp' = gaveUp
  BY DEF Closed, caller
<1>2. Shaped'
  BY <1>1 DEF FaultsInv, Shaped
<1>3. ~Owed'
  BY <1>1 DEF Owed
<1> QED
  BY <1>1, <1>2, <1>3 DEF FaultsInv, Counted, GivesUpOnTroubles

LEMMA FailsCounts ==
    ASSUME MaxReconnects \in Nat, FaultsInv, NEW outage \in BOOLEAN, Fails(outage)
    PROVE  Shaped' /\ Counted'
<1> DEFINE d == Tail(stt.due)
           a == [stt EXCEPT !.due = d]
           b == [a EXCEPT !.failed = 1]
<1>1. ~gaveUp /\ stt # NoStt /\ stt.due # <<>> /\ faults' = Fault /\ noises' = noises
  BY DEF Fails, HasStt
<1>2. Fault \in Nat /\ noises \in Nat /\ reconnects + 1 <= Fault + noises
  BY <1>1, FaultCounts DEF FaultsInv, Counted
<1>3. CASE outage \/ stt.failed = 1
  BY <1>1, <1>2, <1>3, ClosedCounts DEF Fails
<1>4. CASE ~(outage \/ stt.failed = 1)
  <2>1. stt \in Sessions /\ stt.due \in Seq(Ends)
    BY <1>1 DEF FaultsInv, Shaped, Sessions
  <2>2. /\ stt' = b
        /\ UNCHANGED <<next, finalize, backlog, reconnects, gaveUp, spoken, kept>>
    BY <1>4, <2>1 DEF Fails, caller
  <2>3. d \in Seq(Ends)
    BY <1>1, <2>1, HeadTailProperties
  <2> HIDE DEF d
  <2>4. a \in Sessions
    BY <2>1, <2>3, SessionFields
  <2> HIDE DEF a
  <2>5. b \in Sessions /\ b # NoStt
    BY <2>4, SessionFields
  <2> HIDE DEF b
  <2>6. Shaped'
    BY <2>2, <2>5 DEF FaultsInv, Shaped
  <2> QED
    BY <1>1, <2>2, <2>6, FaultKeeps DEF FaultsInv
<1> QED
  BY <1>3, <1>4

LEMMA DiesCounts ==
    ASSUME MaxReconnects \in Nat, FaultsInv, Dies
    PROVE  Shaped' /\ Counted'
<1> DEFINE b == [stt EXCEPT !.up = FALSE]
<1>1. /\ ~gaveUp /\ stt # NoStt /\ faults' = Fault /\ noises' = noises /\ stt' = b
      /\ UNCHANGED <<next, finalize, backlog, reconnects, gaveUp, spoken, kept>>
  BY DEF Dies, HasStt, listening, caller
<1>2. stt \in Sessions
  BY <1>1 DEF FaultsInv, Shaped
<1>3. b \in Sessions
  BY <1>2, SessionFields
<1> HIDE DEF b
<1>4. b # NoStt
  BY <1>3, SessionFields
<1>5. Shaped'
  BY <1>1, <1>3, <1>4 DEF FaultsInv, Shaped
<1> QED
  BY <1>1, <1>5, FaultKeeps DEF FaultsInv

(* The call is given up only after so many failures and unanswered noises since   *)
(* the last transcript (GivesUpOnTroubles; on_stt, reconnect_stt and FinalOverdue  *)
(* of session.rs), whichever recognizers answer noise.                             *)
THEOREM GivesUpOnTroublesHolds ==
    ASSUME MaxReconnects \in Nat
    PROVE  Spec => []GivesUpOnTroubles
<1>1. Init => FaultsInv
  <2> SUFFICES ASSUME Init
               PROVE  Shaped /\ Counted
    BY DeafBegins DEF FaultsInv
  <2> QED
    BY DEF Init, Shaped, Counted, GivesUpOnTroubles, Owed
<1>2. FaultsInv /\ [Next]_vars => FaultsInv'
  <2> SUFFICES ASSUME FaultsInv, [Next]_vars
               PROVE  Shaped' /\ Counted'
    BY DeafStep DEF FaultsInv
  <2>1. ASSUME UNCHANGED <<stt, next, finalize, backlog, reconnects, gaveUp, faults, noises, spoken, kept>>
        PROVE  Shaped' /\ Counted'
    BY <2>1, OwedSame, CountKept DEF FaultsInv, Shaped
  <2>2. CASE SpeechStarts \/ OtherCalls \/ (\E c \in Focus : Replies(c)) \/ UNCHANGED vars
    BY <2>1, <2>2 DEF SpeechStarts, OtherCalls, Replies, vars, listening, caller
  <2>3. CASE SessionCloses
    <3>1. ~gaveUp /\ Closed(finalize) /\ faults' = Fault /\ noises' = noises
      BY <2>3 DEF SessionCloses
    <3>2. Fault \in Nat /\ noises \in Nat /\ reconnects + 1 <= Fault + noises
      BY <3>1, FaultCounts DEF FaultsInv, Counted
    <3> QED
      BY <3>1, <3>2, ClosedCounts
  <2>4. CASE FinalOverdue
    <3>1. ~gaveUp /\ Closed(0) /\ UNCHANGED <<faults, noises>> /\ Owed
      BY <2>4 DEF FinalOverdue, Owed, HasStt
    <3>2. faults \in Nat /\ noises \in Nat /\ reconnects + 1 <= faults + noises
      BY <3>1 DEF FaultsInv, Counted
    <3> QED
      BY <3>1, <3>2, ClosedCounts
  <2>5. CASE Connecting
    BY <2>5, SttReadyCounts, SttFocusedCounts DEF Connecting
  <2> QED
    BY <2>2, <2>3, <2>4, <2>5, SpeechEndsCounts, FinalCounts, FailsCounts, DiesCounts DEF Next
<1>3. FaultsInv => GivesUpOnTroubles
  BY DEF FaultsInv, Counted
<1> QED
  BY <1>1, <1>2, <1>3, PTL DEF Spec

-----------------------------------------------------------------------------
(* Deciding, for any number of utterances, in every mode but the one with     *)
(* both second hearings and guesses.  Words are moved from place to place as  *)
(* whole sequences; that none is lost or doubled rests on the places being    *)
(* apart: no utterance is in two of them, nor twice in one (Separate), and a  *)
(* second hearing is waited for only while no turn is under way (OneWaits),   *)
(* or its answer would overwrite that turn's words.                           *)

OneWay == Modes \subseteq {"rules", "second", "guess"}

(* A list of utterances without repetition. *)
Once(s) == s \in Seq(Nat) /\ \A i, j \in DOMAIN s : s[i] = s[j] => i = j

(* The words of the turn under way; those of a guess are not heard yet. *)
Turned == IF pend.spec THEN <<>> ELSE pend.words

(* The places t, u, s and p and what was dropped share out the utterances up to n. *)
Parted(t, u, s, p, d, n) ==
    /\ Once(t) /\ Once(u) /\ Once(s) /\ Once(p)
    /\ D!Elements(t) \cap D!Elements(u) = {} /\ D!Elements(t) \cap D!Elements(s) = {}
    /\ D!Elements(t) \cap D!Elements(p) = {} /\ D!Elements(u) \cap D!Elements(s) = {}
    /\ D!Elements(u) \cap D!Elements(p) = {} /\ D!Elements(s) \cap D!Elements(p) = {}
    /\ d \cap D!Elements(t) = {} /\ d \cap D!Elements(u) = {}
    /\ d \cap D!Elements(s) = {} /\ d \cap D!Elements(p) = {}
    /\ D!Elements(t) \cup D!Elements(u) \cup D!Elements(s) \cup D!Elements(p) \cup d = 1 .. n

Separate == Parted(taken, unfinished, second.words, Turned, dropped, heard)

OneWaits ==
    /\ mode \in {"rules", "second", "guess"}
    /\ pend.spec => mode = "guess"
    /\ second # D!NoSecond => mode = "second" /\ ~D!Waiting

Confirmed == \A w \in said : D!Elements(w) \subseteq 1 .. heard

(* What is on its way to the session. *)
Kinds == {"fields", "asks", "phrase", "say", "done"}
Letters == [turn : Nat \ {0}, what : Kinds, how : {"ok", "err"}]
Turns == [turn : Nat, words : Seq(Nat), spec : BOOLEAN, hold : BOOLEAN, held : BOOLEAN, done : {"no", "ok", "err"}]

DecidingFields ==
    /\ heard \in Nat /\ turn \in Nat
    /\ pend \in Turns
    /\ second \in [id : Nat, words : Seq(Nat)] /\ hearings \in Nat
    /\ asking = D!NoTask \/ asking \in [turn : Nat \ {0}, stage : 1 .. 5]
    /\ mail \in Seq(Letters)

DecidingInv == DecidingFields /\ Separate /\ OneWaits /\ Confirmed

(* Lists that are apart make one list. *)
LEMMA Joined ==
    ASSUME NEW a, NEW b, Once(a), Once(b), D!Elements(a) \cap D!Elements(b) = {}
    PROVE  Once(a \o b) /\ D!Elements(a \o b) = D!Elements(a) \cup D!Elements(b)
<1> DEFINE m == Len(a)
           n == Len(b)
           c == a \o b
<1>1. /\ a \in Seq(Nat) /\ b \in Seq(Nat) /\ m \in Nat /\ n \in Nat
      /\ DOMAIN a = 1 .. m /\ DOMAIN b = 1 .. n
  BY LenProperties DEF Once
<1>2. /\ c \in Seq(Nat) /\ Len(c) = m + n
      /\ \A i \in 1 .. m + n : c[i] = IF i <= m THEN a[i] ELSE b[i - m]
  BY <1>1, ConcatProperties
<1>3. DOMAIN c = 1 .. m + n
  BY <1>1, <1>2, LenProperties
<1> HIDE DEF c, m, n
<1>4. ASSUME NEW i \in DOMAIN c
      PROVE  \/ i \in DOMAIN a /\ c[i] = a[i]
             \/ ~(i \in DOMAIN a) /\ i - m \in DOMAIN b /\ c[i] = b[i - m]
  BY <1>1, <1>2, <1>3
<1>5. /\ \A i \in DOMAIN a : i \in DOMAIN c /\ c[i] = a[i]
      /\ \A i \in DOMAIN b : \E k \in DOMAIN c : c[k] = b[i]
  <2>1. \A i \in DOMAIN a : i \in DOMAIN c /\ c[i] = a[i]
    BY <1>1, <1>2, <1>3
  <2>2. ASSUME NEW i \in DOMAIN b
        PROVE  \E k \in DOMAIN c : c[k] = b[i]
    <3> DEFINE k == i + m
    <3>1. k \in 1 .. m + n /\ ~(k <= m) /\ k - m = i
      BY <1>1
    <3> HIDE DEF k
    <3> QED
      BY <1>2, <1>3, <3>1
  <2> QED
    BY <2>1, <2>2
<1>6. D!Elements(c) = D!Elements(a) \cup D!Elements(b)
  BY <1>4, <1>5 DEF D!Elements
<1>7. ASSUME NEW i \in DOMAIN c, NEW j \in DOMAIN c, c[i] = c[j]
      PROVE  i = j
  <2>1. CASE i \in DOMAIN a /\ j \in DOMAIN a
    BY <1>4, <1>7, <2>1 DEF Once
  <2>2. CASE i \notin DOMAIN a /\ j \notin DOMAIN a
    <3>1. i - m = j - m
      BY <1>4, <1>7, <2>2 DEF Once
    <3> QED
      BY <1>1, <1>3, <3>1
  <2>3. CASE (i \in DOMAIN a /\ j \notin DOMAIN a) \/ (i \notin DOMAIN a /\ j \in DOMAIN a)
    BY <1>4, <1>7, <2>3 DEF D!Elements
  <2> QED
    BY <2>1, <2>2, <2>3
<1> QED
  BY <1>2, <1>6, <1>7 DEF Once, c

(* No words, and the words just heard. *)
LEMMA FewWords ==
    /\ Once(<<>>) /\ D!Elements(<<>>) = {}
    /\ \A n \in Nat : Once(<<n>>) /\ D!Elements(<<n>>) = {n}
<1>1. Once(<<>>) /\ D!Elements(<<>>) = {}
  BY DEF Once, D!Elements
<1>2. ASSUME NEW n \in Nat
      PROVE  Once(<<n>>) /\ D!Elements(<<n>>) = {n}
  <2>1. <<n>> \in Seq(Nat) /\ DOMAIN <<n>> = {1} /\ <<n>>[1] = n
    OBVIOUS
  <2> QED
    BY <2>1 DEF Once, D!Elements
<1> QED
  BY <1>1, <1>2

(* A place can be emptied into another, and they stay apart. *)
LEMMA Moves ==
    ASSUME NEW t, NEW u, NEW s, NEW p, NEW d, NEW n, Parted(t, u, s, p, d, n)
    PROVE  /\ Parted(t \o u, <<>>, s, p, d, n)
           /\ Parted(t, <<>>, s, p, d \cup D!Elements(u), n)
           /\ Parted(t, p, s, u, d, n)
           /\ Parted(t, u, p, s, d, n)
           /\ Parted(t, <<>>, s, p \o u, d, n)
           /\ Parted(t, u, <<>>, s \o p, d, n)
           /\ Parted(t \o p, u, s, <<>>, d, n)
           /\ Parted(t, u, s, <<>>, d \cup D!Elements(p), n)
<1> USE DEF Parted
<1>1. Once(t \o u) /\ D!Elements(t \o u) = D!Elements(t) \cup D!Elements(u)
  BY Joined
<1>2. Once(p \o u) /\ D!Elements(p \o u) = D!Elements(p) \cup D!Elements(u)
  BY Joined
<1>3. Once(s \o p) /\ D!Elements(s \o p) = D!Elements(s) \cup D!Elements(p)
  BY Joined
<1>4. Once(t \o p) /\ D!Elements(t \o p) = D!Elements(t) \cup D!Elements(p)
  BY Joined
<1>5. Parted(t \o u, <<>>, s, p, d, n)
  BY <1>1, FewWords
<1>6. Parted(t, <<>>, s, p, d \cup D!Elements(u), n)
  BY FewWords
<1>7. Parted(t, p, s, u, d, n) /\ Parted(t, u, p, s, d, n)
  OBVIOUS
<1>8. Parted(t, <<>>, s, p \o u, d, n)
  BY <1>2, FewWords
<1>9. Parted(t, u, <<>>, s \o p, d, n)
  BY <1>3, FewWords
<1>10. Parted(t \o p, u, s, <<>>, d, n)
  BY <1>4, FewWords
<1>11. Parted(t, u, s, <<>>, d \cup D!Elements(p), n)
  BY FewWords
<1> HIDE DEF Parted
<1> QED
  BY <1>5, <1>6, <1>7, <1>8, <1>9, <1>10, <1>11

(* The next utterance is in none of the places yet. *)
LEMMA Arrives ==
    ASSUME NEW t, NEW u, NEW s, NEW p, NEW d, NEW n \in Nat, Parted(t, u, s, p, d, n)
    PROVE  /\ Parted(t, u \o <<n + 1>>, s, p, d, n + 1)
           /\ Parted(t \o <<n + 1>>, u, s, p, d, n + 1)
           /\ Parted(t, u, s, p, d \cup {n + 1}, n + 1)
<1> USE DEF Parted
<1>1. 1 .. (n + 1) = (1 .. n) \cup {n + 1} /\ n + 1 \notin 1 .. n /\ n + 1 \in Nat
  OBVIOUS
<1> DEFINE m == n + 1
<1>2. Once(<<m>>) /\ D!Elements(<<m>>) = {m}
  BY FewWords
<1> HIDE DEF m
<1>3. /\ m \notin D!Elements(t) /\ m \notin D!Elements(u) /\ m \notin D!Elements(s)
      /\ m \notin D!Elements(p) /\ m \notin d
  BY <1>1 DEF m
<1>4. Once(u \o <<m>>) /\ D!Elements(u \o <<m>>) = D!Elements(u) \cup {m}
  BY <1>2, <1>3, Joined
<1>5. Once(t \o <<m>>) /\ D!Elements(t \o <<m>>) = D!Elements(t) \cup {m}
  BY <1>2, <1>3, Joined
<1>6. 1 .. m = (1 .. n) \cup {m}
  BY <1>1 DEF m
<1>7. Parted(t, u \o <<m>>, s, p, d, m)
  BY <1>3, <1>4, <1>6
<1>8. Parted(t \o <<m>>, u, s, p, d, m)
  BY <1>3, <1>5, <1>6
<1>9. Parted(t, u, s, p, d \cup {m}, m)
  BY <1>3, <1>6
<1> HIDE DEF Parted
<1> QED
  BY <1>7, <1>8, <1>9 DEF m

(* Separate places hold every word once (WordsKept). *)
LEMMA SeparateIsKept ==
    ASSUME DecidingInv
    PROVE  D!WordsKept
<1> DEFINE T == D!Elements(taken)
           U == D!Elements(unfinished)
           S == D!Elements(second.words)
           P == D!Elements(Turned)
           ab == taken \o unfinished
           abc == ab \o second.words
           all == abc \o Turned
<1>1. /\ Once(taken) /\ Once(unfinished) /\ Once(second.words) /\ Once(Turned)
      /\ T \cap U = {} /\ T \cap S = {} /\ T \cap P = {}
      /\ U \cap S = {} /\ U \cap P = {} /\ S \cap P = {}
      /\ dropped \cap (T \cup U \cup S \cup P) = {}
      /\ T \cup U \cup S \cup P \cup dropped = 1 .. heard
  BY DEF DecidingInv, Separate, Parted
<1>2. Once(ab) /\ D!Elements(ab) = T \cup U
  BY <1>1, Joined
<1>3. Once(abc) /\ D!Elements(abc) = T \cup U \cup S
  <2> HIDE DEF ab
  <2>1. (T \cup U) \cap S = {}
    BY <1>1
  <2> HIDE DEF T, U
  <2> QED
    BY <1>1, <1>2, <2>1, Joined
<1>4. Once(all) /\ D!Elements(all) = T \cup U \cup S \cup P
  <2> HIDE DEF abc
  <2>1. (T \cup U \cup S) \cap P = {}
    BY <1>1
  <2> HIDE DEF T, U, S
  <2> QED
    BY <1>1, <1>3, <2>1, Joined
<1> HIDE DEF all
<1>5. D!Elements(all) \cup dropped = 1 .. heard /\ D!Elements(all) \cap dropped = {}
  BY <1>1, <1>4
<1>6. ASSUME NEW u \in 1 .. heard
      PROVE  LET times == {i \in DOMAIN all : all[i] = u}
             IN  IF u \in dropped THEN times = {} ELSE \E i \in times : times = {i}
  <2>1. CASE u \in dropped
    <3>1. u \notin D!Elements(all)
      BY <1>5, <2>1
    <3> QED
      BY <2>1, <3>1 DEF D!Elements
  <2>2. CASE u \notin dropped
    <3>1. PICK i \in DOMAIN all : all[i] = u
      BY <1>5, <2>2 DEF D!Elements
    <3>2. {k \in DOMAIN all : all[k] = u} = {i}
      BY <1>4, <3>1 DEF Once
    <3> QED
      BY <2>2, <3>2
  <2> QED
    BY <2>1, <2>2
<1> QED
  BY <1>6, Zenon DEF DecidingInv, Confirmed, D!WordsKept, all, abc, ab, Turned

(* What is known of a turn that starts, and of none. *)
LEMMA StartsTurn ==
    ASSUME DecidingFields, NEW w \in Seq(Nat), NEW guess \in BOOLEAN, D!StartAgent(w, guess)
    PROVE  /\ turn' \in Nat /\ pend' \in Turns /\ asking' \in [turn : Nat \ {0}, stage : 1 .. 5]
           /\ pend'.words = w /\ pend'.spec = guess
<1>1. turn' = turn + 1 /\ turn' \in Nat \ {0}
  BY DEF D!StartAgent, DecidingFields
<1>2. PICK hold \in BOOLEAN :
        pend' = [D!NoTurn EXCEPT !.turn = turn + 1, !.words = w, !.spec = guess, !.hold = hold /\ D!Agent]
  BY DEF D!StartAgent
<1>3. (hold /\ D!Agent) \in BOOLEAN
  BY DEF D!Agent
<1>4. pend' = [turn |-> turn', words |-> w, spec |-> guess, hold |-> hold /\ D!Agent, held |-> FALSE, done |-> "no"]
  BY <1>1, <1>2 DEF D!NoTurn
<1>5. pend' \in Turns /\ pend'.words = w /\ pend'.spec = guess
  BY <1>1, <1>3, <1>4 DEF Turns
<1>6. asking' = [turn |-> turn', stage |-> IF D!Agent THEN 1 ELSE 5]
  BY <1>1 DEF D!StartAgent, D!Stages
<1> QED
  BY <1>1, <1>5, <1>6

LEMMA NoTurnIs ==
    /\ D!NoTurn \in Turns /\ D!NoTurn.words = <<>> /\ ~D!NoTurn.spec
    /\ D!NoSecond \in [id : Nat, words : Seq(Nat)] /\ D!NoSecond.words = <<>> /\ D!NoSecond.id = 0
  BY DEF D!NoTurn, D!NoSecond, Turns

(* The pieces of the invariant, put together after a step. *)
LEMMA StaysKept ==
    ASSUME DecidingFields', OneWaits', Confirmed',
           NEW t, NEW u, NEW s, NEW p, NEW d, NEW n, Parted(t, u, s, p, d, n),
           taken' = t, unfinished' = u, second'.words = s, Turned' = p, dropped' = d, heard' = n
    PROVE  DecidingInv'
  BY DEF DecidingInv, Separate

(* Words come to the agent: joined to what it was thinking about, or the guess was right. *)
LEMMA AgentGets ==
    ASSUME DecidingFields, OneWaits, mode # "rules", NEW w, NEW n \in Nat,
           Parted(taken, w, second.words, Turned, dropped, n),
           \A x \in said : D!Elements(x) \subseteq 1 .. n,
           D!OnFinalAgent(w), heard' = n, unfinished' = <<>>, UNCHANGED <<mode, mail>>
    PROVE  DecidingInv'
<1> DEFINE all == IF D!Waiting /\ ~pend.spec THEN pend.words \o w ELSE w
           more == second.words \o all
<1>1. w \in Seq(Nat) /\ D!Elements(w) \subseteq 1 .. n
  BY DEF Parted, Once
<1>2. CASE D!Waiting /\ pend.spec /\ pend.words = w /\ D!Adopt(w)
  <2> DEFINE a == [pend EXCEPT !.spec = FALSE]
             b == [a EXCEPT !.held = FALSE]
  <2>1. a \in Turns /\ a.words = w /\ ~a.spec
    BY <1>2 DEF DecidingFields, Turns
  <2>2. b = [pend EXCEPT !.spec = FALSE, !.held = FALSE]
    OBVIOUS
  <2>3. b \in Turns /\ b.words = w /\ ~b.spec
    <3> HIDE DEF a
    <3> QED
      BY <2>1 DEF Turns
  <2>4. Turned = <<>> /\ mode = "guess" /\ second = D!NoSecond
    BY <1>2 DEF Turned, OneWaits
  <2>5. /\ said' \in {said, said \cup {w}}
        /\ \/ D!Finish(b, pend.done)
           \/ pend' = b /\ UNCHANGED <<taken, dropped>>
        /\ UNCHANGED <<asking, turn, second, hearings>>
    BY <1>2, <2>2 DEF D!Adopt
  <2> HIDE DEF a, b
  <2>6. Confirmed'
    BY <1>1, <2>5 DEF Confirmed
  <2>7. CASE pend' = b /\ UNCHANGED <<taken, dropped>>
    <3>1. DecidingFields' /\ OneWaits' /\ Turned' = w
      BY <2>3, <2>4, <2>5, <2>7 DEF DecidingFields, OneWaits, Turned
    <3>2. Parted(taken, <<>>, second.words, w, dropped, n)
      BY <2>4, Moves
    <3> QED
      BY <2>5, <2>6, <2>7, <3>1, <3>2, StaysKept
  <2>8. CASE D!Finish(b, pend.done)
    <3>1. /\ pend' = D!NoTurn
          /\ \/ taken' = taken \o w /\ dropped' = dropped
             \/ dropped' = dropped \cup D!Elements(w) /\ taken' = taken
      BY <2>3, <2>8 DEF D!Finish, D!Take
    <3>2. DecidingFields' /\ OneWaits' /\ Turned' = <<>>
      BY <2>4, <2>5, <3>1, NoTurnIs DEF DecidingFields, OneWaits, Turned
    <3>3. /\ Parted(taken \o w, <<>>, second.words, <<>>, dropped, n)
          /\ Parted(taken, <<>>, second.words, <<>>, dropped \cup D!Elements(w), n)
      BY <2>4, Moves
    <3> QED
      BY <2>5, <2>6, <3>1, <3>2, <3>3, StaysKept
  <2> QED
    BY <2>5, <2>7, <2>8
<1>3. CASE \/ D!Take(all) /\ pend' = D!NoTurn /\ asking' = D!NoTask /\ UNCHANGED <<turn, second, hearings, dropped, said>>
           \/ /\ D!HearsTwice
              /\ hearings' = hearings + 1 /\ second' = [id |-> hearings + 1, words |-> more]
              /\ pend' = D!NoTurn /\ asking' = D!NoTask
              /\ UNCHANGED <<turn, taken, dropped, said>>
           \/ D!StartAgent(more, FALSE) /\ second' = D!NoSecond /\ UNCHANGED <<hearings, taken, dropped, said>>
  <2>1. Parted(taken, <<>>, second.words, all, dropped, n)
    <3>1. CASE D!Waiting /\ ~pend.spec
      <4>1. Turned = pend.words /\ all = Turned \o w
        BY <3>1 DEF Turned
      <4> QED
        BY <4>1, Moves
    <3>2. CASE ~(D!Waiting /\ ~pend.spec)
      <4>1. Turned = <<>> /\ all = w
        BY <3>2, NoTurnIs DEF Turned, D!Waiting
      <4> QED
        BY <4>1, Moves
    <3> QED
      BY <3>1, <3>2
  <2> HIDE DEF all
  <2>2. Parted(taken \o all, <<>>, second.words, <<>>, dropped, n)
    BY <2>1, Moves
  <2>3. Parted(taken, <<>>, <<>>, more, dropped, n)
    BY <2>1, Moves
  <2> HIDE DEF more
  <2>4. Parted(taken, <<>>, more, <<>>, dropped, n) /\ more \in Seq(Nat)
    BY <2>3, Moves DEF Parted, Once
  <2>5. Confirmed'
    BY <1>3 DEF Confirmed
  <2>6. CASE D!Take(all) /\ pend' = D!NoTurn /\ asking' = D!NoTask /\ UNCHANGED <<turn, second, hearings, dropped, said>>
    <3>1. DecidingFields' /\ OneWaits' /\ Turned' = <<>>
      BY <2>6, NoTurnIs DEF DecidingFields, OneWaits, Turned, D!Waiting
    <3> QED
      BY <2>2, <2>5, <2>6, <3>1, StaysKept DEF D!Take
  <2>7. CASE /\ D!HearsTwice
             /\ hearings' = hearings + 1 /\ second' = [id |-> hearings + 1, words |-> more]
             /\ pend' = D!NoTurn /\ asking' = D!NoTask
             /\ UNCHANGED <<turn, taken, dropped, said>>
    <3>1. mode = "second"
      BY <2>7 DEF D!HearsTwice, OneWaits
    <3>2. DecidingFields' /\ OneWaits' /\ Turned' = <<>> /\ second'.words = more
      BY <2>4, <2>7, <3>1, NoTurnIs DEF DecidingFields, OneWaits, Turned, D!Waiting
    <3> QED
      BY <2>4, <2>5, <2>7, <3>2, StaysKept
  <2>8. CASE D!StartAgent(more, FALSE) /\ second' = D!NoSecond /\ UNCHANGED <<hearings, taken, dropped, said>>
    <3>1. /\ turn' \in Nat /\ pend' \in Turns /\ asking' \in [turn : Nat \ {0}, stage : 1 .. 5]
          /\ pend'.words = more /\ ~pend'.spec
      BY <2>4, <2>8, StartsTurn
    <3>2. DecidingFields' /\ OneWaits' /\ Turned' = more /\ second'.words = <<>>
      BY <2>8, <3>1, NoTurnIs DEF DecidingFields, OneWaits, Turned
    <3> QED
      BY <2>3, <2>5, <2>8, <3>2, StaysKept
  <2> QED
    BY <1>3, <2>6, <2>7, <2>8
<1> QED
  BY <1>2, <1>3 DEF D!OnFinalAgent

(* Words come to the rules, which never guess. *)
LEMMA RulesGet ==
    ASSUME DecidingFields, OneWaits, mode = "rules", NEW w, NEW n \in Nat,
           Parted(taken, w, second.words, Turned, dropped, n),
           \A x \in said : D!Elements(x) \subseteq 1 .. n,
           D!OnFinalRules(w), heard' = n, unfinished' = <<>>, UNCHANGED <<mode, mail>>
    PROVE  DecidingInv'
<1> DEFINE all == pend.words \o w
<1>1. ~pend.spec /\ Turned = pend.words /\ second = D!NoSecond
  BY DEF OneWaits, Turned
<1>2. Parted(taken, <<>>, second.words, all, dropped, n)
  BY <1>1, Moves
<1>3. UNCHANGED <<second, hearings, dropped, said>>
      /\ (\/ D!StartAgent(all, FALSE) /\ UNCHANGED taken
          \/ D!Take(all) /\ pend' = D!NoTurn /\ asking' = D!NoTask /\ UNCHANGED turn)
  BY DEF D!OnFinalRules
<1> HIDE DEF all
<1>4. Parted(taken \o all, <<>>, second.words, <<>>, dropped, n) /\ all \in Seq(Nat)
  <2>1. Parted(taken \o all, <<>>, second.words, <<>>, dropped, n)
    BY <1>2, Moves
  <2>2. all \in Seq(Nat)
    BY <1>2 DEF Parted, Once
  <2> QED
    BY <2>1, <2>2
<1>5. Confirmed'
  BY <1>3 DEF Confirmed
<1>6. CASE D!StartAgent(all, FALSE) /\ UNCHANGED taken
  <2>1. /\ turn' \in Nat /\ pend' \in Turns /\ asking' \in [turn : Nat \ {0}, stage : 1 .. 5]
        /\ pend'.words = all /\ ~pend'.spec
    BY <1>4, <1>6, StartsTurn
  <2>2. DecidingFields' /\ OneWaits' /\ Turned' = all
    BY <1>1, <1>3, <2>1 DEF DecidingFields, OneWaits, Turned
  <2> QED
    BY <1>2, <1>3, <1>5, <1>6, <2>2, StaysKept
<1>7. CASE D!Take(all) /\ pend' = D!NoTurn /\ asking' = D!NoTask /\ UNCHANGED turn
  <2>1. DecidingFields' /\ OneWaits' /\ Turned' = <<>>
    BY <1>1, <1>3, <1>7, NoTurnIs DEF DecidingFields, OneWaits, Turned
  <2> QED
    BY <1>3, <1>4, <1>5, <1>7, <2>1, StaysKept DEF D!Take
<1> QED
  BY <1>3, <1>6, <1>7

(* The final transcript of the next utterance. *)
LEMMA FinalKeeps ==
    ASSUME DecidingInv, D!Final
    PROVE  DecidingInv'
<1> DEFINE n == heard + 1
           w == <<n>>
           all == unfinished \o w
<1>0. DecidingFields /\ OneWaits /\ Confirmed /\ heard \in Nat /\ n \in Nat
      /\ Parted(taken, unfinished, second.words, Turned, dropped, heard)
  BY DEF DecidingInv, Separate, DecidingFields
<1>1. heard' = n /\ D!OnFinal(w, FALSE) /\ UNCHANGED <<mode, mail>>
  BY DEF D!Final
<1>2. /\ Parted(taken, all, second.words, Turned, dropped, n)
      /\ Parted(taken \o w, unfinished, second.words, Turned, dropped, n)
      /\ Parted(taken, unfinished, second.words, Turned, dropped \cup {n}, n)
  BY <1>0, Arrives
<1>3. D!Elements(w) = {n}
  BY <1>0, FewWords
<1>4. \A x \in said : D!Elements(x) \subseteq 1 .. n
  BY <1>0 DEF Confirmed
<1>5. \/ /\ \/ dropped' = dropped \cup {n} /\ UNCHANGED <<unfinished, taken>>
            \/ taken' = taken \o w /\ UNCHANGED <<unfinished, dropped>>
            \/ unfinished' = all /\ UNCHANGED <<taken, dropped>>
         /\ UNCHANGED <<second, hearings, pend, asking, turn, said>>
      \/ /\ unfinished' = <<>>
         /\ IF D!Agent THEN D!OnFinalAgent(all) ELSE D!OnFinalRules(all)
  BY <1>1, <1>3 DEF D!OnFinal, D!Take
<1> HIDE DEF all, w, n
<1>6. CASE /\ \/ dropped' = dropped \cup {n} /\ UNCHANGED <<unfinished, taken>>
              \/ taken' = taken \o w /\ UNCHANGED <<unfinished, dropped>>
              \/ unfinished' = all /\ UNCHANGED <<taken, dropped>>
           /\ UNCHANGED <<second, hearings, pend, asking, turn, said>>
  <2>1. DecidingFields' /\ OneWaits' /\ Confirmed' /\ Turned' = Turned
    BY <1>0, <1>1, <1>4, <1>6 DEF DecidingFields, OneWaits, Confirmed, Turned, D!Waiting
  <2> QED
    BY <1>1, <1>2, <1>6, <2>1, StaysKept
<1>7. CASE /\ unfinished' = <<>>
           /\ IF D!Agent THEN D!OnFinalAgent(all) ELSE D!OnFinalRules(all)
  <2>1. CASE D!Agent
    BY <1>0, <1>1, <1>2, <1>4, <1>7, <2>1, AgentGets DEF D!Agent
  <2>2. CASE ~D!Agent
    BY <1>0, <1>1, <1>2, <1>4, <1>7, <2>2, RulesGet DEF D!Agent
  <2> QED
    BY <2>1, <2>2
<1> QED
  BY <1>5, <1>6, <1>7

(* Half a sentence is not waited for any longer. *)
LEMMA UnfinishedKeeps ==
    ASSUME DecidingInv, D!UnfinishedDue
    PROVE  DecidingInv'
<1>0. DecidingFields /\ OneWaits /\ Confirmed /\ heard \in Nat
      /\ Parted(taken, unfinished, second.words, Turned, dropped, heard)
      /\ \A x \in said : D!Elements(x) \subseteq 1 .. heard
  BY DEF DecidingInv, Separate, DecidingFields, Confirmed
<1>1. UNCHANGED <<mode, heard, mail>> /\ unfinished' = <<>>
  BY DEF D!UnfinishedDue
<1>2. \/ /\ \/ dropped' = dropped \cup D!Elements(unfinished) /\ UNCHANGED taken
            \/ taken' = taken \o unfinished /\ UNCHANGED dropped
         /\ UNCHANGED <<second, hearings, pend, asking, turn, said>>
      \/ IF D!Agent THEN D!OnFinalAgent(unfinished) ELSE D!OnFinalRules(unfinished)
  BY DEF D!UnfinishedDue, D!Take
<1>3. CASE /\ \/ dropped' = dropped \cup D!Elements(unfinished) /\ UNCHANGED taken
              \/ taken' = taken \o unfinished /\ UNCHANGED dropped
           /\ UNCHANGED <<second, hearings, pend, asking, turn, said>>
  <2>1. DecidingFields' /\ OneWaits' /\ Confirmed' /\ Turned' = Turned
    BY <1>0, <1>1, <1>3 DEF DecidingFields, OneWaits, Confirmed, Turned, D!Waiting
  <2>2. /\ Parted(taken \o unfinished, <<>>, second.words, Turned, dropped, heard)
        /\ Parted(taken, <<>>, second.words, Turned, dropped \cup D!Elements(unfinished), heard)
    BY <1>0, Moves
  <2> QED
    BY <1>1, <1>3, <2>1, <2>2, StaysKept
<1>4. CASE IF D!Agent THEN D!OnFinalAgent(unfinished) ELSE D!OnFinalRules(unfinished)
  <2>1. CASE D!Agent
    BY <1>0, <1>1, <1>4, <2>1, AgentGets DEF D!Agent
  <2>2. CASE ~D!Agent
    BY <1>0, <1>1, <1>4, <2>2, RulesGet DEF D!Agent
  <2> QED
    BY <2>1, <2>2
<1> QED
  BY <1>2, <1>3, <1>4

(* A step that moves no words but may drop or begin a guess. *)
LEMMA GuessKeeps ==
    ASSUME DecidingInv, UNCHANGED <<mode, heard, unfinished, second, hearings, mail, taken, dropped, said>>,
           turn' \in Nat, asking' = D!NoTask \/ asking' \in [turn : Nat \ {0}, stage : 1 .. 5],
           pend' \in Turns, Turned' = Turned, pend'.spec => mode = "guess",
           second # D!NoSecond => ~D!Waiting'
    PROVE  DecidingInv'
<1>1. DecidingFields' /\ OneWaits' /\ Confirmed'
  BY DEF DecidingInv, DecidingFields, OneWaits, Confirmed
<1> QED
  BY <1>1, StaysKept DEF DecidingInv, Separate

(* The caller's voice, and the second answer to a guess. *)
LEMMA VoiceGuesses ==
    ASSUME DecidingInv, D!SpeechStarts \/ D!SpeechEnds \/ D!NoWords
    PROVE  DecidingInv'
<1>0. DecidingFields /\ OneWaits /\ heard + 1 \in Nat
  BY DEF DecidingInv, DecidingFields
<1>1. UNCHANGED <<mode, heard, unfinished, second, hearings, mail, taken, dropped, said>>
  BY DEF D!SpeechStarts, D!SpeechEnds, D!NoWords
<1>2. \/ UNCHANGED <<pend, asking, turn>>
      \/ pend.spec /\ pend' = D!NoTurn /\ asking' = D!NoTask /\ UNCHANGED turn
      \/ D!Guesses /\ ~D!Waiting /\ D!StartAgent(<<heard + 1>>, TRUE)
  BY DEF D!SpeechStarts, D!SpeechEnds, D!NoWords
<1>3. CASE UNCHANGED <<pend, asking, turn>>
  BY <1>0, <1>1, <1>3, GuessKeeps DEF DecidingFields, OneWaits, Turned, D!Waiting
<1>4. CASE pend.spec /\ pend' = D!NoTurn /\ asking' = D!NoTask /\ UNCHANGED turn
  <2>1. Turned' = Turned /\ ~pend'.spec /\ pend' \in Turns
    BY <1>4, NoTurnIs DEF Turned
  <2> QED
    BY <1>0, <1>1, <1>4, <2>1, GuessKeeps DEF DecidingFields, D!Waiting
<1>5. CASE D!Guesses /\ ~D!Waiting /\ D!StartAgent(<<heard + 1>>, TRUE)
  <2>1. /\ turn' \in Nat /\ pend' \in Turns /\ asking' \in [turn : Nat \ {0}, stage : 1 .. 5]
        /\ pend'.spec
    <3>1. <<heard + 1>> \in Seq(Nat)
      BY <1>0
    <3> QED
      BY <1>0, <1>5, <3>1, StartsTurn
  <2>2. mode = "guess" /\ second = D!NoSecond
    BY <1>0, <1>5 DEF D!Guesses, OneWaits
  <2>3. Turned' = Turned
    BY <1>5, <2>1, NoTurnIs DEF Turned, D!Waiting
  <2> QED
    BY <1>1, <2>1, <2>2, <2>3, GuessKeeps
<1> QED
  BY <1>2, <1>3, <1>4, <1>5

(* The model's task sends what it streams. *)
LEMMA SendsKeeps ==
    ASSUME DecidingInv, D!TaskSends
    PROVE  DecidingInv'
<1>1. /\ asking # D!NoTask /\ asking \in [turn : Nat \ {0}, stage : 1 .. 5] /\ mail \in Seq(Letters)
  BY DEF DecidingInv, DecidingFields, D!TaskSends
<1>2. PICK stage \in asking.stage .. Len(D!Stages), how \in {"ok", "err"} :
        /\ mail' = Append(mail, [turn |-> asking.turn, what |-> D!Stages[stage], how |-> how])
        /\ asking' = IF stage = Len(D!Stages) THEN D!NoTask ELSE [asking EXCEPT !.stage = stage + 1]
  BY DEF D!TaskSends
<1>3. UNCHANGED <<mode, heard, unfinished, second, hearings, pend, turn, taken, dropped, said>>
  BY DEF D!TaskSends
<1>4. Len(D!Stages) = 5 /\ stage \in 1 .. 5
  BY <1>1 DEF D!Stages
<1>5. D!Stages[stage] \in Kinds
  BY <1>4 DEF D!Stages, Kinds
<1>6. [turn |-> asking.turn, what |-> D!Stages[stage], how |-> how] \in Letters
  BY <1>1, <1>5 DEF Letters
<1>7. mail' \in Seq(Letters)
  BY <1>1, <1>2, <1>6, AppendProperties
<1>8. asking' = D!NoTask \/ asking' \in [turn : Nat \ {0}, stage : 1 .. 5]
  BY <1>1, <1>2, <1>4
<1>9. DecidingFields' /\ OneWaits' /\ Confirmed' /\ Turned' = Turned
  BY <1>3, <1>7, <1>8 DEF DecidingInv, DecidingFields, OneWaits, Confirmed, Turned, D!Waiting
<1> QED
  BY <1>3, <1>9, StaysKept DEF DecidingInv, Separate

(* What was sent arrives: late, it is not this turn's; in time, it may end the turn. *)
LEMMA DeliverKeeps ==
    ASSUME DecidingInv, D!Deliver
    PROVE  DecidingInv'
<1> DEFINE m == Head(mail)
<1>0. DecidingFields /\ OneWaits /\ Confirmed /\ pend \in Turns
      /\ Parted(taken, unfinished, second.words, Turned, dropped, heard)
  BY DEF DecidingInv, Separate, DecidingFields
<1>1. m \in Letters /\ mail' \in Seq(Letters)
  <2>1. mail \in Seq(Letters) /\ mail # <<>> /\ mail' = Tail(mail)
    BY DEF D!Deliver, DecidingInv, DecidingFields
  <2> QED
    BY <2>1, HeadTailProperties
<1>2. UNCHANGED <<mode, heard, unfinished, second, hearings, asking, turn>>
  BY DEF D!Deliver
<1>3. \/ UNCHANGED <<pend, taken, dropped, said>>
      \/ m.turn = pend.turn /\ (D!Checked(m) \/ D!Spoken(m) \/ D!Done(m))
  BY <1>1 DEF D!Deliver, Letters, Kinds
<1>4. m.turn # 0 /\ m.how \in {"ok", "err"}
  BY <1>1 DEF Letters
<1> HIDE DEF m
<1>5. CASE UNCHANGED <<pend, taken, dropped, said>>
  <2>1. DecidingFields' /\ OneWaits' /\ Confirmed' /\ Turned' = Turned
    BY <1>0, <1>1, <1>2, <1>5 DEF DecidingFields, OneWaits, Confirmed, Turned, D!Waiting
  <2> QED
    BY <1>0, <1>2, <1>5, <2>1, StaysKept
<1>6. CASE m.turn = pend.turn /\ (D!Checked(m) \/ D!Spoken(m) \/ D!Done(m))
  <2>1. second = D!NoSecond
    BY <1>0, <1>4, <1>6 DEF OneWaits, D!Waiting, D!NoTurn
  <2>2. ASSUME pend' \in Turns, pend'.words = pend.words, pend'.spec = pend.spec, UNCHANGED <<taken, dropped>>,
               said' \in {said, said \cup {Turned}}
        PROVE  DecidingInv'
    <3>1. D!Elements(Turned) \subseteq 1 .. heard
      BY <1>0 DEF Parted
    <3>2. Confirmed'
      BY <1>0, <1>2, <2>2, <3>1 DEF Confirmed
    <3>3. DecidingFields' /\ OneWaits' /\ Turned' = Turned
      BY <1>0, <1>1, <1>2, <2>1, <2>2 DEF DecidingFields, OneWaits, Turned
    <3> QED
      BY <1>0, <1>2, <2>2, <3>2, <3>3, StaysKept
  <2>3. CASE D!Checked(m)
    <3>1. pend' = [pend EXCEPT !.hold = pend.hold \/ m.how = "err"] /\ UNCHANGED <<taken, dropped, said>>
      BY <2>3 DEF D!Checked
    <3>2. (pend.hold \/ m.how = "err") \in BOOLEAN
      OBVIOUS
    <3>3. pend' \in Turns /\ pend'.words = pend.words /\ pend'.spec = pend.spec
      BY <1>0, <3>1, <3>2 DEF Turns
    <3> QED
      BY <2>2, <3>1, <3>3
  <2>4. CASE D!Spoken(m)
    <3>1. CASE pend.spec
      <4>1. pend' = [pend EXCEPT !.held = TRUE] /\ UNCHANGED <<taken, dropped, said>>
        BY <2>4, <3>1 DEF D!Spoken
      <4>2. pend' \in Turns /\ pend'.words = pend.words /\ pend'.spec = pend.spec
        BY <1>0, <4>1 DEF Turns
      <4> QED
        BY <2>2, <4>1, <4>2
    <3>2. CASE ~pend.spec
      BY <1>0, <2>2, <2>4, <3>2 DEF D!Spoken, Turned
    <3> QED
      BY <3>1, <3>2
  <2>5. CASE D!Done(m)
    <3>1. CASE pend.spec
      <4>1. pend' = [pend EXCEPT !.done = m.how] /\ UNCHANGED <<taken, dropped, said>>
        BY <2>5, <3>1 DEF D!Done
      <4>2. pend' \in Turns /\ pend'.words = pend.words /\ pend'.spec = pend.spec
        BY <1>0, <1>4, <4>1 DEF Turns
      <4> QED
        BY <2>2, <4>1, <4>2
    <3>2. CASE ~pend.spec
      <4>1. /\ pend' = D!NoTurn /\ UNCHANGED said
            /\ \/ taken' = taken \o Turned /\ dropped' = dropped
               \/ dropped' = dropped \cup D!Elements(Turned) /\ taken' = taken
        BY <2>5, <3>2 DEF D!Done, D!Finish, D!Take, Turned
      <4>2. DecidingFields' /\ OneWaits' /\ Confirmed' /\ Turned' = <<>>
        BY <1>0, <1>1, <1>2, <2>1, <4>1, NoTurnIs DEF DecidingFields, OneWaits, Confirmed, Turned
      <4>3. /\ Parted(taken \o Turned, unfinished, second.words, <<>>, dropped, heard)
            /\ Parted(taken, unfinished, second.words, <<>>, dropped \cup D!Elements(Turned), heard)
        BY <1>0, Moves
      <4> QED
        BY <1>2, <4>1, <4>2, <4>3, StaysKept
    <3> QED
      BY <3>1, <3>2
  <2> QED
    BY <1>6, <2>3, <2>4, <2>5
<1> QED
  BY <1>3, <1>5, <1>6

(* The second hearing is answered: the agent starts on the words that waited for it. *)
LEMMA SecondKeeps ==
    ASSUME DecidingInv, NEW id, D!SecondHearing(id)
    PROVE  DecidingInv'
<1>0. DecidingFields /\ OneWaits /\ Confirmed /\ second.words \in Seq(Nat)
      /\ Parted(taken, unfinished, second.words, Turned, dropped, heard)
  BY DEF DecidingInv, Separate, DecidingFields
<1>1. /\ second.id # 0 /\ D!StartAgent(second.words, FALSE) /\ second' = D!NoSecond
      /\ UNCHANGED <<mode, heard, unfinished, hearings, mail, taken, dropped, said>>
  BY DEF D!SecondHearing
<1>2. Turned = <<>>
  BY <1>0, <1>1, NoTurnIs DEF OneWaits, D!Waiting, Turned
<1>3. /\ turn' \in Nat /\ pend' \in Turns /\ asking' \in [turn : Nat \ {0}, stage : 1 .. 5]
      /\ pend'.words = second.words /\ ~pend'.spec
  BY <1>0, <1>1, StartsTurn
<1>4. DecidingFields' /\ OneWaits' /\ Confirmed' /\ Turned' = second.words /\ second'.words = <<>>
  BY <1>0, <1>1, <1>3, NoTurnIs DEF DecidingFields, OneWaits, Confirmed, Turned
<1>5. Parted(taken, unfinished, <<>>, second.words, dropped, heard)
  BY <1>0, <1>2, Moves
<1> QED
  BY <1>1, <1>4, <1>5, StaysKept

(* A call begins with nothing said. *)
LEMMA DecidingBegins ==
    ASSUME OneWay, D!Init
    PROVE  DecidingInv
<1>1. /\ mode \in Modes /\ heard = 0 /\ unfinished = <<>> /\ second = D!NoSecond /\ hearings = 0
      /\ pend = D!NoTurn /\ asking = D!NoTask /\ mail = <<>> /\ turn = 0 /\ taken = <<>> /\ dropped = {} /\ said = {}
  BY DEF D!Init
<1>2. DecidingFields /\ OneWaits /\ Confirmed /\ Turned = <<>> /\ second.words = <<>>
  BY <1>1, NoTurnIs DEF DecidingFields, OneWaits, Confirmed, Turned, OneWay
<1>3. Parted(<<>>, <<>>, <<>>, <<>>, {}, 0)
  BY FewWords DEF Parted
<1> QED
  BY <1>1, <1>2, <1>3 DEF DecidingInv, Separate

LEMMA DecidingStep ==
    ASSUME DecidingInv, D!Next \/ UNCHANGED D!vars
    PROVE  DecidingInv'
<1>1. CASE UNCHANGED D!vars
  BY <1>1, GuessKeeps DEF D!vars, DecidingInv, DecidingFields, OneWaits, Turned, D!Waiting
<1>2. CASE D!Next
  BY <1>2, FinalKeeps, UnfinishedKeeps, VoiceGuesses, SendsKeeps, DeliverKeeps, SecondKeeps DEF D!Next, D!SecondHears
<1> QED
  BY <1>1, <1>2

(* Whatever was pending when it came and whatever came late, what the caller said *)
(* is with the engine once, waits in one place, or was judged to be nothing, and  *)
(* nothing is said before the words it answers are confirmed (WordsKept; on_final *)
(* of hearing.rs, agent_turn.rs), unless second hearings and guesses are both on. *)
THEOREM WordsKeptHolds ==
    ASSUME OneWay
    PROVE  ListeningSpec => []WordsKept
<1> DEFINE I == part = "deciding" => DecidingInv
<1>1. ListeningInit => I
  BY DecidingBegins DEF ListeningInit
<1>2. I /\ [ListeningNext]_allVars => I'
  <2> SUFFICES ASSUME I, [ListeningNext]_allVars, part' = "deciding"
               PROVE  DecidingInv'
    OBVIOUS
  <2>1. part = "deciding"
    BY DEF ListeningNext, StepHearing, StepDeciding, StepEars, allVars
  <2>2. D!Next \/ UNCHANGED D!vars
    BY <2>1 DEF ListeningNext, StepHearing, StepDeciding, StepEars, allVars, decidingVars, D!vars
  <2> QED
    BY <2>1, <2>2, DecidingStep
<1>3. I => WordsKept
  BY SeparateIsKept DEF WordsKept
<1> QED
  BY <1>1, <1>2, <1>3, PTL DEF ListeningSpec

-----------------------------------------------------------------------------
(* Ears, for any thresholds and times.  Words are counted only while the      *)
(* voice that said them goes on, so a count above zero is of this voice.      *)

EarsInv ==
    /\ words \in Nat
    /\ theirs \in BOOLEAN
    /\ words > 0 => theirs
    /\ E!OwnWordsInterrupt

(* Words interrupt only if there are some. *)
LEMMA WordsNeedWords ==
    ASSUME NEW v, NEW w \in Nat, NEW quiet, NEW loud, MinWords \in Nat,
           E!Classify(v, w, quiet, loud) = "words"
    PROVE  w > 0
<1>1. E!Most(MinWords, 1) \in Nat /\ E!Most(MinWords, 1) >= 1
  BY DEF E!Most
<1>2. w >= E!Most(MinWords, 1) \/ w >= 1
  BY DEF E!Classify
<1> QED
  BY <1>1, <1>2

(* A frame of audio: a voice that begins starts with no words. *)
LEMMA AudioKeeps ==
    ASSUME MinWords \in Nat, EarsInv, NEW f, E!Audio(f)
    PROVE  EarsInv'
<1> DEFINE h == (pending \/ (E!Begins /\ busy)) /\ ~E!Ends
           cut == IF h /\ busy
                    THEN E!Classify(voiced', words', murmur', E!Loud(loudness', length', threshold')) ELSE "none"
<1>1. /\ words' = IF E!Begins THEN 0 ELSE words
      /\ theirs' = (theirs /\ ~E!Begins)
      /\ reason' = cut
  BY DEF E!Audio, E!Bargein
<1>2. words' \in Nat
  BY <1>1 DEF EarsInv
<1>3. theirs' \in BOOLEAN /\ (words' > 0 => theirs')
  <2>1. CASE E!Begins
    BY <1>1, <2>1
  <2>2. CASE ~E!Begins
    BY <1>1, <2>2 DEF EarsInv
  <2> QED
    BY <2>1, <2>2
<1>4. reason' = "words" => words' > 0
  BY <1>1, <1>2, WordsNeedWords
<1> HIDE DEF cut, h
<1> QED
  BY <1>2, <1>3, <1>4 DEF EarsInv, E!OwnWordsInterrupt

(* A partial transcript: what it counts was just heard. *)
LEMMA PartialKeeps ==
    ASSUME MinWords \in Nat, EarsInv, NEW text, NEW w \in Nat, NEW quiet, E!Partial(text, w, quiet)
    PROVE  EarsInv'
<1> DEFINE cut == IF busy THEN E!Classify(voiced, w, quiet, E!Loud(loudness, length, threshold)) ELSE "none"
<1>1. /\ theirs' = (theirs \/ w > 0)
      /\ words' \in {w, words}
      /\ reason' \in {cut, "none"}
  BY DEF E!Partial, E!Bargein
<1>2. cut = "words" => w > 0
  BY WordsNeedWords
<1> HIDE DEF cut
<1> QED
  BY <1>1, <1>2 DEF EarsInv, E!OwnWordsInterrupt

(* Every step of the ears keeps it. *)
LEMMA EarsStep ==
    ASSUME MinWords \in Nat, EarsInv, E!Next \/ UNCHANGED E!vars
    PROVE  EarsInv'
<1>1. ASSUME UNCHANGED <<words, theirs>>, reason' \in {reason, "none"}
      PROVE  EarsInv'
  BY <1>1 DEF EarsInv, E!OwnWordsInterrupt
<1>2. ASSUME NEW h \in E!Heard, E!Partial(h[1], h[2], h[3])
      PROVE  EarsInv'
  <2>1. h[2] \in Nat
    <3>1. CASE h = <<"short", 0, TRUE>>
      BY <3>1
    <3>2. CASE h = <<"short", 1, FALSE>>
      BY <3>2
    <3>3. CASE h = <<"unfinished", 2, FALSE>>
      BY <3>3
    <3>4. CASE h = <<"other", 2, FALSE>>
      BY <3>4
    <3>5. CASE h = <<"other", 0, FALSE>>
      BY <3>5
    <3> QED
      BY <3>1, <3>2, <3>3, <3>4, <3>5 DEF E!Heard
  <2> QED
    BY <1>2, <2>1, PartialKeeps
<1>3. CASE E!AgentSpeaks \/ E!AgentEnds \/ (\E f \in E!Frames : E!Settles(f)) \/ UNCHANGED E!vars
  BY <1>1, <1>3 DEF E!AgentSpeaks, E!AgentEnds, E!Settles, E!vars
<1> QED
  BY <1>2, <1>3, AudioKeeps DEF E!Next, E!Hears

(* An interruption by words is by words of this voice, never by those of an     *)
(* earlier one that was let pass (OwnWordsInterrupt; on_audio, on_partial and   *)
(* barge::classify).                                                            *)
THEOREM OwnWordsInterruptHolds ==
    ASSUME MinWords \in Nat
    PROVE  ListeningSpec => []OwnWordsInterrupt
<1> DEFINE I == part = "ears" => EarsInv
<1>1. ListeningInit => I
  <2> SUFFICES ASSUME E!Init
               PROVE  EarsInv
    BY DEF ListeningInit
  <2>1. words = 0 /\ theirs = FALSE /\ reason = "none"
    BY DEF E!Init
  <2>2. words \in Nat /\ ~(words > 0)
    BY <2>1
  <2> QED
    BY <2>1, <2>2, Zenon DEF EarsInv, E!OwnWordsInterrupt
<1>2. I /\ [ListeningNext]_allVars => I'
  <2> SUFFICES ASSUME I, [ListeningNext]_allVars, part' = "ears"
               PROVE  EarsInv'
    OBVIOUS
  <2>1. part = "ears"
    BY DEF ListeningNext, StepHearing, StepDeciding, StepEars, allVars
  <2>2. E!Next \/ UNCHANGED E!vars
    BY <2>1 DEF ListeningNext, StepHearing, StepDeciding, StepEars, allVars, earsVars, E!vars
  <2> QED
    BY <2>1, <2>2, EarsStep
<1>3. I => OwnWordsInterrupt
  BY DEF EarsInv, OwnWordsInterrupt
<1> QED
  BY <1>1, <1>2, <1>3, PTL DEF ListeningSpec
=============================================================================
