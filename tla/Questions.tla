------------------------------ MODULE Questions ------------------------------
(***************************************************************************)
(* How one turn of the language model becomes the task's details and the   *)
(* next question (on_agent_turn), while the details of a booking in a      *)
(* fixed order are collected.  The model's reply names the values it heard *)
(* and the question it asks.  It is checked twice: by the session, on a    *)
(* copy of the call, before a word of it is played (the gate), and by the  *)
(* engine once it is complete, where its values are taken.  Words the gate *)
(* held back are replaced by the engine's own question.                    *)
(* A place's own steps are in Places, the read-back and what follows it in *)
(* Booking: here the read-back is the end, and a business rule, a personal *)
(* place, a house number and a third miss are left to those modules.       *)
(***************************************************************************)
EXTENDS Naturals, FiniteSets

CONSTANTS Towns, Callers, None

VARIABLES
    call,       \* what CallState keeps of the task and of the questions asked
    air,        \* the details the question the caller heard last asks for
    turn,       \* the last turn, for the properties: what was passed, refused, how it was asked
    done,       \* every question was asked: the details are read back
    caller      \* "anyone" (whose name is known), or one who "answers" every question

vars == <<call, air, turn, done, caller>>

\* The task's details, in its order.
Rank == [pickup |-> 1, destination |-> 2, passengers |-> 3, customer_name |-> 4]
Slots == DOMAIN Rank
Places == {"pickup", "destination"}
Required == Slots \ {"customer_name"}
Precise == {"pickup"}           \* the other place's street is asked once (street_once)
Cued == {"passengers"}          \* taken unasked only with its own words (cues)
HasAgain == {"passengers"}      \* the business has an ask_again_ question for it

Other(p) == IF p = "pickup" THEN "destination" ELSE "pickup"
Before(s) == {z \in Slots : Rank[z] < Rank[s]}
Earliest(place, S) == CHOOSE s \in S : \A z \in S : place[s] <= place[z]
FirstOf(S) == Earliest(Rank, S)

-----------------------------------------------------------------------------
(* What is said.  A thing said is a town, an address in a town, a street without its town, a  *)
(* place nobody knows, a number of passengers, one past the most, or a name; `with` is the    *)
(* detail whose own word came with it (a place's preposition, "passengers").                  *)

Thing(is, town, with) == [is |-> is, town |-> town, with |-> with]
PlaceThings ==
    {Thing("town", t, p) : t \in Towns, p \in Places \cup {None}}
        \cup {Thing("address", t, None) : t \in Towns}
        \cup {Thing(k, None, None) : k \in {"street", "nowhere"}}
NumberThings ==
    {Thing("number", None, None)} \cup {Thing(k, None, "passengers") : k \in {"number", "many"}}
NameThing == Thing("name", None, None)

Fits(i) == IF i \in PlaceThings THEN Places ELSE IF i \in NumberThings THEN {"passengers"} ELSE {"customer_name"}

\* One thing, two towns, or an address and the passengers.
Said ==
    {{}} \cup {{i} : i \in PlaceThings \cup NumberThings \cup {NameThing}}
    \cup {{Thing("town", tu[1], "pickup"), Thing("town", tu[2], "destination")} :
              tu \in {x \in Towns \X Towns : x[1] # x[2]}}
    \cup {{Thing("address", t, None), Thing("number", None, "passengers")} : t \in Towns}

\* correct: a word of correction; same: words of a ride within one town.
Words ==
    {w \in [items : Said, correct : BOOLEAN, same : BOOLEAN] :
        /\ w.correct => ~w.same /\ \E i \in PlaceThings : w.items = {i} /\ i.is = "town" /\ i.with = None
        /\ w.same => w.items = {} \/ \E i \in PlaceThings : w.items = {i} /\ i.is \in {"town", "street"} /\ i.with = None}

TownsNamed(w) == {i.town : i \in w.items} \ {None}

\* A value passed for a detail; what is kept of a detail has the same form.
Field(s, i) == [slot |-> s, is |-> i.is, town |-> i.town, with |-> i.with]
Of(f, s) == {x \in f : x.slot = s}
SlotsOf(f) == {x.slot : x \in f}
TownAt(f, s) == IF \E x \in f : x.slot = s THEN (CHOOSE x \in f : x.slot = s).town ELSE None

\* The values passed: of the things said, each under a detail it fits or left out.
Fields(w) ==
    {f \in SUBSET (UNION {{Field(s, i) : s \in Fits(i)} : i \in w.items}) :
        /\ \A x, y \in f : x # y => x.slot # y.slot /\ [x EXCEPT !.slot = y.slot] # y}

\* The question: named in `asks`, a recorded phrase, in words that do not say, or none.
Asking == [slot : Slots, by : {"asks", "phrase", "words"}] \cup {[slot |-> None, by |-> "none"]}

Heard == UNION {[words : {w}, fields : Fields(w)] : w \in Words}

-----------------------------------------------------------------------------
(* The values, as the caller's words correct them.                            *)

\* Said with the other place's preposition, and the other place not passed: it is that one.
ByPreposition(f) ==
    LET moves(x) == x.slot \in Places /\ x.with = Other(x.slot) /\ Of(f, Other(x.slot)) = {}
    IN  {IF moves(x) THEN [x EXCEPT !.slot = Other(@)] ELSE x : x \in f}

\* Said in words the business knows, and left out by the model: no place that has a street.
WithPatterns(c, w, f) ==
    f \cup {Field(i.with, i) : i \in {i \in w.items :
                /\ i.with # None
                /\ i.with \in Places => i.is = "town"
                /\ i.with \notin SlotsOf(f) \cup SlotsOf(c.given)}}

\* A detail already given changes only when it was asked about or is corrected.
AnswerInPlace(c, w, f) ==
    IF c.asks = {} \/ w.correct THEN f
    ELSE {x \in f : x.slot \in SlotsOf(c.given) => x.slot \in c.asks}

(* Mutant: the answer itself needs its own words.                             *)
WithCuesOfTheAnswer(c, w, f) ==
    IF c.asks = {} THEN f ELSE {x \in f : x.slot \in Cued => \E i \in w.items : i.with = x.slot}

\* Given instead of the answer, without its own words: a mishearing of the answer.
WithCues(c, w, f) ==
    IF c.asks = {} \/ c.asks \cap SlotsOf(f) # {} THEN f
    ELSE {x \in f : x.slot \in Cued \ c.asks => \E i \in w.items : i.with = x.slot}

\* Another town, while the street of a place is asked, that the model did not pass.
WithCityCorrection(c, w, f) ==
    LET focus == c.asks \cap SlotsOf(c.city)
        p == FirstOf(focus)
        towns == TownsNamed(w) \ {TownAt(c.city, p)}
    IN  IF focus # {} /\ Of(f, p) = {} /\ Cardinality(towns) = 1
        THEN f \cup {Field(p, Thing("town", t, None)) : t \in towns}
        ELSE f

\* A ride within one town: the place whose town is not known is in the other's, or both are
\* in the one town named.
WithSameCity(c, w, f) ==
    LET townOf(p) ==
            IF TownAt(f, p) # None THEN TownAt(f, p)
            ELSE IF TownAt(c.city, p) # None THEN TownAt(c.city, p) ELSE TownAt(c.given, p)
        towns == IF \A p \in Places : townOf(p) = None THEN TownsNamed(w)
                 ELSE {townOf(p) : p \in Places} \ {None}
        put == {p \in Places \ SlotsOf(c.given) : townOf(p) = None}
        street(p) == \E x \in Of(f, p) : x.is = "street"
    IN  IF ~(c.same \/ w.same) \/ Cardinality(towns) # 1 THEN f
        ELSE {x \in f : x.slot \notin put \/ x.is = "nowhere"}
             \cup {Field(p, Thing(IF street(p) THEN "address" ELSE "town", t, None)) :
                      p \in {p \in put : \A x \in Of(f, p) : x.is # "nowhere"}, t \in towns}

\* As the engine and the gate correct the values before they look for one town.
Corrected(c, w, f) ==
    LET a == AnswerInPlace(c, w, WithPatterns(c, w, ByPreposition(f)))
    IN  WithCityCorrection(c, w, WithCues(c, w, a))

\* A town alone that could be either place.
LoneCityEitherWay(c, w, f) ==
    /\ Places \cap (SlotsOf(c.given) \cup SlotsOf(c.city)) = {}
    /\ ~w.correct /\ ~w.same
    /\ \E t \in Towns :
        /\ w.items = {Thing("town", t, None)}
        /\ \E p \in Places : TownAt(f, p) = t

\* A town given to the wrong place: said now with the other's preposition, beside another
\* place said with this one's.
Misplaced(c, w) ==
    LET town(p) == IF Of(c.given, p) = {} THEN TownAt(c.city, p)
                   ELSE IF \E x \in Of(c.given, p) : x.is = "town" THEN TownAt(c.given, p) ELSE None
        with(p, t) == Thing("town", t, p) \in w.items
    IN  {p \in Places :
            /\ town(p) # None
            /\ with(Other(p), town(p)) /\ ~with(p, town(p))
            /\ \E i \in w.items : i.with = p}

Clear(c, S) ==
    IF S = {} THEN c
    ELSE [c EXCEPT !.given = @ \ Of(@, FirstOf(S)), !.city = @ \ Of(@, FirstOf(S))]

\* The street asked for, answered in a word or two the model passed nothing for: looked up in
\* that town, where only a street or the town itself is found.
StreetAnswer(c, w, f) ==
    LET wanted == (c.asks \cap SlotsOf(c.city)) \ SlotsOf(c.given)
        p == FirstOf(wanted)
        found(i) ==
            CASE i.is = "street" -> Thing("address", TownAt(c.city, p), None)
              [] i.is = "town" /\ i.town = TownAt(c.city, p) -> Thing("town", i.town, None)
              [] OTHER -> Thing("nowhere", None, None)
    IN  IF f = {} /\ wanted # {} /\ Cardinality(w.items) = 1 /\ ~w.correct
        THEN {Field(p, found(i)) : i \in w.items}
        ELSE f

-----------------------------------------------------------------------------
(* Taking them: each is taken, noted in part (a town whose street is asked next) or refused.  *)

Known(c, p) == IF TownAt(c.city, p) # None THEN TownAt(c.city, p) ELSE TownAt(c.given, p)

Refused(c, f) ==
    {x \in f : x.is \in {"nowhere", "many"} \/ (x.is = "street" /\ Known(c, x.slot) = None)}

Noted(c, f) ==
    {x \in f : x.is = "town" /\ (x.slot \in Precise \/ TownAt(c.city, x.slot) # x.town)}

\* What is kept of a value: a street is one of the town known before.
Kept(c, x) ==
    IF x.is = "street" THEN Field(x.slot, Thing("address", Known(c, x.slot), None))
    ELSE [x EXCEPT !.with = None]

Apply(c, f) ==
    LET noted == Noted(c, f)
        taken == f \ (Refused(c, f) \cup noted)
        replaced == SlotsOf(taken)
        stale(y) == \E x \in noted : x.slot = y.slot /\ x.town # y.town
    IN  [c EXCEPT
            !.given = {y \in @ : y.slot \notin replaced /\ ~stale(y)} \cup {Kept(c, x) : x \in taken},
            !.city = {y \in @ : y.slot \notin replaced \cup SlotsOf(noted)} \cup {Kept(c, x) : x \in noted}]

-----------------------------------------------------------------------------
(* The questions.                                                             *)

Missing(c) == Slots \ SlotsOf(c.given)
Wanted(c) == Missing(c) \ (c.asked \ Required)

\* The detail a task in a fixed order asks for next.
ExpectedSlot(c) == LET wanted == Wanted(c) IN IF wanted = {} THEN None ELSE FirstOf(wanted)

\* open: the place of each detail in the line of the questions asked, 0 for none.
Open(c) == {s \in Slots : c.open[s] > 0}

\* Of a line, what is still not given; of the call's own, what was asked for and is not given.
StillOpen(c, line) == {s \in Required \ SlotsOf(c.given) : line[s] > 0}
OpenQuestions(c) == StillOpen(c, c.open)

\* A question (it asks for one detail) joins the line, and those that were answered leave it.
NoteAsked(c, S) ==
    LET new == S \ Open(c)
        line == IF new = {} THEN c.open ELSE [c.open EXCEPT ![FirstOf(new)] = Cardinality(Open(c)) + 1]
        left == StillOpen(c, line)
        place(s) == Cardinality({z \in left : line[z] <= line[s]})
    IN  [c EXCEPT !.asks = S, !.asked = @ \cup (S \ Required),
                  !.open = [s \in Slots |-> IF s \in left THEN place(s) ELSE 0]]

\* The questions still open, and the first of them this reply's values do not answer.
Pending(c, f) ==
    LET open == OpenQuestions(c)
        left == open \ SlotsOf(f)
    IN  [all |-> open, first |-> IF left = {} THEN None ELSE Earliest(c.open, left)]

\* The detail asked for earlier that the reply's question would go past, or None.
MovesOn(p, S) == IF S = {} \/ p.all \cap S # {} THEN None ELSE p.first

PartialPlaceBefore(c, s) == Missing(c) \cap SlotsOf(c.city) \cap Before(s) # {}

\* What the question asks for, as the reply says it: by name or by its recorded phrase.
Asks(q) == IF q.by = "asks" THEN {q.slot} ELSE {}
Phrase(q) == IF q.by = "phrase" THEN {q.slot} ELSE {}
Question(q) == {q.slot} \ {None}

-----------------------------------------------------------------------------
(* The gate: whether the reply's words are held back, checked on a copy of the call as they   *)
(* stream in.                                                                                 *)

RejectsAny(c, w, agents, all) ==
    all # agents \/ Refused(c, all) # {} \/ LoneCityEitherWay(c, w, all)

\* The detail next in the order with the reply's values taken, the questions still open, and
\* the call with the values as they were passed.
Probe(c, w, f) ==
    LET agents == Corrected(c, w, f)
        all == WithSameCity(c, w, agents)
    IN  [rejects |-> RejectsAny(c, w, agents, all), next |-> ExpectedSlot(Apply(c, all)),
         open |-> Pending(c, f), asPassed |-> Apply(c, AnswerInPlace(c, w, f))]

OutOfOrder(g, S) == S # {} /\ g.next # None /\ g.next \notin S
PhraseSkipsAPlace(g, s) == PartialPlaceBefore(g.asPassed, s)

(* Mutant: the order is not looked at before the words are played.            *)
HeldAnyOrder(f, g, q) == g.rejects \/ MovesOn(g.open, Question(q)) # None

Held(f, g, q) ==
    \/ g.rejects
    \/ MovesOn(g.open, Question(q)) # None
    \/ OutOfOrder(g, Asks(q) \cup Phrase(q))
    \/ q.by = "phrase" /\ (Of(f, q.slot) # {} \/ PhraseSkipsAPlace(g, q.slot))

-----------------------------------------------------------------------------
(* The turn.                                                                  *)

Outcome(c, S, d) == [call |-> c, air |-> S, done |-> d]

(* Mutant: the engine's own question is not noted as asked.                   *)
AskUnnoted(c, s) == Outcome(c, {s}, FALSE)

Ask(c, s) == Outcome(NoteAsked(c, {s}), {s}, FALSE)
ReadBack(c) == Outcome(c, {}, TRUE)
NextQuestion(c, next) == IF next = None THEN ReadBack(c) ELSE Ask(c, next)

\* The task's own next step, which leaves out the optional details.
Advance(c) ==
    IF Required \cap Missing(c) = {} THEN ReadBack(c) ELSE Ask(c, FirstOf(Required \cap Missing(c)))

\* A detail just refused: the question about it.  One with its own "ask again" is not noted.
AskRejected(c, s) ==
    IF s \in HasAgain THEN Outcome(c, {s}, FALSE) ELSE Ask(c, s)

\* The values taken: the call with them, those refused, and whether a place was put in the
\* town of the other (the reply's words are then dropped: they were asked without it).
Take(c, w, f) ==
    LET moved == Misplaced(c, w)
        b == Clear(c, moved)
        agents == Corrected(b, w, StreetAnswer(b, w, f))
        all == WithSameCity(b, w, agents)
        after == Apply([b EXCEPT !.same = @ \/ w.same], all)
    IN  [call |-> after, next |-> ExpectedSlot(after), open |-> Pending(after, f),
         rejected |-> SlotsOf(Refused(b, all)), decided |-> all # agents, moved |-> moved # {}]

\* The words were held back: the engine's question, or after all the reply's own.
Replaced(r, f, q) ==
    LET c == r.call
        phrase == IF r.decided THEN {} ELSE Phrase(q)
        words == IF q.by # "words" \/ r.decided THEN {} ELSE {q.slot}
        asks == Asks(q) \cup phrase
        answered == phrase \cap SlotsOf(f) \cap SlotsOf(c.given \cup c.city) # {}
    IN  IF r.rejected # {} THEN {AskRejected(c, s) : s \in r.rejected}
        ELSE IF \/ answered
                \/ asks = {} /\ MovesOn(r.open, words) # None
                \/ asks # {} /\ r.next \notin asks \cup {None}
                \/ \E s \in phrase : PartialPlaceBefore(c, s)
        THEN {NextQuestion(c, r.next)}
        ELSE IF MovesOn(r.open, asks) # None THEN {Ask(c, MovesOn(r.open, asks))}
        ELSE IF r.decided THEN {Advance(NoteAsked(c, asks))}
        ELSE {Outcome(NoteAsked(c, asks), Question(q), FALSE)}

\* The words were played: what they ask for is noted.
Played(r, q) ==
    IF r.decided THEN {Advance(NoteAsked(r.call, Asks(q)))}
    ELSE {Outcome(NoteAsked(r.call, Asks(q) \cup Phrase(q)), Question(q), FALSE)}

\* For the properties: the detail the caller's words are the answer to.  The turns of one who
\* answers are counted by twos: a turn that changes nothing is a turn.
Answer(h) == {x.slot : x \in {x \in h.fields : h.fields = {x} /\ x.slot \in air /\ x.with \in {None, x.slot}}}

OnAgentTurn(h, Q) ==
    \E g \in {Probe(call, h.words, h.fields)}, r \in {Take(call, h.words, h.fields)},
       answer \in {Answer(h)}, lone \in {LoneCityEitherWay(call, h.words, h.fields)}, q \in Q :
      \E o \in IF lone
               THEN {Outcome(NoteAsked(call, {"pickup"}), Places, FALSE)}
               ELSE IF Held(h.fields, g, q) THEN Replaced(r, h.fields, q) ELSE Played(r, q) :
        /\ call' = o.call /\ air' = o.air /\ done' = o.done
        /\ turn' = [due |-> r.moved \/ q.by = "words" \/ o.air \subseteq r.rejected,
                    again |-> o.air = {r.open.first},
                    lost |-> o.air # Places /\ ~(answer \subseteq
                                 r.rejected \cup SlotsOf(o.call.given \cup o.call.city)),
                    odd |-> caller = "answers" /\ ~turn.odd]

-----------------------------------------------------------------------------

Init ==
    /\ \E known \in SUBSET {Field("customer_name", NameThing)} :
         call = [given |-> known, city |-> {}, asks |-> {}, asked |-> {}, open |-> [s \in Slots |-> 0], same |-> FALSE]
    /\ air = {} /\ done = FALSE
    /\ turn = [due |-> FALSE, again |-> FALSE, lost |-> FALSE, odd |-> FALSE]
    /\ caller \in Callers /\ (caller = "anyone" => call.given # {})

\* One who answers: what is asked and only that, a street once its town is known; the model
\* passes it on as what it is and names what it asks.
Answers(h) ==
    /\ ~h.words.correct /\ ~h.words.same
    /\ IF air = {} THEN h.words.items = {}
       ELSE \E s \in air, i \in h.words.items :
            /\ h.words.items = {i} /\ h.fields = {Field(s, i)}
            /\ i.is \in {"town", "address", "street", "number", "name"}
            /\ i.is # IF s \in SlotsOf(call.city) THEN "town" ELSE "street"
            /\ i.with = s \/ (i.with = None /\ air # Places)

Talks ==
    /\ caller = "anyone" /\ ~done
    /\ \E h \in Heard : OnAgentTurn(h, {q \in Asking : q.slot # "customer_name"})
    /\ UNCHANGED caller

IsAnswered ==
    /\ caller = "answers" /\ ~done
    /\ \E h \in Heard : Answers(h) /\ OnAgentTurn(h, {q \in Asking : q.by \in {"asks", "phrase"}})
    /\ UNCHANGED caller

Next == Talks \/ IsAnswered

\* A caller who answers goes on answering, and a decision comes to an end (Deciding).
Spec == Init /\ [][Next]_vars /\ WF_vars(IsAnswered)

-----------------------------------------------------------------------------

\* No question is put to the caller past a required detail that is still missing.
NoneSkipped == \A s \in air : (Required \cap Before(s)) \ SlotsOf(call.given) = {}

\* Whatever the model asks, no question is put to the caller past a required detail that is
\* still missing, but for these: about one just refused; the question asked longest ago of
\* those still open that the reply gives no value for, asked again (moves_on); in words that
\* do not name what they ask; after a town was moved from one place to the other; and the
\* one about both places.  Nothing is read back while one is missing.
AskedInOrder ==
    /\ turn.due \/ turn.again \/ air = Places \/ NoneSkipped
    /\ done => Required \subseteq SlotsOf(call.given)

\* The answer to a question that was noted as asked is taken, in whole or in part, or refused,
\* whatever else was said and whatever the model asks next.
NotedAnswersAreTaken == [][turn'.lost => ~(air \subseteq call.asks)]_vars

\* A caller who answers every question gives every required detail, whatever the model asks
\* next.
EveryDetailIsCollected == caller = "answers" ~> Required \subseteq SlotsOf(call.given)

\* What the question just asked for is taken from the caller's next answer.
AnswersAreTaken == ~turn.lost
=============================================================================
