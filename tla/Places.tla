------------------------------- MODULE Places -------------------------------
(***************************************************************************)
(* How the conversation engine gets a place out of the caller              *)
(* (check_place and what it keeps of a slot's place in CallState): a city  *)
(* is noted and its street asked, a street's number is asked, a street     *)
(* nobody knows is doubted once, and what is insisted on is taken.         *)
(* One place slot of the task in progress.  What the gazetteer finds is    *)
(* the input: a caller's words stand for what looking them up yields.      *)
(***************************************************************************)
EXTENDS Naturals

CONSTANTS Cities, None, MaxMisses

VARIABLES
    cfg,        \* the slot's and the business's settings, fixed for the call
    note,       \* what the call keeps of the place so far
    val,        \* the slot's value
    handed,     \* the call went to a person
    habit       \* the words the caller says each time, or None: anything

vars == <<cfg, note, val, handed, habit>>

\* precise: needs a street; else its street is asked once (street_once).  number: there is a
\* question for the house number.  person: the business has a handoff number.
Config == [precise : BOOLEAN, number : BOOLEAN, person : BOOLEAN]

Note == [city : Cities \cup {None},          \* place_cities
         street : BOOLEAN,                   \* place_streets: a street kept until its city comes
         number : Cities \cup {None},        \* place_numbers: a street there waits for its number
         numberAsked : BOOLEAN, doubted : BOOLEAN, doubtedNumber : BOOLEAN,
         streetChecked : BOOLEAN, townChecked : BOOLEAN,      \* unheard_streets
         unheard : 0..2,                     \* unheard_rejections
         misses : 0..MaxMisses]              \* place_rejections

\* A value is a town alone, a place within it (a street, an address, a landmark, "the gate"),
\* or words nobody could find.
Place == [kind : {"town", "within", "unverified"}, city : Cities \cup {None}]
NoPlace == [kind |-> "none", city |-> None]

\* The caller's words: a town, a street or a landmark that exists, a street that does not, a
\* bare number, or nothing the gazetteer knows; with a city or without, with a house number,
\* with names close to it, informal ("at the gate") or the caller's own ("my home").  The
\* model may have made them up, or only the second hearing may have heard them.
Words ==
    {w \in [kind : {"town", "street", "landmark", "nostreet", "digits", "nothing"},
            city : Cities \cup {None}, number : BOOLEAN, close : BOOLEAN,
            trait : {"plain", "informal", "personal"}, heard : {"heard", "second", "invented"}] :
        /\ w.kind = "town" => w.city # None /\ ~w.number
        /\ w.kind \in {"digits", "nothing"} => w.city = None
        /\ w.kind \in {"landmark", "nothing"} => ~w.number
        /\ w.kind = "digits" => w.number
        /\ w.close => w.kind = "nostreet" /\ w.city # None /\ ~w.number
        /\ w.trait # "plain" => w.kind = "nothing"
        /\ w.heard = "second" => w.kind \in {"town", "street"} /\ w.city # None
        /\ w.heard = "invented" => w.kind = "street" /\ w.city # None /\ ~w.number }

-----------------------------------------------------------------------------
(* Looking the words up, with what is known of the place.                     *)

Found(c, k) == [is |-> "found", city |-> c, kind |-> k]
NoStreet(c) == [is |-> "no_street", city |-> c, kind |-> "none"]
NoCity == [is |-> "no_city", city |-> None, kind |-> "none"]

\* The city given before for this place, or that of the value being corrected.
CityBefore == IF note.city # None THEN note.city ELSE val.city

\* A street without its number takes the one said before with a street that was not found.
OfStreet(c, w) == IF w.number \/ note.doubtedNumber THEN {Found(c, "address")} ELSE {Found(c, "street")}

Within(c, w) ==
    CASE w.kind = "street" -> OfStreet(c, w)
      [] w.kind = "landmark" -> {Found(c, "landmark")}
      [] OTHER -> {NoStreet(c)}

\* A town joins the street kept for it; words without a city are looked up in the one given
\* before; a house number without a city may name a locality it is not.
Lookups(w) ==
    IF w.kind = "digits" /\ note.number # None THEN {Found(note.number, "address")}
    ELSE IF w.kind = "town"
         THEN IF note.street THEN {Found(w.city, "street"), Found(w.city, "address"), NoStreet(w.city)}
              ELSE {Found(w.city, "town")}
    ELSE IF w.city # None THEN Within(w.city, w)
    ELSE IF CityBefore # None THEN Within(CityBefore, w)
    ELSE IF w.kind = "street" /\ w.number THEN {NoCity} \cup {Found(c, "numbered_town") : c \in Cities}
    ELSE {NoCity}

-----------------------------------------------------------------------------
(* What comes of it: the place is taken, its city noted, or it is rejected.   *)

Take(n, p) == [note |-> n, val |-> p, rejected |-> FALSE]
Reject(n) == [note |-> n, val |-> val, rejected |-> TRUE]

Forget(n) == [n EXCEPT !.city = None, !.street = FALSE, !.number = None, !.misses = 0]

\* Another city than before: what was doubted about a street of the other no longer holds.
NoteCity(n, c) ==
    IF n.city \in {None, c} THEN [n EXCEPT !.city = c]
    ELSE [n EXCEPT !.city = c, !.doubted = FALSE, !.number = None, !.numberAsked = FALSE]

\* A city given for a place that holds a value from elsewhere: the old value goes.
NoteTown(c) ==
    LET stale == val # NoPlace /\ val.city # c
        n == IF stale THEN [note EXCEPT !.number = None, !.numberAsked = FALSE] ELSE note
    IN  [note |-> NoteCity(n, c), val |-> IF stale THEN NoPlace ELSE val, rejected |-> FALSE]

\* Two misses and nobody to hand the call to.
GiveUp == ~cfg.person /\ note.misses >= 2

Missed(n) == [n EXCEPT !.misses = IF @ < MaxMisses THEN @ + 1 ELSE @]

(* Mutant: a town is taken once its street was asked for, precise or not.     *)
CheckFoundTakesTown(l, w) ==
    LET town == l.kind \in {"town", "numbered_town"}
    IN  IF l.kind = "numbered_town" THEN Reject([note EXCEPT !.street = TRUE])
        ELSE IF town /\ note.city # l.city THEN NoteTown(l.city)
        ELSE Take(Forget(note), [kind |-> IF town THEN "town" ELSE "within", city |-> l.city])

CheckFound(l, w) ==
    LET n == IF l.kind = "address" THEN [note EXCEPT !.doubtedNumber = FALSE] ELSE note
        town == l.kind \in {"town", "numbered_town"}
    IN  IF town /\ w.heard = "second" /\ ~note.townChecked
        THEN Reject([n EXCEPT !.townChecked = TRUE])
        ELSE IF ~town /\ l.kind # "landmark" /\ w.heard = "second" /\ ~note.streetChecked
        THEN Reject([n EXCEPT !.streetChecked = TRUE, !.city = l.city,
                              !.doubtedNumber = @ \/ l.kind = "address"])
        ELSE IF l.kind = "numbered_town" THEN Reject([n EXCEPT !.street = TRUE])
        ELSE IF town /\ (cfg.precise \/ note.city # l.city) THEN NoteTown(l.city)
        ELSE IF l.kind = "street" /\ ~note.numberAsked /\ cfg.number
        THEN Reject([n EXCEPT !.numberAsked = TRUE, !.number = l.city, !.city = None])
        ELSE Take(Forget(n), [kind |-> IF town THEN "town" ELSE "within", city |-> l.city])

CheckNoCity(w) ==
    IF w.trait = "personal" THEN Reject(note)
    ELSE IF ~GiveUp THEN Reject([Missed(note) EXCEPT !.street = @ \/ w.number])
    ELSE Take(note, [kind |-> "unverified", city |-> None])

(* Mutants: a street nobody knows is taken at once; the doubt is not kept.     *)
CheckNoStreetAtOnce(l, w) ==
    IF w.trait = "personal" THEN Reject(note)
    ELSE Take([note EXCEPT !.city = None], [kind |-> IF w.trait = "informal" THEN "within" ELSE "unverified", city |-> l.city])

CheckNoStreetAlwaysDoubts(l, w) ==
    IF w.trait = "personal" THEN Reject(note)
    ELSE IF w.trait # "informal" THEN Reject([note EXCEPT !.city = l.city])
    ELSE Take([note EXCEPT !.city = None], [kind |-> "within", city |-> l.city])

\* A street its city does not have: doubted once, then taken as said.
CheckNoStreet(l, w) ==
    LET doubtful == w.trait # "informal" /\ ~note.doubted
        n == [note EXCEPT !.doubted = TRUE, !.city = l.city]
    IN  IF w.trait = "personal" THEN Reject(note)
        ELSE IF doubtful /\ ~GiveUp /\ (w.number \/ (cfg.precise /\ w.close))
        THEN Reject([Missed(n) EXCEPT !.doubtedNumber = @ \/ w.number])
        ELSE IF doubtful THEN Reject(n)
        ELSE Take([note EXCEPT !.city = None], [kind |-> IF w.trait = "informal" THEN "within" ELSE "unverified", city |-> l.city])

CheckPlace(l, w) ==
    CASE l.is = "found" -> CheckFound(l, w)
      [] l.is = "no_city" -> CheckNoCity(w)
      [] l.is = "no_street" -> CheckNoStreet(l, w)

-----------------------------------------------------------------------------

\* The model passes the place on.  Words the caller never said are refused twice, then
\* taken; a rejected place is asked about, and at its third miss a person takes the call.
AgentPasses(w, l) ==
    LET c == IF w.heard = "invented" /\ note.unheard < 2
             THEN Reject([note EXCEPT !.unheard = @ + 1]) ELSE CheckPlace(l, w)
        over == c.rejected /\ cfg.person /\ c.note.misses >= 3
    IN  /\ ~handed /\ habit \in {None, w}
        /\ note' = c.note
        /\ val' = c.val /\ handed' = over
        /\ UNCHANGED <<cfg, habit>>

\* The model was too late: the rules take the words, and ask on.
RulesPass(w, l) ==
    LET c == CheckPlace(l, w)
    IN  /\ ~handed /\ habit = None /\ w.heard # "invented"
        /\ note' = c.note /\ val' = c.val
        /\ UNCHANGED <<cfg, handed, habit>>

Init ==
    /\ cfg \in Config /\ val = NoPlace /\ handed = FALSE /\ habit \in Words \cup {None}
    /\ note = [city |-> None, street |-> FALSE, number |-> None, numberAsked |-> FALSE, doubted |-> FALSE,
               doubtedNumber |-> FALSE, streetChecked |-> FALSE, townChecked |-> FALSE, unheard |-> 0, misses |-> 0]

Next == \E w \in Words : \E l \in Lookups(w) : AgentPasses(w, l) \/ RulesPass(w, l)

\* A caller who insists goes on saying it.
Repeats == habit # None /\ \E l \in Lookups(habit) : AgentPasses(habit, l)

Spec == Init /\ [][Next]_vars /\ WF_vars(Repeats)

-----------------------------------------------------------------------------

TypeOK ==
    /\ cfg \in Config /\ note \in Note /\ val \in Place \cup {NoPlace}
    /\ handed \in BOOLEAN /\ habit \in Words \cup {None}

\* A place that needs its street is never taken as a town alone, whatever was noted, joined
\* or corrected before (a ride was read back with no street when the rules took it).
StreetIsThere == cfg.precise => val.kind # "town"

\* A place nobody could find goes to the driver only when the caller was asked about it: it
\* was doubted before, or there is nobody to ask after two misses.
DoubtedFirst == val'.kind = "unverified" /\ val' # val => note.doubted \/ GiveUp
UnverifiedWasDoubted == [][DoubtedFirst]_vars

\* Words that name a place, or a street whose city is asked for.
Insists ==
    /\ habit # None /\ habit.trait # "personal"
    /\ habit.kind = "town" => ~cfg.precise
    /\ habit.kind = "street" /\ habit.number => habit.city # None

\* A check that loops is worse than a doubtful place: a caller who insists on the same words
\* is taken at them, or gets a person.
InsistingEnds == Insists ~> (val # NoPlace \/ handed)
=============================================================================
