------------------------------- MODULE Models -------------------------------
(***************************************************************************)
(* The language models behind one request (callora-providers race.rs and   *)
(* openai.rs): the agent's model hedged by a backup, with a fallback of    *)
(* another provider; the same models asked in turn for a whole answer; and *)
(* several asked at once, the first answer winning.                        *)
(*                                                                         *)
(* A lane is one model asked once.  Its health is fixed for the request:   *)
(* it answers, it fails (refused, an error, an empty reply), or it hangs.  *)
(***************************************************************************)
EXTENDS Naturals, Sequences

CONSTANTS
    MaxDeltas      \* bound: pieces of a streamed reply

Lanes == {"primary", "backup", "fallback"}
\* What the settings and the providers' keys leave: the agent's model, with or without others.
Configured == {S \in SUBSET Lanes : "primary" \in S}
Ways == {"stream", "extract", "race"}

VARIABLES
    way,       \* how the request is made
    health,    \* [Lanes -> "ok", "fails" or "hangs"]
    has,       \* the lanes there are: one needs its provider's key
    lane,      \* [Lanes -> "off", "asked", "started", "failed" or "dropped"]
    out,       \* the pieces of the reply handed on, by lane
    result     \* "none", "started", "ended", "broken" or "failed"

vars == <<way, health, has, lane, out, result>>

Ask(on, l) == [on EXCEPT ![l] = "asked"]
\* The lanes whose answer the request waits for, and the one asked next when they all failed.
Asked == {l \in Lanes : lane[l] = "asked"}
Follows(l) == IF l = "primary" /\ "backup" \in has /\ lane["backup"] = "off" THEN "backup" ELSE "fallback"

(* start: a lane's first piece is in (a whole answer, when nothing streams):   *)
(* it is the one used, and the others are dropped.                             *)
Starts(l) ==
    /\ result = "none" /\ l \in Asked /\ health[l] = "ok"
    /\ lane' = [k \in Lanes |-> IF k = l THEN "started" ELSE IF k \in Asked THEN "dropped" ELSE lane[k]]
    /\ out' = <<l>> /\ result' = IF way = "stream" THEN "started" ELSE "ended"
    /\ UNCHANGED <<way, health, has>>

(* Mutant: the first failure ends the request, whoever else was asked.         *)
FailsAtOnce(l) ==
    /\ result = "none" /\ l \in Asked /\ health[l] = "fails"
    /\ lane' = [lane EXCEPT ![l] = "failed"] /\ result' = "failed"
    /\ UNCHANGED <<way, health, has, out>>

(* It fails before its first piece: another still under way is waited for;     *)
(* else the next is asked, and after the last the request has failed.          *)
Fails(l) ==
    /\ result = "none" /\ l \in Asked /\ health[l] = "fails"
    /\ LET failed == [lane EXCEPT ![l] = "failed"]
       IN  IF Asked # {l}
             THEN lane' = failed /\ UNCHANGED result
             ELSE IF way # "race" /\ Follows(l) \in has /\ lane[Follows(l)] = "off"
                    THEN lane' = Ask(failed, Follows(l)) /\ UNCHANGED result
                    ELSE lane' = failed /\ result' = "failed"
    /\ UNCHANGED <<way, health, has, out>>

(* Hedged::stream_metered: the primary has said nothing for a while.           *)
Hedge ==
    /\ way = "stream" /\ "backup" \in has /\ result = "none"
    /\ lane["primary"] = "asked" /\ lane["backup"] = "off"
    /\ lane' = Ask(lane, "backup")
    /\ UNCHANGED <<way, health, has, out, result>>

(* sse_deltas: another piece; the end, with or without [DONE]; or an error, after *)
(* which nothing more comes and nobody else is asked.                             *)
Streams ==
    /\ result = "started"
    /\ \/ Len(out) < MaxDeltas /\ out' = Append(out, Head(out)) /\ UNCHANGED result
       \/ result' = "ended" /\ UNCHANGED out
       \/ result' = "broken" /\ UNCHANGED out
    /\ UNCHANGED <<way, health, has, lane>>

Init ==
    /\ way \in Ways /\ health \in [Lanes -> {"ok", "fails", "hangs"}] /\ has \in Configured
    /\ lane = [l \in Lanes |-> IF l = "primary" \/ (way = "race" /\ l \in has) THEN "asked" ELSE "off"]
    /\ out = <<>> /\ result = "none"

Next == Hedge \/ Streams \/ \E l \in Lanes : Starts(l) \/ Fails(l)

\* Models that answer or fail do so in the end, and the hedge's timer fires.
Ends(l) == Starts(l) \/ Fails(l)
Fairness == WF_vars(Hedge) /\ WF_vars(Streams) /\ \A l \in Lanes : WF_vars(Ends(l))

Spec == Init /\ [][Next]_vars /\ Fairness

-----------------------------------------------------------------------------
(* Properties.                                                                *)

TypeOK ==
    /\ way \in Ways /\ health \in [Lanes -> {"ok", "fails", "hangs"}] /\ has \subseteq Lanes
    /\ lane \in [Lanes -> {"off", "asked", "started", "failed", "dropped"}]
    /\ out \in Seq(Lanes) /\ result \in {"none", "started", "ended", "broken", "failed"}

Good(l) == l \in has /\ health[l] = "ok"
Bad(l) == l \notin has \/ health[l] = "fails"

\* Who can still answer: a hanging primary holds up a whole answer, but not a stream with a
\* backup; a hanging backup or primary keeps the fallback from being asked.
CanAnswer ==
    CASE way = "race" -> \E l \in Lanes : Good(l)
      [] way = "extract" -> \/ Good("primary")
                            \/ Bad("primary") /\ Good("backup")
                            \/ Bad("primary") /\ Bad("backup") /\ Good("fallback")
      [] OTHER -> \/ Good("primary") \/ Good("backup")
                  \/ Bad("primary") /\ Bad("backup") /\ Good("fallback")

\* The request is given up only when every model there is has failed: none is left unasked, and
\* none that may still answer is left behind (Hedged, Fallback, race).
GivesUpLast == result = "failed" => \A l \in has : lane[l] = "failed"

\* A provider's outage does not silence the call: the reply begins whenever a model that can
\* be reached answers.
OutageIsCovered == CanAnswer ~> out # <<>>
=============================================================================
