----------------------------- MODULE MCPlayout -----------------------------
(* The playout with small buffers, and the session's count checked against
   what is really outstanding. *)
EXTENDS Playout, FiniteSets

(* The ends on their way to the session, one for every item an event ends. *)
Announced(es) == UNION {{<<i, k>> : k \in 1 .. es[i].n} : i \in 1 .. Len(es)}

(* The session's `queued_items` is exact: the items that have not ended are
   the ones it counts, once the events on their way are taken, and its
   saturating subtraction never saturates. *)
QueuedIsExact ==
    queued = (said - accepted) + Len(queue) + (IF cur = None THEN 0 ELSE 1)
               + Cardinality(Announced(evs))
=============================================================================
