------------------------------- MODULE Handoff -------------------------------
(***************************************************************************)
(* What a transfer to the desk promises, without tasks, requests or         *)
(* callbacks: a caller is offered to the desk once, claimed by at most one  *)
(* operator, connected only to that operator, and a closed transfer stays   *)
(* closed.  Desk.tla implements this.                                       *)
(***************************************************************************)
CONSTANTS
    Operators, \* who may claim the caller
    Nobody     \* no operator has

VARIABLES phase, operator

vars == <<phase, operator>>

Init == phase = "none" /\ operator = Nobody

(* The caller is put on hold and the desk is rung. *)
Offer == phase = "none" /\ phase' = "offered" /\ operator' = Nobody

(* The first operator to answer claims the caller. *)
Claim ==
    /\ phase = "offered"
    /\ phase' = "claimed"
    /\ operator' \in Operators

(* The conference with that very operator starts. *)
Connect == phase = "claimed" /\ phase' = "connected" /\ operator' = operator

(* Given up, abandoned, left by either side or over. *)
Close ==
    /\ phase \in {"offered", "claimed", "connected"}
    /\ phase' = "closed"
    /\ operator' = Nobody

Next == Offer \/ Claim \/ Connect \/ Close

Spec == Init /\ [][Next]_vars
=============================================================================
