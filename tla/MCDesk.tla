------------------------------- MODULE MCDesk -------------------------------
(* Two desk numbers, interchangeable: the code treats them alike, and two are
   enough for a winner, a loser and a number that never rang. *)
EXTENDS Desk, TLC

Symmetry == Permutations(Numbers)
=============================================================================
