------------------------------- MODULE MCC2Smoke -------------------------------
(***************************************************************************)
(* Instance of C2Smoke.  The proposals cover what the Critic tells apart:  *)
(* a plausible pair, a drop of more than 0.3, an inverted pair, and a pair *)
(* with each coordinate out of bounds.                                     *)
(***************************************************************************)
EXTENDS C2Smoke

P(y, x) == [yD |-> y, xB |-> x]

MCProposals == {P(9, 1), P(5, 1), P(2, 4), P(11, 1), P(9, -1)}

MCPlants == {5, 9}
================================================================================
