----------------------------- MODULE MCTerminals -----------------------------
(***************************************************************************)
(* The terminals of seat0 with two displays, whose names are interchangeable, *)
(* and a getty: a third display would only repeat what the second one meets.  *)
(***************************************************************************)
EXTENDS Terminals, TLC

Symmetry == Permutations(Numbers)
=============================================================================
