-------------------------- MODULE MCQuantitativeStudy --------------------------
(* Two operators of one study. *)
EXTENDS QuantitativeStudy, TLC

CONSTANTS o1, o2

TwoOperators == {o1, o2}
Symmetry == Permutations(TwoOperators)
===============================================================================
