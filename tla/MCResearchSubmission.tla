-------------------------- MODULE MCResearchSubmission --------------------------
(* Four requests, two of them with another brief at the same key. *)
EXTENDS ResearchSubmission, TLC

CONSTANTS q1, q2, q3, q4

FourRequests == {q1, q2, q3, q4}
TwoBriefs == {1, 2}
Symmetry == Permutations(FourRequests)
===============================================================================
