-------------------------- MODULE MCPresentationJobs --------------------------
(* Small instances of PresentationJobs for TLC. *)
EXTENDS PresentationJobs, TLC

CONSTANTS w1, w2, s1, s2

TwoWorkers == {w1, w2}
OneSource == {s1}
TwoSources == {s1, s2}
Editorial == (s1 :> "editorial")
StructuredAndDraft == (s1 :> "structured") @@ (s2 :> "draft")
Symmetry == Permutations(TwoWorkers)
===============================================================================
