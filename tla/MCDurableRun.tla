----------------------------- MODULE MCDurableRun -----------------------------
(* Small instances of DurableRun for TLC. *)
EXTENDS DurableRun, TLC

CONSTANTS w1, w2, c1, c2

OneRun == {1}
TwoRuns == {1, 2}
OneWorker == {w1}
TwoWorkers == {w1, w2}
OneClient == {c1}
AllKinds == RequestKind
ResumeKinds == RequestKind \ {"activate"}

\* Workers and clients only differ in their names.
Symmetry == Permutations(Workers) \cup Permutations(Clients)
===============================================================================
