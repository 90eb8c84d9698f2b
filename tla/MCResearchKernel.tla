---------------------------- MODULE MCResearchKernel ----------------------------
(* Small instances of ResearchKernel for TLC. *)
EXTENDS ResearchKernel

CONSTANTS w1, w2, e1, e2, a1, a2

TwoWorkers == {w1, w2}
TwoExecutions == {e1, e2}
WorkerOfTwo == [e \in TwoExecutions |-> IF e = e2 THEN w2 ELSE w1]
TwoActions == {a1, a2}
\* One action without a ceiling, and one that is dear and tried once.
Costs == [a \in Actions |-> IF a = a1 THEN 1 ELSE 2]
Ceilings == [a \in Actions |-> IF a = a1 THEN 0 ELSE 1]
===============================================================================
