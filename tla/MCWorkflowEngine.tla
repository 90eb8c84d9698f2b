--------------------------- MODULE MCWorkflowEngine ---------------------------
(***************************************************************************)
(* The Desk templates of the mapper, one of them pinned to the research    *)
(* kernel, and a template that is not a chain.                             *)
(***************************************************************************)
EXTENDS WorkflowEngine

AllTasks == 1..7
InOrder == [t \in AllTasks |-> t]
Chain == [t \in AllTasks |-> {t - 1} \cap AllTasks]

DeskTemplate ==
    [deps |-> Chain,
     role |-> <<"search", "search", "readiness", "analysis", "report", "review",
                "finalization">>]

KernelTemplate ==
    [deps |-> Chain,
     role |-> <<"acquisition", "stage", "stage", "analysis", "report", "review",
                "finalization">>]

H3Template ==
    [deps |-> [Chain EXCEPT ![7] = {4, 5, 6}],
     role |-> <<"readiness", "analysis", "report", "review_1", "revision", "review_2",
                "finalization">>]

Diamond ==
    [deps |-> <<{}, {}, {1}, {1, 2}, {3, 4}, {5}, {2, 6}>>,
     role |-> <<"search", "search", "search", "boundary", "report", "search", "boundary">>]

AllTemplates == {DeskTemplate, KernelTemplate, H3Template, Diamond}

\* TaskScheduler.schedule task by task, in topological order.
Pass(s) ==
    LET planned[n \in 0..7] ==
            IF n = 0 THEN s.tasks
            ELSE [planned[n - 1] EXCEPT ![n] = Decision(s, n, planned[n - 1])]
    IN  planned[7]

\* The equation Schedule solves has the code's pass as its solution: one pass
\* carries a failure all the way down, in whatever state it finds the tasks.
ScheduleIsOnePass ==
    [][pc = "scheduling" /\ pc' = "dispatching" => mem'.tasks = Pass(mem)]_vars
===============================================================================
