------------------------------- MODULE TaskGraph -------------------------------
(***************************************************************************)
(* What the workflow engine promises of a run, whatever crashes: tasks     *)
(* settle once, though a skipped one may still be excused; a task is       *)
(* opened for execution only after everything it depends on is done or     *)
(* excused; and a run that is reported completed has settled every task,   *)
(* none of them as failed, and never changes again.  Nothing is done on    *)
(* a run that was reported failed.                                         *)
(***************************************************************************)
EXTENDS FiniteSets

CONSTANT Tasks
VARIABLES
    deps,    \* the tasks each task depends on; fixed when the run is created
    phase,   \* task -> Phase
    verdict  \* what the run was reported to be

vars == <<deps, phase, verdict>>

Phase == {"pending", "open", "done", "excused", "skipped", "failed"}
Settled == {"done", "excused", "skipped", "failed"}
Met(t) == \A d \in deps[t] : phase[d] \in {"done", "excused"}

TypeOK ==
    /\ deps \in [Tasks -> SUBSET Tasks]
    /\ phase \in [Tasks -> Phase]
    /\ verdict \in {"none", "completed", "failed"}

Init ==
    /\ deps \in [Tasks -> SUBSET Tasks]
    /\ phase = [t \in Tasks |-> "pending"]
    /\ verdict = "none"

\* One task's part in a step: opened, settled, given up or excused.
Moves(t, p) ==
    \/ phase[t] = "pending" /\ p = "open" /\ Met(t)
    \/ phase[t] \in {"pending", "open", "skipped"} /\ p = "excused"
    \/ phase[t] \in {"pending", "open"} /\ p = "skipped"
    \/ phase[t] = "open" /\ p \in {"done", "failed"}

\* A step moves any number of tasks, because a checkpoint writes them all.
MoveTasks ==
    /\ phase' \in [Tasks -> Phase]
    /\ \A t \in Tasks : phase'[t] # phase[t] => Moves(t, phase'[t])

Progress ==
    /\ verdict # "completed"
    /\ MoveTasks
    /\ verdict = "failed" => \A t \in Tasks : phase'[t] = "done" => phase[t] = "done"
    /\ UNCHANGED <<deps, verdict>>

Report ==
    /\ verdict = "none" /\ verdict' \in {"completed", "failed"}
    /\ MoveTasks
    /\ verdict' = "completed" => \A t \in Tasks : phase'[t] \in Settled \ {"failed"}
    /\ UNCHANGED deps

Next == Progress \/ Report

Spec == Init /\ [][Next]_vars
===============================================================================
