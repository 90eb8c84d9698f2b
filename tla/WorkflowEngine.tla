---------------------------- MODULE WorkflowEngine ----------------------------
(***************************************************************************)
(* One WorkflowRun under the workflow engine: scheduling passes, the task  *)
(* executor, the completion policy, the H3 review branch, checkpoints,     *)
(* crashes and the recovery of interrupted tasks.                          *)
(*                                                                         *)
(* `row` is the WorkflowRun in the database, `mem` the copy the engine     *)
(* works on.  A step ends at a checkpoint or at a decision of the loop; a  *)
(* crash, and any exception that leaves run(), discards `mem`.  One worker *)
(* has the run at a time (DurableRun shows when that holds), and READY and *)
(* CANCELLED of a run are left out: READY is passed in memory only and     *)
(* nothing that is saved cancels.                                          *)
(***************************************************************************)
EXTENDS Naturals, FiniteSets

CONSTANTS
    Tasks, NoTask,
    Templates,    \* the workflow templates a run may be created from
    Position,     \* TaskDependencyGraph.topological_order
    MaxFaults,    \* bound on crashes, unsaved starts and unknown executors
    MaxResumes    \* bound on the resumptions of a paused task

\* What the executor of a task does to the run.  "search" stands for every
\* executor that touches nothing but its own task.  In a Desk run pinned to the
\* research kernel the search task is the "acquisition", which applies the gate,
\* and the research tasks after it, the readiness task among them, are "stage"s.
Roles == {"search", "acquisition", "stage", "readiness", "analysis", "report", "boundary",
          "review", "review_1", "revision", "review_2", "finalization"}
\* DOWNSTREAM_TASK_DEFINITION_IDS
DownstreamRoles == {"analysis", "report", "review", "review_1", "revision",
                    "review_2", "finalization"}

ASSUME TasksAssumption == NoTask \notin Tasks
ASSUME PositionAssumption == Position \in [Tasks -> Nat]
ASSUME BoundsAssumption == MaxFaults \in Nat /\ MaxResumes \in Nat
ASSUME TemplatesAssumption ==
    \A m \in Templates :
        /\ m.deps \in [Tasks -> SUBSET Tasks]
        /\ m.role \in [Tasks -> Roles]
        /\ \A t \in Tasks : \A d \in m.deps[t] : Position[d] < Position[t]

Playing(m, roles) == {t \in Tasks : m.role[t] \in roles}

GateRoles == {"acquisition", "readiness", "analysis"}
Behind(gate) ==
    IF gate = "acquisition" THEN DownstreamRoles \cup {"stage"} ELSE DownstreamRoles \ {gate}

\* A task behind a gate depends on the gate, or on another task behind it.
GatesComeFirst(m) ==
    \A gate \in GateRoles : \A t \in Playing(m, Behind(gate)) :
        \/ Playing(m, {gate}) \subseteq m.deps[t]
        \/ m.deps[t] \cap Playing(m, Behind(gate)) # {}

\* The rounds of review follow one another, and the finalization depends on each.
RoundsInOrder(m) ==
    /\ \A t \in Playing(m, {"revision"}) : Playing(m, {"review_1"}) \subseteq m.deps[t]
    /\ \A t \in Playing(m, {"review_2"}) : m.deps[t] \cap Playing(m, {"revision"}) # {}
    /\ \A t \in Playing(m, {"finalization"}) :
          /\ Playing(m, {"review_1", "review_2"}) \subseteq m.deps[t]
          /\ Playing(m, {"review", "review_2"}) # {}

\* Every task but those of the roles `beside` leads to `goal`: it comes before it,
\* and another such task, or `goal`, depends on it.
LeadsTo(m, goal, beside) ==
    \A u \in Tasks \ (Playing(m, beside) \cup {goal}) :
        /\ Position[u] < Position[goal]
        /\ \E v \in Tasks \ Playing(m, beside) : u \in m.deps[v]

\* Whatever a review or the finalization does not depend on comes after it, or may
\* be excused.
OneLine(m) ==
    /\ \A t \in Playing(m, {"review_1"}) :
          LeadsTo(m, t, {"revision", "review_2", "finalization"})
    /\ \A t \in Playing(m, {"review_2"}) : LeadsTo(m, t, {"finalization"})
    /\ \A t \in Playing(m, {"finalization"}) :
          LeadsTo(m, t, {}) /\ LeadsTo(m, t, {"revision", "review_2"})

\* The shape of the templates that the mapper and a replay build; a template with
\* neither gates nor reviews nor a finalization has it whatever its dependencies.
ASSUME ShapeAssumption ==
    \A m \in Templates : GatesComeFirst(m) /\ RoundsInOrder(m) /\ OneLine(m)

RunStatus == {"created", "running", "paused", "completed", "failed"}
RunTerminal == {"completed", "failed"}
TaskStatus == {"created", "waiting", "ready", "running", "paused",
               "completed", "failed", "skipped"}
Pending == {"created", "waiting", "ready"}
TaskTerminal == {"completed", "failed", "skipped"}
Verdict == {"approve", "revise", "reject"}

\* `satisfied`: the SKIPPED tasks that count as done for their dependents.
\* `verdict`: review_1, review_2 or review of the task results.
\* `progress`: the tasks with a progress checkpoint among the task results.
\* `insufficient`: the research outcome that stops everything downstream.
WorkflowState == [status : RunStatus, tasks : [Tasks -> TaskStatus],
                  satisfied : SUBSET Tasks, verdict : [Tasks -> Verdict \cup {"none"}],
                  progress : SUBSET Tasks, insufficient : BOOLEAN]

Pc == {"idle", "recovering", "starting", "scheduling", "dispatching",
       "executing", "finalizing"}

VARIABLES
    template,  \* the template snapshot of the run
    row, mem,
    pc,        \* where the engine stands; "idle" when no worker has the run
    current,   \* context.current_task
    changed,   \* SchedulingResult.has_changes of the last pass
    faults, resumes

vars == <<template, row, mem, pc, current, changed, faults, resumes>>

DependsOn(t) == template.deps[t]
With(roles) == {t \in Tasks : template.role[t] \in roles}

Done(s, t) == s.tasks[t] = "completed" \/ (s.tasks[t] = "skipped" /\ t \in s.satisfied)
Lost(s, t) == s.tasks[t] = "failed" \/ (s.tasks[t] = "skipped" /\ t \notin s.satisfied)
AllTerminal(s) == \A t \in Tasks : s.tasks[t] \in TaskTerminal
Approved(s) == \E t \in Tasks : s.verdict[t] = "approve"

Init ==
    /\ template \in Templates
    /\ row = [status |-> "created", tasks |-> [t \in Tasks |-> "created"],
              satisfied |-> {}, verdict |-> [t \in Tasks |-> "none"],
              progress |-> {}, insufficient |-> FALSE]
    /\ mem = row
    /\ pc = "idle" /\ current = NoTask /\ changed = FALSE
    /\ faults = 0 /\ resumes = 0

Save == row' = mem'
\* Everything the engine has in memory is gone.
Forget == pc' = "idle" /\ mem' = row' /\ current' = NoTask /\ changed' = FALSE
--------------------------------------------------------------------------------
(***************************************************************************)
(* Transforms of a workflow state.                                         *)
(***************************************************************************)
Skipped(s, T) ==
    [s EXCEPT !.tasks = [t \in Tasks |-> IF t \in T THEN "skipped" ELSE s.tasks[t]]]

\* Mutant: of the pending tasks only the READY ones are found.
ReadyIn(s, T) == {t \in T : s.tasks[t] = "ready"}

PendingIn(s, T) == {t \in T : s.tasks[t] \in Pending}

\* apply_not_ready, skip_definition_ids: nothing is written from insufficient research.
FoundInsufficient(s) ==
    [Skipped(s, PendingIn(s, With(DownstreamRoles))) EXCEPT !.insufficient = TRUE]

\* Mutant: a task that was running at the crash stays RUNNING.
RecoveredResultsOnly(s) ==
    [s EXCEPT !.verdict = [t \in Tasks |-> IF s.tasks[t] = "completed" THEN s.verdict[t]
                                                                     ELSE "none"]]

\* recover_interrupted_running_tasks, restore_runtime_state
Recovered(s) ==
    [s EXCEPT
        !.tasks = [t \in Tasks |-> IF s.tasks[t] # "running" THEN s.tasks[t]
                                   ELSE IF t \in s.progress THEN "ready" ELSE "failed"],
        !.verdict = [t \in Tasks |-> IF s.tasks[t] = "completed" THEN s.verdict[t]
                                                                ELSE "none"]]

\* _validate_workflow_graph and _validate_runtime_invariants; schedule() raises
\* where this is false.
Schedulable(s) ==
    /\ \A t \in s.satisfied : s.tasks[t] = "skipped"
    /\ \A t \in Tasks : s.tasks[t] \in {"ready", "running", "completed"} =>
          \A d \in DependsOn(t) : Done(s, d)

\* Mutant: a pass looks at its direct dependencies only.
DoomedDirectly(s, D) ==
    D = {t \in Tasks : s.tasks[t] \in Pending /\ \E d \in DependsOn(t) : Lost(s, d)}

\* The tasks a pass skips: those behind a lost task.  The pass visits the tasks
\* in topological order with the statuses it has planned so far, which makes it
\* the one solution D of this equation.
Doomed(s, D) ==
    D = {t \in Tasks : /\ s.tasks[t] \in Pending
                       /\ \E d \in DependsOn(t) : Lost(s, d) \/ d \in D}

\* Mutant: one dependency that is done is enough.
PlannedEagerly(s, t, D) ==
    IF s.tasks[t] \notin Pending THEN s.tasks[t]
    ELSE IF t \in D THEN "skipped"
    ELSE IF DependsOn(t) = {} \/ \E d \in DependsOn(t) : Done(s, d) THEN "ready"
    ELSE IF s.tasks[t] = "created" THEN "waiting" ELSE s.tasks[t]

\* TaskScheduler._plan_decision
Planned(s, t, D) ==
    IF s.tasks[t] \notin Pending THEN s.tasks[t]
    ELSE IF t \in D THEN "skipped"
    ELSE IF \A d \in DependsOn(t) : Done(s, d) THEN "ready"
    ELSE IF s.tasks[t] = "created" THEN "waiting" ELSE s.tasks[t]

\* The decision as the code takes it, from the statuses planned so far.  Schedule
\* takes Planned; OnePass and PassPlans (WorkflowEngine_proofs) show that it is the
\* same plan, and ScheduleIsOnePass (MCWorkflowEngine) runs the pass.
Decision(s, t, planned) ==
    LET lost(d) == \/ planned[d] = "failed"
                   \/ planned[d] = "skipped" /\ d \notin s.satisfied
        done(d) == \/ planned[d] = "completed"
                   \/ planned[d] = "skipped" /\ d \in s.satisfied
    IN  IF s.tasks[t] \notin Pending THEN s.tasks[t]
        ELSE IF DependsOn(t) = {} THEN "ready"
        ELSE IF \E d \in DependsOn(t) : lost(d) THEN "skipped"
        ELSE IF \A d \in DependsOn(t) : done(d) THEN "ready"
        ELSE IF s.tasks[t] = "created" THEN "waiting" ELSE s.tasks[t]

ReadyTasks(s) == {t \in Tasks : s.tasks[t] = "ready"}
\* TaskScheduler._find_ready_task
NextReady(s) == CHOOSE t \in ReadyTasks(s) :
                    \A u \in ReadyTasks(s) : Position[t] <= Position[u]

\* Mutant: one failed task fails the run, whatever is still open.
ResolvedEarly(s) ==
    IF s.status \in RunTerminal THEN s.status
    ELSE IF \E t \in Tasks : s.tasks[t] = "failed" THEN "failed"
    ELSE IF AllTerminal(s) THEN "completed" ELSE s.status

\* WorkflowCompletionPolicy.resolve, for a run that is not terminal
Resolved(s) ==
    IF s.status \in RunTerminal \/ ~AllTerminal(s) THEN s.status
    ELSE IF \E t \in Tasks : s.tasks[t] = "failed" THEN "failed" ELSE "completed"

\* H3ReviewBranchController: _satisfied_skip, _block_finalization, _fail_run
Excused == With({"revision", "review_2"})
Excusable(s) == \A t \in Excused : s.tasks[t] \in Pending \cup {"skipped"}
\* Mutant: the tasks are recorded as satisfied and not skipped.
ExcuseUnskipped(s) == [s EXCEPT !.satisfied = @ \cup Excused]
Excuse(s) == [Skipped(s, Excused) EXCEPT !.satisfied = @ \cup Excused]
Blocked(s) == PendingIn(s, With({"finalization"}))
FailRun(s) == [s EXCEPT !.status = IF @ = "running" THEN "failed" ELSE @]

\* _round_one and _round_two
BranchApplies(s, round, v) == round = "review_1" /\ v = "approve" => Excusable(s)
Branched(s, round, v) ==
    CASE round = "review" -> s
      [] round = "review_1" /\ v = "approve" -> Excuse(s)
      [] round = "review_1" /\ v = "revise" -> s
      [] round = "review_2" /\ v = "approve" -> s
      [] OTHER -> FailRun(Skipped(s, Blocked(s)))

\* reconcile: the last decided round is applied again.
DecidedIn(s, round) == {t \in With({round}) : s.verdict[t] # "none"}
LastRound(s) ==
    IF DecidedIn(s, "review_2") # {} THEN DecidedIn(s, "review_2") ELSE DecidedIn(s, "review_1")
Reconcilable(s) ==
    \A t \in LastRound(s) : BranchApplies(s, template.role[t], s.verdict[t])
Reconciled(s) ==
    IF LastRound(s) = {} THEN s
    ELSE LET t == CHOOSE t \in LastRound(s) : TRUE
         IN  Branched(s, template.role[t], s.verdict[t])
--------------------------------------------------------------------------------
(***************************************************************************)
(* execute_claimed_run: load, recover, start.                              *)
(***************************************************************************)
Claim ==
    /\ pc = "idle" /\ row.status \in {"created", "running"}
    /\ mem' = Recovered(row)
    /\ pc' = IF \E t \in Tasks : row.tasks[t] = "running" /\ t \notin row.progress
             THEN "recovering" ELSE "starting"
    /\ UNCHANGED <<template, row, current, changed, faults, resumes>>

\* on_task_finished for the interrupted task
SaveRecovery ==
    /\ pc = "recovering"
    /\ pc' = "starting"
    /\ row' = mem
    /\ UNCHANGED <<template, mem, current, changed, faults, resumes>>

\* _ensure_running, reconcile and on_workflow_started
Start ==
    /\ pc = "starting"
    /\ LET s == [mem EXCEPT !.status = "running"]
       IN  IF Reconcilable(s)
           THEN mem' = Reconciled(s) /\ Save /\ pc' = "scheduling"
                /\ UNCHANGED <<current, changed>>
           ELSE UNCHANGED row /\ Forget
    /\ UNCHANGED <<template, faults, resumes>>
--------------------------------------------------------------------------------
(***************************************************************************)
(* The loop of WorkflowEngine.run.                                         *)
(***************************************************************************)
Schedule ==
    /\ pc = "scheduling"
    /\ IF Schedulable(mem)
       THEN /\ \E D \in SUBSET Tasks :
                /\ Doomed(mem, D)
                /\ mem' = [mem EXCEPT !.tasks = [t \in Tasks |-> Planned(mem, t, D)]]
            /\ changed' = (mem'.tasks # mem.tasks)
            /\ row' = IF mem'.tasks # mem.tasks THEN mem' ELSE row
            /\ pc' = "dispatching"
            /\ UNCHANGED current
       ELSE UNCHANGED row /\ Forget
    /\ UNCHANGED <<template, faults, resumes>>

StartedMem(t) == [mem EXCEPT !.tasks[t] = "running"]

\* Mutant: the context keeps no current task.
StartUntracked ==
    /\ pc = "dispatching" /\ ReadyTasks(mem) # {}
    /\ mem' = StartedMem(NextReady(mem)) /\ Save
    /\ pc' = "executing"
    /\ UNCHANGED <<template, current, changed, faults, resumes>>

\* TaskLifecycleManager.start, on_task_running
StartTask ==
    /\ pc = "dispatching" /\ ReadyTasks(mem) # {}
    /\ mem' = StartedMem(NextReady(mem)) /\ Save
    /\ current' = NextReady(mem)
    /\ pc' = "executing"
    /\ UNCHANGED <<template, changed, faults, resumes>>

\* The executor is unknown, or on_task_running failed: the exception leaves the
\* task RUNNING, on_task_finished(error) saves it so, and the loop goes on.
AbandonTask ==
    /\ pc = "dispatching" /\ ReadyTasks(mem) # {}
    /\ faults < MaxFaults
    /\ mem' = StartedMem(NextReady(mem)) /\ Save
    /\ pc' = "scheduling"
    /\ faults' = faults + 1
    /\ UNCHANGED <<template, current, changed, resumes>>

\* should_stop_iteration: no task is ready and the pass changed nothing, or all
\* are terminal; otherwise one more pass.
NothingReady ==
    /\ pc = "dispatching" /\ ReadyTasks(mem) = {}
    /\ pc' = IF changed /\ ~AllTerminal(mem) THEN "scheduling" ELSE "finalizing"
    /\ UNCHANGED <<template, row, mem, current, changed, faults, resumes>>

\* _finalize_workflow_status and on_workflow_finalized
Finalize ==
    /\ pc = "finalizing"
    /\ row' = [mem EXCEPT !.status = Resolved(mem)]
    /\ Forget
    /\ UNCHANGED <<template, faults, resumes>>
--------------------------------------------------------------------------------
(***************************************************************************)
(* The executor runs the current task.  Each outcome ends with             *)
(* on_task_finished, which saves the whole run.                            *)
(***************************************************************************)
Executing(roles) == pc = "executing" /\ template.role[current] \in roles

Finished(s, status) ==
    /\ mem' = [s EXCEPT !.tasks[current] = status] /\ Save
    /\ pc' = "scheduling"
    /\ current' = NoTask
    /\ UNCHANGED <<template, changed, faults, resumes>>

\* on_task_progress, called by the executors that checkpoint on the way
Checkpoint ==
    /\ Executing({"search", "acquisition", "readiness", "analysis", "boundary"})
    /\ mem' = [mem EXCEPT !.progress = @ \cup {current}] /\ Save
    /\ UNCHANGED <<template, pc, current, changed, faults, resumes>>

\* DeskAdapter.finish: the acquisition applies the gate and checkpoints the result
\* while its own task is still RUNNING.
GateCheckpoint ==
    /\ Executing({"acquisition"})
    /\ mem' = [FoundInsufficient(mem) EXCEPT !.progress = @ \cup {current}] /\ Save
    /\ UNCHANGED <<template, pc, current, changed, faults, resumes>>

\* A stage raises unless the acquisition has left its stop reason.
TaskCompletes ==
    /\ Executing({"search", "stage", "report", "boundary"})
    /\ template.role[current] = "stage" =>
          \A t \in With({"acquisition"}) : mem.tasks[t] = "completed"
    /\ Finished(mem, "completed")

\* ResearchReadinessGate.apply_analysis_gate: `ready` is result.analysis_ready.  An
\* acquisition that is executed again after its GateCheckpoint finds what it found:
\* nothing is pending downstream, and either choice leaves the outcome as it is.
ReadinessAssessed ==
    /\ Executing({"readiness", "acquisition"})
    /\ \E ready \in BOOLEAN :
        Finished(IF ready THEN mem ELSE FoundInsufficient(mem), "completed")

\* _apply_post_analysis_outcome, skip_definition_ids
AnalysisCompletes ==
    /\ Executing({"analysis"})
    /\ \E defensible \in BOOLEAN :
        Finished(IF defensible THEN mem ELSE FoundInsufficient(mem), "completed")

\* ReviewExecutor
ReviewDecides ==
    /\ Executing({"review", "review_1", "review_2"})
    /\ \E v \in Verdict :
        /\ BranchApplies(mem, template.role[current], v)
        /\ Finished(Branched([mem EXCEPT !.verdict[current] = v],
                             template.role[current], v), "completed")

\* RevisionExecutor revises only what review_1 asked to revise.
ReportRevised ==
    /\ Executing({"revision"})
    /\ \E t \in With({"review_1"}) : mem.verdict[t] = "revise"
    /\ Finished(mem, "completed")

\* FinalizationExecutor
Finalized ==
    /\ Executing({"finalization"}) /\ Approved(mem)
    /\ Finished(mem, "completed")

\* The task waits for the presentation worker, or for an authorization.
TaskPauses ==
    /\ Executing({"finalization", "boundary"}) /\ mem.status = "running"
    /\ template.role[current] = "finalization" => Approved(mem)
    /\ mem' = [mem EXCEPT !.tasks[current] = "paused", !.status = "paused",
                          !.progress = @ \cup {current}]
    /\ Save
    /\ pc' = "finalizing"
    /\ current' = NoTask
    /\ UNCHANGED <<template, changed, faults, resumes>>

TaskFails == Executing(Roles) /\ Finished(mem, "failed")
--------------------------------------------------------------------------------
(***************************************************************************)
(* Writers of a paused run, and crashes.                                   *)
(***************************************************************************)
PausedTasks == {t \in Tasks : row.tasks[t] = "paused"}

\* Mutant: the run is resumed without its task.
ResumeRunOnly ==
    /\ pc = "idle" /\ row.status = "paused"
    /\ resumes < MaxResumes /\ resumes' = resumes + 1
    /\ Cardinality(PausedTasks) = 1
    /\ PausedTasks \cap With({"boundary"}) # {}
    /\ row' = [row EXCEPT !.status = "running"]
    /\ Forget
    /\ UNCHANGED <<template, faults>>

\* resume_paused_task
ResumeTask ==
    /\ pc = "idle" /\ row.status = "paused"
    /\ resumes < MaxResumes /\ resumes' = resumes + 1
    /\ Cardinality(PausedTasks) = 1
    /\ \E t \in PausedTasks \cap With({"boundary"}) :
        row' = [row EXCEPT !.tasks[t] = "ready", !.status = "running"]
    /\ Forget
    /\ UNCHANGED <<template, faults>>

\* ProjectDeliverablesService._settle_structured_workflow
SettlePaused ==
    /\ pc = "idle" /\ row.status = "paused"
    /\ Cardinality(PausedTasks) = 1
    /\ \E t \in PausedTasks \cap With({"finalization"}), outcome \in RunTerminal :
        row' = [row EXCEPT !.tasks[t] = outcome, !.status = outcome]
    /\ Forget
    /\ UNCHANGED <<template, faults, resumes>>

\* The process dies, or a checkpoint that nothing catches fails.
Crash ==
    /\ pc # "idle" /\ faults < MaxFaults
    /\ faults' = faults + 1
    /\ UNCHANGED row /\ Forget
    /\ UNCHANGED <<template, resumes>>

Engine ==
    \/ Claim \/ SaveRecovery \/ Start \/ Schedule \/ StartTask \/ NothingReady \/ Finalize
    \/ TaskCompletes \/ ReadinessAssessed \/ AnalysisCompletes \/ ReviewDecides
    \/ ReportRevised \/ Finalized \/ TaskPauses \/ TaskFails

Next == \/ Engine \/ AbandonTask \/ Checkpoint \/ GateCheckpoint
        \/ ResumeTask \/ SettlePaused \/ Crash

Spec == Init /\ [][Next]_vars
FairSpec == Spec /\ WF_vars(Engine)
--------------------------------------------------------------------------------
(***************************************************************************)
(* Properties.                                                             *)
(***************************************************************************)
TypeOK ==
    /\ template \in Templates
    /\ row \in WorkflowState /\ mem \in WorkflowState
    /\ pc \in Pc
    /\ current \in Tasks \cup {NoTask} /\ (pc = "executing" => current \in Tasks)
    /\ changed \in BOOLEAN
    /\ faults \in 0..MaxFaults /\ resumes \in 0..MaxResumes

\* Neither the scheduler's checks nor the H3 branch ever raises on what a crash,
\* a recovery or a resumption left in the row: a run that did would be claimed
\* and given up again for ever.
EngineNeverRaises ==
    /\ pc = "scheduling" => Schedulable(mem)
    /\ pc = "starting" => Reconcilable(mem)

\* A run is PAUSED exactly when one task is, and that task waits for somebody:
\* resume_paused_task and the presentation worker refuse any other run, and no
\* worker claims a paused one.
PausedAtOneBoundary ==
    IF row.status = "paused"
    THEN \E t \in With({"boundary", "finalization"}) : PausedTasks = {t}
    ELSE PausedTasks = {}

\* Nothing is delivered that was not earned, whatever was recovered in between:
\* under the H3 contract the finalization is not even READY without an approval,
\* and once the research was found insufficient nothing is written from it.
DeliveryIsEarned ==
    LET opened(t) == row.tasks[t] \in {"ready", "running", "paused", "completed"}
    IN  /\ With({"review"}) = {} =>
              \A t \in With({"finalization"}) : opened(t) => Approved(row)
        /\ row.insufficient => \A t \in With(DownstreamRoles \ {"analysis"}) : ~opened(t)

\* A completed run delivered, or says that the research was insufficient; a
\* failed one has a failed task or was turned down in review.  When nobody works
\* on a finished run it has no open task, except after a rejection in the first
\* round: the branch fails the run inside the review task, and if the worker
\* dies before the revision is refused nobody claims the run again.
OutcomeIsEarned ==
    /\ row.status = "completed" =>
          \A t \in With({"finalization"}) : row.tasks[t] = "completed" \/ row.insufficient
    /\ row.status = "failed" =>
          \/ \E t \in Tasks : row.tasks[t] = "failed"
          \/ \E t \in Tasks : row.verdict[t] = "reject"
          \/ \E t \in With({"review_2"}) : row.verdict[t] = "revise"
    /\ pc = "idle" /\ row.status \in RunTerminal =>
          AllTerminal(row) \/ \E t \in With({"review_1"}) : row.verdict[t] = "reject"

\* A run that may be claimed settles or pauses, whatever crashes, is abandoned
\* or cannot be resolved on the way.
RunSettles ==
    row.status \in {"created", "running"} ~> row.status \in RunTerminal \cup {"paused"}
--------------------------------------------------------------------------------
(***************************************************************************)
(* The row implements TaskGraph.                                           *)
(***************************************************************************)
PhaseOf(t) ==
    CASE row.tasks[t] \in {"created", "waiting"} -> "pending"
      [] row.tasks[t] \in {"ready", "running", "paused"} -> "open"
      [] row.tasks[t] = "completed" -> "done"
      [] row.tasks[t] = "failed" -> "failed"
      [] row.tasks[t] = "skipped" -> IF t \in row.satisfied THEN "excused" ELSE "skipped"

Graph == INSTANCE TaskGraph WITH
    deps <- template.deps,
    phase <- [t \in Tasks |-> PhaseOf(t)],
    verdict <- IF row.status \in RunTerminal THEN row.status ELSE "none"

\* Whatever crashes, tasks open in dependency order and settle once, and a run
\* reported completed has settled them all and stays as it is.
GraphKept == Graph!Spec
===============================================================================
