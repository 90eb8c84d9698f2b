--------------------------- MODULE QuantitativeStudy ---------------------------
(***************************************************************************)
(* A weighted, dataset-only Quantitative study on the durable backend: the *)
(* study projection its operators prepare, the run they activate, the      *)
(* worker that executes the stages, the authorization of the paid semantic *)
(* pipeline, and the rearming of a failed run.                             *)
(*                                                                         *)
(* The projection and the run are stored apart.  An operation of the UI    *)
(* reads the projection once and replaces it as a whole at its end; of the *)
(* run it checks what it read, and only some writes check a version.  A    *)
(* version is modelled by what it is compared for: `current` holds those   *)
(* that will write a run they have read, and nobody has written since.     *)
(***************************************************************************)
EXTENDS Naturals, FiniteSets

CONSTANTS
    Operators, Worker,
    MaxDatasets,   \* bound on the dataset versions uploaded or cleaned
    MaxAccidents   \* bound on the writes of the run out of order; no set-up
                   \* operation begins after the last, nor after the authorization

ASSUME OperatorsAssumption == Worker \notin Operators
ASSUME BoundsAssumption == MaxDatasets \in Nat \ {0} /\ MaxAccidents \in Nat

None == 0
Datasets == 1..MaxDatasets
\* A QC run, a weight set and their approvals are about one dataset version.
Approval == [of : Datasets, approved : BOOLEAN]
NoApproval == [of |-> None, approved |-> FALSE]

StudyState == {"WAITING_FOR_DATASET", "IMPORTED", "AWAITING_QC_APPROVAL",
               "WEIGHTING_REQUIRED", "AWAITING_WEIGHT_APPROVAL", "READY_TO_ANALYZE",
               "ANALYZING", "COMPLETED", "FAILED"}
Study == [state : StudyState, dataset : Datasets \cup {None}, qc : Datasets \cup {None},
          qcApproval : Approval \cup {NoApproval}, weights : Datasets \cup {None},
          weightApproval : Approval \cup {NoApproval}]

\* The safe state an activation hands to the stages, the authorities of a study,
\* and whether the analysis has added its manifest.
Safe == [dataset : Datasets, qc : Datasets, qcApproval : Approval,
         weights : Datasets, weightApproval : Approval, manifest : BOOLEAN]
NoSafe == [dataset |-> None, manifest |-> FALSE]

\* The task results: the safe state that the tasks' snapshots add up to, the one an
\* activation has stored beside them, and the snapshot of the task that paused.
Results == [safe : Safe \cup {NoSafe}, bound : BOOLEAN, pause : BOOLEAN]
NoResults == [safe |-> NoSafe, bound |-> FALSE, pause |-> FALSE]

\* The next stage of the run; "setup" stands for the five that an activation
\* completes, "report" for those after the Findings.
Stage == {"setup", "quant_weight_approval", "quant_analysis", "quant_findings",
          "report", "over"}
\* `begun`: the next stage's task is RUNNING.  `boundary`: quant_findings is PAUSED.
Run == [status : {"paused", "running", "completed", "failed"}, stage : Stage,
        begun : BOOLEAN, boundary : BOOLEAN, results : Results]

Pc == {"idle", "editing", "checked", "binding", "bound", "activating", "activated",
       "granted", "resuming", "resumed", "rearm", "rearming", "rearmed"}
WorkerPc == {"idle", "loading", "between", "executing", "paying"}

VARIABLES
    study, run,
    current,      \* whose copy of the run is the stored one
    pc, seen,     \* operator -> the study its operation will save
    held,         \* operator -> the run its operation read and will write
    wpc, mem,     \* the worker and its copy of the run
    grants,       \* the authorities the semantic pipeline was authorized for
    consumed,     \* the authorization was consumed
    paid,         \* dispatches of the paid pipeline
    analysed,     \* an analysis manifest is stored
    rearmEvent,
    accidents     \* history: the writes over a newer row, and the activations
                  \* out of the pause of a task

vars == <<study, run, current, pc, seen, held, wpc, mem, grants, consumed, paid,
          analysed, rearmEvent, accidents>>
operatorVars == <<pc, seen, held>>
workerVars == <<wpc, mem>>
semanticVars == <<grants, consumed, paid, analysed>>

NewStudy == [state |-> "WAITING_FOR_DATASET", dataset |-> None, qc |-> None,
             qcApproval |-> NoApproval, weights |-> None, weightApproval |-> NoApproval]
NewRun == [status |-> "paused", stage |-> "setup", begun |-> FALSE, boundary |-> FALSE,
           results |-> NoResults]

Init ==
    /\ study = NewStudy /\ run = NewRun /\ current = {}
    /\ pc = [o \in Operators |-> "idle"]
    /\ seen = [o \in Operators |-> NewStudy]
    /\ held = [o \in Operators |-> NewRun]
    /\ wpc = "idle" /\ mem = NewRun
    /\ grants = {} /\ consumed = FALSE /\ paid = 0 /\ analysed = FALSE
    /\ rearmEvent = FALSE /\ accidents = 0

\* A run row is written; every copy but those of the writers is out of date.
WriteRun(r, writers) == run' = r /\ current' = writers
\* What an operation keeps is forgotten when it ends.
Return(o) ==
    /\ pc' = [pc EXCEPT ![o] = "idle"]
    /\ seen' = [seen EXCEPT ![o] = NewStudy]
    /\ held' = [held EXCEPT ![o] = NewRun]
Goto(o, label) == pc' = [pc EXCEPT ![o] = label] /\ UNCHANGED <<seen, held>>
\* The run is read, to be written later: whoever writes it in between is not seen.
Load(o, label) ==
    /\ pc' = [pc EXCEPT ![o] = label] /\ held' = [held EXCEPT ![o] = run]
    /\ current' = current \cup {o}
\* The run is written: the version is read just before, and refuses nothing.
Happens(accident) ==
    /\ accident => accidents < MaxAccidents
    /\ accidents' = IF accident THEN accidents + 1 ELSE accidents
Store(o, r, label) ==
    /\ WriteRun(r, {})
    /\ pc' = [pc EXCEPT ![o] = label] /\ held' = [held EXCEPT ![o] = NewRun]
    /\ UNCHANGED seen
--------------------------------------------------------------------------------
(***************************************************************************)
(* The set-up operations: what each makes of the study it read.            *)
(***************************************************************************)
Uploaded(d) == [NewStudy EXCEPT !.state = "IMPORTED", !.dataset = d]

\* apply_recode_cleaning
Cleaned(s, d) ==
    [NewStudy EXCEPT !.state = "AWAITING_QC_APPROVAL", !.dataset = d, !.qc = d]

QualityControlled(s) ==
    [s EXCEPT !.state = "AWAITING_QC_APPROVAL", !.qc = s.dataset, !.qcApproval = NoApproval]

QcDecided(s, ok) ==
    [s EXCEPT !.state = IF ok THEN "WEIGHTING_REQUIRED" ELSE "FAILED",
              !.qcApproval = [of |-> s.qc, approved |-> ok]]

Weighted(s) ==
    [s EXCEPT !.state = "AWAITING_WEIGHT_APPROVAL", !.weights = s.dataset,
              !.weightApproval = NoApproval]

WeightsDecided(s, ok) ==
    [s EXCEPT !.state = IF ok THEN "READY_TO_ANALYZE" ELSE "FAILED",
              !.weightApproval = [of |-> s.weights, approved |-> ok]]

\* Dataset versions are content addressed; the next one is new.
FreshDataset(s, d) == d \in Datasets /\ d > s.dataset

\* Mutant: the weights of a study without a weight set can be decided.
HasDataset(s) == s.dataset # None

\* approve_weights refuses a study that has no weight set.
HasWeights(s) == s.weights # None

\* upload, apply_recode_cleaning, run_qc, approve_qc, construct_weights and
\* approve_weights, with the states they insist on.
Edited(s) ==
    {Uploaded(d) : d \in {d \in Datasets : FreshDataset(s, d)
                          /\ (s.dataset # None => run.stage = "setup" /\ run.results = NoResults)}}
    \cup {Cleaned(s, d) : d \in {d \in Datasets : FreshDataset(s, d)
                                 /\ s.state = "AWAITING_QC_APPROVAL"}}
    \cup {QualityControlled(t) : t \in {t \in {s} : t.dataset # None}}
    \cup {QcDecided(t, ok) : t \in {t \in {s} : t.qc # None}, ok \in BOOLEAN}
    \cup {Weighted(t) : t \in {t \in {s} : t.state = "WEIGHTING_REQUIRED"}}
    \cup {WeightsDecided(t, ok) : t \in {t \in {s} : HasWeights(t)}, ok \in BOOLEAN}

\* _require_setup_paused: the run is looked at when the operation begins.  The
\* study it will save is decided by the one it read.
Edit(o) ==
    /\ pc[o] = "idle" /\ run.status = "paused"
    /\ accidents < MaxAccidents /\ grants = {}
    /\ \E s \in Edited(study) : seen' = [seen EXCEPT ![o] = s]
    /\ pc' = [pc EXCEPT ![o] = "editing"]
    /\ UNCHANGED <<study, run, current, held, workerVars, semanticVars, rearmEvent, accidents>>

\* _save, last writer wins
SaveEdit(o) ==
    /\ pc[o] = "editing"
    /\ study' = seen[o]
    /\ Return(o)
    /\ UNCHANGED <<run, current, workerVars, semanticVars, rearmEvent, accidents>>
--------------------------------------------------------------------------------
(***************************************************************************)
(* resume_workflow.                                                        *)
(***************************************************************************)
\* Mutant: any approval of the subject will do, a rejection too.
CurrentOfSubject(approval, subject) == subject # None /\ approval.of = subject

\* QuantitativeApprovalService.require_current
Current(approval, subject) ==
    subject # None /\ approval.of = subject /\ approval.approved

SafeOf(s) == [dataset |-> s.dataset, qc |-> s.qc, qcApproval |-> s.qcApproval,
              weights |-> s.weights, weightApproval |-> s.weightApproval,
              manifest |-> FALSE]

\* The checks, and the run as it was loaded for them.
CheckActivation(o) ==
    /\ pc[o] = "idle"
    /\ study.state = "READY_TO_ANALYZE"
    /\ Current(study.qcApproval, study.qc)
    /\ Current(study.weightApproval, study.weights)
    /\ run.status = "paused"
    /\ Load(o, "checked")
    /\ seen' = [seen EXCEPT ![o] = [study EXCEPT !.state = "ANALYZING"]]
    /\ UNCHANGED <<study, run, workerVars, semanticVars, rearmEvent, accidents>>

\* _persist_activation_state reads the task results again
ReadResults(o) ==
    /\ pc[o] = "checked"
    /\ pc' = [pc EXCEPT ![o] = "binding"]
    /\ held' = [held EXCEPT ![o].results = run.results]
    /\ UNCHANGED <<study, run, current, seen, workerVars, semanticVars, rearmEvent, accidents>>

\* and saves the run it was given with the safe state beside the tasks' snapshots.
Bind(o) ==
    /\ pc[o] = "binding"
    /\ Store(o, [held[o] EXCEPT !.results.bound = TRUE], "bound")
    /\ Happens(o \notin current)
    /\ UNCHANGED <<study, workerVars, semanticVars, rearmEvent>>

\* Mutant: the run is activated whatever has become of it.
LoadAny(o) ==
    /\ pc[o] = "bound"
    /\ Load(o, "activating")
    /\ UNCHANGED <<study, run, seen, workerVars, semanticVars, rearmEvent, accidents>>

\* activate_paused_run insists on a pause
LoadPaused(o) ==
    /\ pc[o] = "bound" /\ run.status = "paused"
    /\ Load(o, "activating")
    /\ UNCHANGED <<study, run, seen, workerVars, semanticVars, rearmEvent, accidents>>

\* and saves what it has made of the run it loaded.  The set-up tasks that are still
\* open are completed, and their results replace all the results of the run; after
\* the set-up there is none to complete and none is left.
Activate(o) ==
    /\ pc[o] = "activating"
    /\ Store(o, IF held[o].stage = "setup"
                THEN [held[o] EXCEPT !.status = "running", !.stage = "quant_weight_approval",
                                     !.results = [NoResults EXCEPT !.safe = SafeOf(seen[o])]]
                ELSE [held[o] EXCEPT !.status = "running", !.results = NoResults],
             "activated")
    /\ Happens(o \notin current \/ held[o].boundary)
    /\ UNCHANGED <<study, workerVars, semanticVars, rearmEvent>>

\* The run is RUNNING already, and the operation raises.
ActivationRefused(o) ==
    /\ pc[o] = "bound" /\ run.status = "running"
    /\ Return(o)
    /\ UNCHANGED <<study, run, current, workerVars, semanticVars, rearmEvent, accidents>>

\* A terminal run is returned as it is; either way the study is analyzing.
SaveAnalyzing(o) ==
    /\ \/ pc[o] \in {"activated", "resumed"}
       \/ pc[o] = "bound" /\ run.status \in {"completed", "failed"}
    /\ study' = seen[o]
    /\ Return(o)
    /\ UNCHANGED <<run, current, workerVars, semanticVars, rearmEvent, accidents>>
--------------------------------------------------------------------------------
(***************************************************************************)
(* authorize_semantic_execution, for the authority the operator was shown. *)
(***************************************************************************)
\* grant_semantic_pipeline, for the snapshot of the paused task: there is one grant
\* for a run, and no other.
Grant(o) ==
    /\ pc[o] = "idle"
    /\ run.status = "paused" /\ run.boundary /\ run.results.pause
    /\ grants \subseteq {run.results.safe}
    /\ grants' = {run.results.safe}
    /\ pc' = [pc EXCEPT ![o] = "granted"]
    /\ seen' = [seen EXCEPT ![o] = [study EXCEPT !.state = "ANALYZING"]]
    /\ UNCHANGED <<study, run, current, held, workerVars, consumed, paid, analysed,
                   rearmEvent, accidents>>

\* resume_paused_task insists on the pause
LoadBoundary(o) ==
    /\ pc[o] = "granted"
    /\ IF run.status = "paused" /\ run.boundary
       THEN Load(o, "resuming") /\ UNCHANGED seen
       ELSE UNCHANGED current /\ Return(o)
    /\ UNCHANGED <<study, run, workerVars, semanticVars, rearmEvent, accidents>>

\* and saves the run it loaded, with the task results as they are now.
ResumePausedTask(o) ==
    /\ pc[o] = "resuming"
    /\ Store(o, [held[o] EXCEPT !.status = "running", !.boundary = FALSE,
                                !.results = run.results], "resumed")
    /\ Happens(o \notin current)
    /\ UNCHANGED <<study, workerVars, semanticVars, rearmEvent>>
--------------------------------------------------------------------------------
(***************************************************************************)
(* rearm_failed_run: before anything was analysed, and once.  It writes    *)
(* the run, then the event, then the study.                                *)
(***************************************************************************)
CheckRearm(o) ==
    /\ pc[o] = "idle"
    /\ run.status = "failed" /\ ~rearmEvent /\ ~analysed
    /\ pc' = [pc EXCEPT ![o] = "rearm"]
    /\ seen' = [seen EXCEPT ![o] =
                    IF study.dataset = None THEN NewStudy ELSE Uploaded(study.dataset)]
    /\ current' = current \cup {o}
    /\ UNCHANGED <<study, run, held, workerVars, semanticVars, rearmEvent, accidents>>

\* Here too the version is read just before the write.
Rearm(o) ==
    /\ pc[o] = "rearm"
    /\ Store(o, NewRun, "rearming")
    /\ Happens(o \notin current)
    /\ UNCHANGED <<study, workerVars, semanticVars, rearmEvent>>

\* There is one event for a run, and persisting another raises.
RecordRearm(o) ==
    /\ pc[o] = "rearming" /\ ~rearmEvent
    /\ rearmEvent' = TRUE
    /\ Goto(o, "rearmed")
    /\ UNCHANGED <<study, run, current, workerVars, semanticVars, accidents>>

SaveRearmed(o) ==
    /\ pc[o] = "rearmed"
    /\ study' = seen[o]
    /\ Return(o)
    /\ UNCHANGED <<run, current, workerVars, semanticVars, rearmEvent, accidents>>

\* get: a completed run completes the study that is shown and used.
Complete ==
    /\ run.status = "completed" /\ study.state # "COMPLETED"
    /\ study' = [study EXCEPT !.state = "COMPLETED"]
    /\ UNCHANGED <<run, current, operatorVars, workerVars, semanticVars, rearmEvent, accidents>>

\* An operation raises or its process dies between two of its writes.
Interrupt(o) ==
    /\ pc[o] # "idle"
    /\ Return(o)
    /\ current' = current \ {o}
    /\ UNCHANGED <<study, run, workerVars, semanticVars, rearmEvent, accidents>>
--------------------------------------------------------------------------------
(***************************************************************************)
(* The worker: each stage is begun and finished by a checkpoint.           *)
(***************************************************************************)
Idle == wpc' = "idle" /\ mem' = NewRun

\* A checkpoint of a copy that is out of date is refused and the worker leaves.
Checkpoint(m, label) ==
    IF Worker \in current
    THEN WriteRun(m, IF label = "idle" THEN {} ELSE {Worker})
         /\ wpc' = label /\ mem' = IF label = "idle" THEN NewRun ELSE m
    ELSE UNCHANGED <<run, current>> /\ Idle

\* The claim of the run, which is read first and its version after.
LoadRun ==
    /\ wpc = "idle" /\ run.status = "running" /\ ~run.boundary
    /\ mem' = run /\ wpc' = "loading"
    /\ UNCHANGED <<study, run, current, operatorVars, semanticVars, rearmEvent, accidents>>

\* A task that was RUNNING was interrupted; what it paused with counts as progress.
Recoverable(r) == r.begun => r.stage = "quant_findings" /\ r.results.pause

ReadVersion ==
    /\ wpc = "loading" /\ Recoverable(mem)
    /\ mem' = [mem EXCEPT !.begun = FALSE] /\ wpc' = "between"
    /\ current' = current \cup {Worker}
    /\ UNCHANGED <<study, run, operatorVars, semanticVars, rearmEvent, accidents>>

FailInterrupted ==
    /\ wpc = "loading" /\ ~Recoverable(mem)
    /\ WriteRun([mem EXCEPT !.status = "failed", !.begun = FALSE], {})
    /\ Idle
    /\ UNCHANGED <<study, operatorVars, semanticVars, rearmEvent, accidents>>

\* A RUNNING run with a PAUSED task has no task that is ready; it is written as it is.
FindNothing ==
    /\ wpc = "idle" /\ run.status = "running" /\ run.boundary
    /\ WriteRun(run, {})
    /\ UNCHANGED <<study, operatorVars, workerVars, semanticVars, rearmEvent, accidents>>

BeginStage ==
    /\ wpc = "between" /\ mem.stage # "over"
    /\ Checkpoint([mem EXCEPT !.begun = TRUE], "executing")
    /\ UNCHANGED <<study, operatorVars, semanticVars, rearmEvent, accidents>>

Finish(results, stage) ==
    Checkpoint([mem EXCEPT !.begun = FALSE, !.stage = stage, !.results = results,
                           !.status = IF stage = "over" THEN "completed" ELSE @],
               IF stage = "over" THEN "idle" ELSE "between")

ApproveWeights ==
    /\ wpc = "executing" /\ mem.stage = "quant_weight_approval"
    /\ Current(mem.results.safe.weightApproval, mem.results.safe.weights)
    /\ Finish(mem.results, "quant_analysis")
    /\ UNCHANGED <<study, operatorVars, semanticVars, rearmEvent, accidents>>

\* The manifest is stored before the checkpoint.
Analyse ==
    /\ wpc = "executing" /\ mem.stage = "quant_analysis"
    /\ Current(mem.results.safe.qcApproval, mem.results.safe.qc)
    /\ Current(mem.results.safe.weightApproval, mem.results.safe.weights)
    /\ analysed' = TRUE
    /\ Finish([mem.results EXCEPT !.safe.manifest = TRUE], "quant_findings")
    /\ UNCHANGED <<study, operatorVars, grants, consumed, paid, rearmEvent, accidents>>

\* require_semantic_pipeline without a matching grant
PauseForGrant ==
    /\ wpc = "executing" /\ mem.stage = "quant_findings" /\ mem.results.safe \notin grants
    /\ Checkpoint([mem EXCEPT !.status = "paused", !.begun = FALSE, !.boundary = TRUE,
                              !.results.pause = TRUE], "idle")
    /\ UNCHANGED <<study, operatorVars, semanticVars, rearmEvent, accidents>>

\* require_and_consume_semantic_pipeline, immediately before the dispatch; the
\* results of the analysis were loaded before
Consume ==
    /\ wpc = "executing" /\ mem.stage = "quant_findings" /\ mem.results.safe \in grants
    /\ mem.results.safe.manifest /\ ~consumed
    /\ consumed' = TRUE /\ paid' = paid + 1
    /\ wpc' = "paying"
    /\ UNCHANGED <<study, run, current, operatorVars, mem, grants, analysed, rearmEvent,
                   accidents>>

FindingsGenerated ==
    /\ wpc = "paying"
    /\ Finish(mem.results, "report")
    /\ UNCHANGED <<study, operatorVars, semanticVars, rearmEvent, accidents>>

Report ==
    /\ wpc = "executing" /\ mem.stage = "report"
    /\ Finish(mem.results, "over")
    /\ UNCHANGED <<study, operatorVars, semanticVars, rearmEvent, accidents>>

\* A stage raises, as it does for an approval or an authorization in its way.
StageFails ==
    /\ wpc \in {"executing", "paying"}
    /\ Checkpoint([mem EXCEPT !.status = "failed", !.begun = FALSE], "idle")
    /\ UNCHANGED <<study, operatorVars, semanticVars, rearmEvent, accidents>>

WorkerDies ==
    /\ wpc # "idle"
    /\ Idle
    /\ current' = current \ {Worker}
    /\ UNCHANGED <<study, run, operatorVars, semanticVars, rearmEvent, accidents>>

Operate(o) ==
    \/ Edit(o) \/ SaveEdit(o)
    \/ CheckActivation(o) \/ ReadResults(o) \/ Bind(o) \/ LoadPaused(o) \/ Activate(o)
    \/ ActivationRefused(o) \/ SaveAnalyzing(o)
    \/ Grant(o) \/ LoadBoundary(o) \/ ResumePausedTask(o)
    \/ CheckRearm(o) \/ Rearm(o) \/ RecordRearm(o) \/ SaveRearmed(o) \/ Interrupt(o)

Work ==
    \/ LoadRun \/ ReadVersion \/ FailInterrupted \/ FindNothing
    \/ BeginStage \/ ApproveWeights \/ Analyse \/ PauseForGrant \/ Consume \/ FindingsGenerated
    \/ Report \/ StageFails \/ WorkerDies

Next == (\E o \in Operators : Operate(o)) \/ Work \/ Complete

Spec == Init /\ [][Next]_vars
--------------------------------------------------------------------------------
(***************************************************************************)
(* Properties.                                                             *)
(***************************************************************************)
TypeOK ==
    /\ study \in Study /\ run \in Run /\ mem \in Run
    /\ current \subseteq Operators \cup {Worker}
    /\ pc \in [Operators -> Pc] /\ wpc \in WorkerPc
    /\ seen \in [Operators -> Study] /\ held \in [Operators -> Run]
    /\ grants \subseteq Safe \cup {NoSafe}
    /\ {consumed, analysed, rearmEvent} \subseteq BOOLEAN
    /\ paid \in Nat
    /\ accidents \in 0..MaxAccidents

Authorized(safe) ==
    /\ safe.qc = safe.dataset /\ safe.weights = safe.dataset
    /\ safe.qcApproval = [of |-> safe.dataset, approved |-> TRUE]
    /\ safe.weightApproval = [of |-> safe.dataset, approved |-> TRUE]

\* Whatever is edited, activated, resumed and rearmed at the same time, and whatever
\* is overwritten by it, the stages work on one dataset version with the approved QC
\* and the approved weights of that same version (the Findings may find nothing, and
\* fail or pause); the paid pipeline is dispatched once at most, for the authority that
\* was granted; and a run that is past its Findings was paid for under its own.
AnalysisIsAuthorized ==
    /\ wpc # "idle" =>
          \/ mem.results.safe # NoSafe /\ Authorized(mem.results.safe)
          \/ mem.results.safe = NoSafe /\ mem.stage = "quant_findings"
    /\ paid <= 1
    /\ wpc = "paying" => mem.results.safe.manifest /\ grants = {mem.results.safe}
    /\ run.stage \in {"report", "over"} => paid = 1 /\ grants = {run.results.safe}

\* A RUNNING run has no PAUSED task, and its stages find their safe state.
Steady(r) == r.status = "running" => ~r.boundary /\ r.results.safe # NoSafe

\* A completed run is changed by a write that goes over a newer row only: an operator's
\* save of a copy read before the run was completed.  And as long as there was no such
\* write, by a binding, an activation, a resumption or a rearming, and no activation
\* out of the semantic pause, a RUNNING run is steady.
RunIsKept ==
    [][/\ run.status = "completed" /\ run' # run => accidents' > accidents
       /\ accidents' = 0 => Steady(run')]_vars
===============================================================================
