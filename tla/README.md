# Verification of AI_RESEARCH_OS

TLA+ models of the durable core of AI_RESEARCH_OS, the TLC configurations that
check them on small instances, and theorems proved with TLAPS.  Source paths are
relative to the repository (`src/` in PROJECT.json).

## 1. The system

AI_RESEARCH_OS runs research projects as *WorkflowRuns*: a graph of tasks (plan,
search, analysis, report, review, finalization, ...) whose executors call LLM,
search and rendering providers.  A run is one row of PostgreSQL.  The API
creates and changes runs; background workers claim them, execute their tasks and
checkpoint every step, so that another worker can go on after a crash.

### Components

| component | state | operations | interacts with |
|---|---|---|---|
| Run persistence and claims (`infrastructure/persistence/postgresql`) | `workflow_runs` row: status, tasks, task_results, `version`, lease columns | create, save (optimistic version check), claim, renew, release, delete | everything below |
| Worker loop and heartbeat (`worker/`, `application/services/worker_execution_service.py`, `application/execution/heartbeat.py`) | the claimed run, a heartbeat thread, the LeaseGuard both share | poll, claim, execute, renew, observe loss, release | claims; durable workflow service |
| Durable workflow service, persister, recovery (`application/services/durable_workflow_service.py`, `application/runtime/`) | an in-memory copy of the run, the expected version, the last fingerprint | load, recover interrupted tasks, checkpoint, activate, resume | run row; engine |
| Workflow engine, scheduler, task executor, completion policy (`application/workflow_engine.py`, `task_scheduler.py`, `task_executor.py`, `domain/runtime/`) | task and run statuses, dependency graph | schedule, pick, execute, finalize | persister hooks; executors |
| Research kernel (`application/research_kernel/`, PostgreSQL kernel state store) | ledger of decisions, reservations and outcomes in a reserved key of task_results, a fence token | load, decide, reserve, authorize, dispatch, consume, stop | lease columns of the run; method adapters |
| Execution budget (`application/execution/execution_budget.py`) | counters of one execution | consume, stop | executors |
| Research submission (`application/services/research_submission_service.py`) | idempotency records | claim key, create project and run, complete, roll back | claims |
| Deliverables and presentation jobs (`application/deliverables/`) | jobs with their own lease, artifacts | enqueue, claim, render, retry, settle the run | run row |
| Quantitative studies (`application/quantitative/`, `application/methods/quantitative/`) | the study projection, approvals, the semantic authorization, the run | upload, QC, weight, approve, activate, authorize, rearm, execute the stages | PAUSED runs, claims |
| Qualitative studies (`application/qualitative/`) | transcription jobs, coding jobs | enqueue, claim, approve | own tables |
| Research quality loop (`application/research_quality/`) | loop state in the task result, assessments, stored evidence | assess, search one gap, record, stop | executor of one task; targeted search |
| Review and repair branch (`application/review/`) | review verdicts, H3 branch | review, rework, fail | engine |
| Authority extension (`application/authority_extension/`) | the ledger of an extension in task_results, its status, the composed authority | start, activate, reserve and complete an external attempt, capture, gate, finalize | run row, written under its lock *and* by checkpoints |
| Downstream replay (`application/replay/`) | replay state in task_results | replay | run row |
| Sources, evidence, report, claims, planner (`application/sources`, `evidence`, `report`, `planner`) | per-run records | deterministic transformations around provider calls | executors |
| Identity, projects, operations, queries, API, UI | users, sessions, read models | CRUD | HTTP |

### What is hard

*Concurrency.*  Workers, their heartbeat threads, API requests and the
presentation worker all write the same row; an operation is usually a read in one
transaction, a decision, and a write in another.  *Failure.*  A worker can die
between any two transactions, a checkpoint can fail, a lease can lapse under a
worker that is still running, and the superseded worker goes on until it notices.
*Retries.*  Interrupted tasks, kernel actions and submissions are found half
done.  *Money.*  Provider calls are charged: they must be reserved before they
are made and never made twice.

### What makes each component correct

* Claims and checkpoints: a run changes hands only when free or lapsed; a
  checkpoint never overwrites what somebody else wrote; a finished run stays
  finished; a claimable run is eventually settled.
* Engine and scheduler: a task starts only when its dependencies ended well,
  runs once at a time, every run ends with every task terminal or paused.
* Research kernel: a provider is called only under a durable reservation, no
  action is dispatched twice, the limits hold across crashes, a superseded
  execution writes nothing.
* Review branch: a final report is delivered only after an approval, whatever a
  restart finds half decided.
* Research loop: paid searches are bounded and shared fairly between the needs;
  what the loop concludes is what the evidence shows, not what it once showed.
* Submission: a key creates one run, whatever is retried, and every answer names it.
* Quantitative studies: the stages use the approved version and no other; the
  paid pipeline is dispatched once, under an authorization.
* Authority extension: every external call is in the ledger first, within its
  budgets; an attempt with an unknown outcome stops further ones; success is earned.
* Presentation jobs: one renderer at a time, bounded attempts, the paused run is
  settled exactly once.

## 2. Modules

| module | what it is |
|---|---|
| `RunLease` | abstract specification: what the owner of a run is promised by the lease columns |
| `DurableRun` | claiming, loading, checkpointing, recovery, heartbeat, crashes and API requests |
| `MCDurableRun` | its instances for TLC |
| `DurableRun_proofs` | its theorems |
| `ResearchAccount` | abstract specification: what the research kernel promises about paid work |
| `ResearchKernel` | controller, ledger, fenced store, provider attempts, crashes and superseded executions |
| `MCResearchKernel` | its instances for TLC |
| `ResearchKernel_proofs` | its theorems |
| `Delivery` | abstract specification: what the presentation outbox promises for each source version |
| `PresentationJobs` | the jobs table, its workers, the finalization task, the settlement of the run that waits |
| `MCPresentationJobs` | its instances for TLC |
| `PresentationJobs_proofs` | its theorems |
| `TaskGraph` | abstract specification: what the engine promises of the tasks of a run |
| `WorkflowEngine` | scheduler, executor, completion policy, H3 branch, checkpoints, crashes, recovery |
| `MCWorkflowEngine` | its instances for TLC, and the scheduling pass as the code runs it |
| `WorkflowEngine_proofs` | its theorems |
| `ResearchLoop` | assessment, bounded search rounds, checkpoints, reasons and outcome of the readiness task |
| `MCResearchLoop` | its instances for TLC |
| `ResearchLoop_proofs` | its theorems |
| `ResearchSubmission` | the record of an idempotency key, planning, take-over, rollback |
| `MCResearchSubmission` | its instances for TLC |
| `ResearchSubmission_proofs` | its theorems |
| `QuantitativeStudy` | the study projection, activation, authorization, rearming and stages |
| `MCQuantitativeStudy` | its instances for TLC |
| `QuantitativeStudy_proofs` | its theorems |
| `AuthorityExtension` | requests that start and activate an extension, its ledger, its six stages, crashes and superseded workers |
| `MCAuthorityExtension` | its instances for TLC, and the view under which states are compared |
| `AuthorityExtension_proofs` | its theorems |

`DurableRun` implements `RunLease` (`LeaseKept`), `ResearchKernel` implements
`ResearchAccount` (`AccountKept`), `PresentationJobs` implements `Delivery`
(`DeliveryKept`), `WorkflowEngine` implements `TaskGraph` (`GraphKept`).
`WorkflowEngine` has one worker at a time, which `DurableRun` shows is all that
is left once the new owner has written; what `DurableRun` calls the executor and
the first task that is not terminal is the whole graph here.  `ResearchLoop` is the
inside of one task of it, `QuantitativeStudy` a run whose tasks are stages, and so
is `AuthorityExtension`, with the claim and the checkpoints of `DurableRun`.
`PresentationJobs` sees of `DurableRun` the status and the
version of a run, and one worker at a time that executes it.  `ResearchKernel` sees of `DurableRun` only
whether the lease of its worker is live and whether the run is still claimable
(`lease`, `closed`); its environment moves them as freely as `RunLease` allows.

### DurableRun

One action is one transaction; between two of them anything may happen.

| state | code |
|---|---|
| `row`, `version` | the row of `workflow_runs`; of its tasks the first that is not terminal, of its results whether that task has a progress checkpoint |
| `owner`, `live` | `lease_owner`, and whether `lease_expires_at` lies in the future |
| `pc`, `holding`, `copy`, `expected`, `after` | the worker's main thread: its place, the claimed run, its `WorkflowRun`, the version it will check |
| `fingerprint` | the last checkpoint the `WorkflowRuntimePersister` has written |
| `beating`, `lost` | the heartbeat thread and the `LeaseGuard` |
| `step`, `kind`, `target`, `read`, `seen` | API requests between their read and their save |

| actions | code |
|---|---|
| `Claim`, `IdlePoll` | `process_once` and `claim_next_run` |
| `LoadRun`, `LoadVersion` | `execute_claimed_run`: the run in one transaction, its version in another; recovery of the interrupted task |
| `CheckGuard`, `CommitSucceeds`, `CommitConflicts` | `WorkflowRuntimePersister._checkpoint`: the guard, then the save with its version check |
| `StartEngine`, `Schedule`, `PickTask`, `Executor...`, `Finalize` | the engine's steps, each followed by its checkpoint |
| `ReleaseLease`, `ReleaseFails`, `Crash` | the ends of an execution |
| `Renew`, `ObserveLoss`, `HeartbeatFails` | the heartbeat thread |
| `Lapse`, `StallPastLease` | time: a lease lapses when nobody renews it, or although somebody does (a stalled process, clocks that differ) |
| `ReadRun`, `ReadVersion`, `SaveRequest` | activation, task resumption and settlement of a PAUSED run |

Abstraction: an execution ends with its heartbeat.  The code joins the thread for a
little more than its interval (`application/execution/heartbeat.py:63`), so that one
stuck in a database call may outlive it.  Its stop event is set: it makes no further call,
and the one it is in renews a lease that its worker id still holds, or fails and marks
the guard of an execution that is over; neither writes the run.

### ResearchKernel

The controller of `application/research_kernel/controller.py` runs inside the
search executor.  Each *execution* has a store of its own; executions that are
superseded go on until the store refuses them.

| state | code |
|---|---|
| `ledger` | `task_results["_research_kernel_v1"]`, the durable `KernelState` |
| `token`, `dispatch` | the fence entry beside it: the store that loaded last, and the action it may dispatch |
| `lease`, `closed` | the lease columns and the status of the run, as `_row` checks them under the row lock |
| `pc`, `mem`, `then` | an execution: its place, its copy of the state, where it goes after the checkpoint |
| `count`, `ambiguous` | the `Dispatch` scope of the action that is being executed |
| `spent`, `dispatches` | history: what the provider calls took, how often each action was authorized |

| actions | code |
|---|---|
| `Acquire`, `Load` | the first load of a store takes the fence; an action found open stops the run for reconciliation |
| `Ready`, `DeadlineStop`, `NothingToDo`, `Reserve` | one turn of `Controller.run`: observe, check the limits, propose, reserve |
| `Authorize` | `authorize_dispatch` |
| `BeginAttempt`, `Call`, `MarkAmbiguous` | `Dispatch.invoke`: the attempt is reserved and checkpointed, made, and its outcome checkpointed |
| `MethodReturns`, `MethodExhausted`, `MethodRaises`, `StopExhausted` | the ways out of `DeskAdapter.execute` |
| `SaveCommits`, `SaveRefused`, `SaveFails` | `PostgreSQLKernelStateStore.save`, the last one with or without its commit |
| `Finish`, `Crash` | `DeskAdapter.finish`; the death of the process |

Abstractions: the dimensions of the budget (calls, documents, tokens) are one
number `Units`, with the decision count beside it; each attempt of an action
takes its `Cost`; which action a method proposes is left open.

### PresentationJobs

The last task of an approved Desk run schedules a rendering and pauses the run;
the worker that brings the rendering to its end settles the run.

| state | code |
|---|---|
| `job` | the `presentation_jobs` table, one row for each source version: state, `attempts`, `claimed_by` (`by`), whether `lease_until` lies in the future (`live`), whether `report_revision` is set (`bound`) |
| `pdf`, `pptx`, `artifact` | the stored deliverables and the report artifact, each found by its identity |
| `current` | whether report, approval and provenance are still those of the source version |
| `run`, `version` | the run that waits, as far as its finalization task is concerned |
| `pc`, `src`, `who`, `claim`, `expected`, `outcome` | a worker: its place, the job or run in hand, the worker id it uses, the attempt it claimed, the version it will check, what its task came to |

| actions | code |
|---|---|
| `ClaimNext` | `claim_next`: exhausted rows become `failed_terminal`, one claimable row is taken |
| `CheckSource`, `MakePdf`, `Render`, `Verify`, `Complete`, `Fail`, `StepFails` | `process_next_presentation`, one action for each transaction or stored deliverable |
| `RefreshJob`, `ReadVersion`, `SaveRun` | `_settle_structured_workflow` |
| `StartFinalization`, `PassApproval`, `ScheduleApproved`, `MarkGenerating`, `FinalizerPdf`, `MarkPdfComplete`, `MarkPptxPending`, `FinalizerFails` | `FinalizationExecutor` and `finalize_approved_review` |
| `CommitOutcome`, `CommitUsage`, `RecoverRun` | the checkpoints of the finalization task and of its execution; the recovery of a task whose worker died |
| `GenerateDraft`, `UserSchedule` | draft packages of the report task; users who ask for a presentation |
| `Lapse`, `Supersede`, `Crash` | time, new reviews and revisions, the death of a worker |

Abstractions: a job is its source version; the states that differ by the kind of
job only (`pending`, `pptx_pending`, `draft_pending`, ...) are one.
`claim_next` takes the oldest row that no other transaction has locked
(`skip_locked`), and any row may be locked for a moment: the order by
`created_at` is left out.  *Contracts* are the kinds of source: a structured
report is bound to its run by the finalizer, an editorial one by its provenance
whoever schedules it, a plain one has no run, a draft is rendered for review.

### WorkflowEngine

One run, from its creation to its end, under an engine that may die anywhere.

| state | code |
|---|---|
| `template` | the template snapshot: dependencies, and for each task what its executor does to the run (`role`) |
| `row` | the WorkflowRun in the database: status, tasks, `satisfied` (the SKIPPED tasks that count as done), review verdicts, tasks with a progress checkpoint, `insufficient` |
| `mem`, `pc`, `current`, `changed` | the engine's copy, its place, `context.current_task`, whether the last pass changed anything |

| actions | code |
|---|---|
| `Claim`, `SaveRecovery`, `Start` | `execute_claimed_run` and the beginning of `run`: recovery of the interrupted task, reconciliation of the branch |
| `Schedule` | one pass of `TaskScheduler.schedule`, with its validation |
| `StartTask`, `AbandonTask`, `Checkpoint`, `GateCheckpoint` | `TaskExecutor.execute`; an executor that is unknown or cannot be recorded; a progress checkpoint, and the one of a kernel's acquisition, which has applied the gate |
| `TaskCompletes`, `ReadinessAssessed`, `AnalysisCompletes`, `ReviewDecides`, `ReportRevised`, `Finalized`, `TaskPauses`, `TaskFails` | how an executor ends, with what the engine and the H3 branch make of it in the same checkpoint |
| `NothingReady`, `Finalize` | the stopping rule of the loop and `WorkflowCompletionPolicy` |
| `ResumeTask`, `SettlePaused`, `Crash` | the writers of a paused run; the death of the process |

Abstractions: what an executor computes is left open, what it writes to the run
is not.  `Doomed` states the set of tasks a pass skips as the solution of an
equation; `Decision` is the code's decision on one task from the statuses planned so
far, and `ScheduleIsOnePass` compares the two task by task.  READY and
CANCELLED of a run are left out: the first is never saved, nothing saves the second.

What a template may be is assumed in two steps.  `TemplatesAssumption` asks for an
acyclic graph over the roles.  `ShapeAssumption` says how gates and reviews are
connected in what `ResearchDesignWorkflowMapper` and a replay build: what is
behind a gate depends on it, directly or by way of other tasks behind it
(`GatesComeFirst`); in a Desk run that is pinned to the research kernel the search task
(role `acquisition`) is such a gate, and the tasks up to the analysis (role `stage`)
only look whether it has left its stop reason; review, revision, second review and finalization follow one another
(`RoundsInOrder`); and every other task leads to them (`OneLine`).  Quantitative and
extension runs, whose tasks are stages and boundaries, have that shape whatever their
dependencies, and so has `Diamond`.

### ResearchLoop

`ResearchReadinessService.assess_and_apply` and the loop it runs.

| state | code |
|---|---|
| `evidence` | the stored evidence, as the status an assessment of it gives each need |
| `loop`, `saved`, `checkpointed` | `ResearchLoopState` in memory and in the task result |
| `status`, `stale` | `information_need_assessments`, and those with `assessment_current = False` |
| `gaps`, `touched`, `improving`, `stalled` | local variables of the round |
| `searches`, `crashes` | history: searches made, the forgotten ones included |

| actions | code |
|---|---|
| `AssessOnly`, `AssessAndLoop` | the initial assessment, `_restore_loop_state` |
| `BeginRound`, `SelectGap`, `NothingToSelect`, `EndRound` | the rounds: which gap is next, and why there is none |
| `Search`, `SearchStops` | the targeted search, whose evidence is stored as it is found |
| `RecordSearch`, `RecordAndStop` | the assessment after it, in full, deferred, or cut short by its budget; the record and the checkpoint |
| `BudgetUnavailable` | the budget checks before a search and at the end of a round |
| `Gate`, `Fail`, `Crash` | the reconciliation and the readiness gate; errors; the death of the worker and the restart |

Abstractions: when a budget is exhausted is a choice at each point that asks; the
strategies differ in their queries only.

### ResearchSubmission

| state | code |
|---|---|
| `record` | the row of `research_submissions`: status and reserved run id (the fingerprint is the one of the request that drew the id) |
| `runs` | the workflow runs that exist |
| `pc`, `target`, `answer` | a request: its place, the run id it was handed, the run its response names |
| `orphaned` | history: run ids that a rollback gave up although somebody held or had created them |

| actions | code |
|---|---|
| `Register`, `FindTaken`, `FindGone`, `Conflict`, `Join` | `try_register`, its insertion and the look at the row that was there, which a rollback may have deleted in between; `resolve_submission` |
| `LookCompleted`, `LookPending`, `Bind`, `LookAway` | `_resolve_visible_run`, and `wait_for_peer_completion` around it |
| `FindNoRun`, `CreateRun`, `FindDuplicate`, `MarkCompleted` | planning and the repository's look-up before its insertion |
| `TakeoverFails`, `RollBack`, `MarkFailed`, `Die` | the ways a request fails |

### QuantitativeStudy

| state | code |
|---|---|
| `study` | the projection the UI service stores, with its approvals, each about one dataset version |
| `run` | the WorkflowRun: status, next stage, whether its task is RUNNING or PAUSED; its task results: the safe state the tasks' snapshots add up to, the one a binding stored beside them, whether the snapshot of the pause is there |
| `current` | who holds a copy of the run that is still the stored one (what a version check compares) |
| `pc`, `seen`, `held` | an operator's request: its place, the study it will save, the run it read |
| `wpc`, `mem` | the worker |
| `grants`, `consumed`, `paid`, `analysed`, `rearmEvent` | semantic authorization, its consumption, the dispatches; the analysis manifest; the rearm event |
| `accidents` | history: the saves of an operator's copy over a newer row, and activations out of the pause of a task |

| actions | code |
|---|---|
| `Edit`, `SaveEdit` | the six set-up operations, which read the projection once and replace it |
| `CheckActivation`, `ReadResults`, `Bind`, `LoadPaused`, `Activate`, `ActivationRefused`, `SaveAnalyzing` | `resume_workflow`, `_persist_activation_state`, `activate_paused_run`: each reads the run, then the version, then saves |
| `Grant`, `LoadBoundary`, `ResumePausedTask` | `authorize_semantic_execution`, `resume_paused_task`, in the same way |
| `CheckRearm`, `Rearm`, `RecordRearm`, `SaveRearmed` | `rearm_failed_run`: run, event, study, each a write of its own |
| `Complete`, `Interrupt` | `get` on a completed run; an operation that raises or dies |
| `LoadRun`, `ReadVersion`, `FailInterrupted`, `FindNothing` | the claim of a run, its recovery, and the pass over a run that has nothing ready |
| `BeginStage`, `ApproveWeights`, `Analyse`, `PauseForGrant`, `Consume`, `FindingsGenerated`, `Report`, `StageFails`, `WorkerDies` | the worker's stages and their checkpoints |

Abstractions: a weighted dataset-only study; a set-up is one stage, the stages
after the findings are one.  The projection is one value that the last writer
replaces: `_persist_study` appends revisions behind the cache of one process; a
second process with a cache of its own is not modelled.  The version of an operator's
save is read just before it and refuses nothing (`Store`), so the two are one step; that
the row is newer than the copy is what `current` tells.  The three reads of one check are
one step.  There is one worker: the race of two over a run that one has finished is
`DurableRun`'s (*Finished runs*, below).

### AuthorityExtension

A second run of six stages, one task each, that looks for what a finished run lacks.

| state | code |
|---|---|
| `row`, `version` | the row of the extension's run: status, the stage that is due and its task, progress checkpoint, and in its task results the `ExtensionState` (`ledger`) |
| `extension` | the row of the idempotency key: whose run it is, the `AuthorityExtensionStatus` |
| `composed`, `evidence`, `findings` | the composed authority; evidence of both members and the findings of the extension |
| `at`, `copy`, `expected`, `handled`, `attempt` | a worker: its place, the persister's copy and version, whether the failure handler is installed, the attempt in hand |
| `step`, `read`, `seen` | a request: its place, the document and the version it will save under |
| `calls`, `overwritten` | history: the calls made; whether a living worker was superseded or an activated run saved by a request |

| actions | code |
|---|---|
| `Lookup`, `Register`, `RegisterLate`, `Describe`, `ReadVersion`, `SaveLedger` | `SelectedAuthorityExtensionService.start` |
| `ReadRun`, `ReadResults`, `Resume`, `MarkActive` | `activate` |
| `Claim`, `LoadRun`, `LoadResults`, `Start`, `Begin`, `Progress`, `Finish`, `FailTask`, `EndRun`, `Crash` | claim, recovery and checkpoints, as in `DurableRun` |
| `Reserve`, `Call`, `Complete`, `CompleteUnknown`, `Keep` | the budget proxies: the attempt is written under the row lock, made, completed; the delegate persists what it brought |
| `Plan`, `PlanRaises`, `EndSearch`, `Capture`, `PassGate`, `CaptureFindings`, `Evaluate`, `Conclude`, `Compose`, `Announce`, `Store`, `Raise`, `FailTechnical` | `AuthorityExtensionStageExecutor._run_in_scope` and the service behind it |

Abstractions: evidence is what `qualify_gap` tells apart, supporting a need (as much
of it as the policy asks for, in one piece), conflicting, or of another geography, which
takes back what supporting evidence had shown; sources and their scoping
are not seen; the run that a losing request creates and deletes is not seen; what the
quality loop of the readiness stage decides is the calls it makes.

## 3. Runs

| run | question | result |
|---|---|---|
| `durable_safety` | Do two workers and an API request that compete for a run through a crash or stall and takeovers lose an update (`EstablishedSeesRow`), both go on writing (`OneEstablishedWriter`), or take back a finished run (`FinishedRunSafeFromEstablished`, with the two invariants behind it)? Do the lease columns implement `RunLease`? | no update is lost, one writer is left, the lease is kept, and no worker that has written the run takes back its end; one that has not can (*Finished runs*, below) |
| `durable_liveness` | Does every claimable run finish or pause, whatever crashes and stalls? `RunnableRunSettles` | yes |
| `kernel_account` | Two executions of one search task, two actions, retries: is every call covered by the durable ledger, made once, within the limit, and what is returned stored? Does an execution that started come to an end, whatever happens to its fence and its saves (`ExecutionEnds`)? | yes, and the kernel implements `ResearchAccount` |
| `kernel_deadline` | `DeadlineHandsOver` (ARK-01) | violated: finding 1 |
| `jobs_table` | Two workers, a user, a structured report and a draft package (whose generator takes whatever job is next, under an id that all workers share), leases that lapse under a renderer: are deliverables complete, late answers refused, and does the run end as its job did, once? Is `Delivery` implemented? | yes, but for `OnlyTheClaimantSettles` of the shared id, which the property exempts |
| `jobs_settle` | Does every job come to an end through two crashes and lapses (`JobsSettle`)? | yes |
| `engine` | A Desk run, one pinned to the research kernel, an H3 run and a graph that is no chain, through every outcome of every task, two faults and a resumption: does the scheduler ever meet what it refuses (`EngineNeverRaises`), is a pause one task's (`PausedAtOneBoundary`), is everything delivered earned (`DeliveryIsEarned`) and the outcome true (`OutcomeIsEarned`)? Does one pass do the whole pass (`ScheduleIsOnePass`), is `TaskGraph` implemented, does every run settle or pause (`RunSettles`)? | yes; `OutcomeIsEarned` states the one finished run that keeps an open task |
| `loop` | Three needs, two rounds, a crash anywhere, budgets that stop at any point: are attempts bounded and in turn (`TurnsAreFair`), are outcome and reason true (`OutcomeIsTrue`), does the task end (`LoopEnds`)? | yes, but for a reason given after a crash, which the property exempts |
| `submission` | Four requests with one key and two briefs, three failures or deaths: does the key stand for one run, and does every answer name it (`KeyIsHonest`)? | yes, unless a rollback disowns a run |
| `quant` | Two operators and a worker on one study: do the stages work on the approved version, is the paid pipeline dispatched once (`AnalysisIsAuthorized`), is the run kept (`RunIsKept`)? | yes; a completed run is changed by the late save of an older copy and by nothing else, and a RUNNING run is sound until such a save or an activation out of the semantic pause |
| `extension` | Two requests with one key and two workers, one fault: is every call in the ledger and within the budgets (`SpendIsCounted`), does an attempt of unknown outcome stop all calls (`AmbiguityHolds`), is success earned (`SuccessIsEarned`)? | yes; the first two until a living worker is superseded or an activated run is saved by a request |
| `extension_ledger` | `LedgerIsComplete`, without faults | violated: finding 2 |

### Bounds

*Workers, executions.*  Every hazard here is between the current owner and one
that was superseded; two show it.  The theorems hold for any number, and for any
assignment of executions to worker ids: a process restarted under its own id is
included, which the lease owner does not tell apart; token and revision do.
*Runs.*  Runs share nothing but a worker's attention, so the safety runs have one
and the liveness run has two, for the order in which they are claimed.
*Actions, Units, Decisions.*  Two actions of cost 1 (no attempt ceiling) and 2
(one attempt) with 3 units and 2 decisions: each limit is hit before and after
the other, with and without retries.
*MaxFaults* counts crashes, stalls, failed saves and uncertain commits: one in
the safety run of `DurableRun`, beside takeovers that need none, and two, a fault
during the recovery from one, in `durable_liveness`, `kernel_account` and
`jobs_settle`, which has the crashes of the job workers; `jobs_table` has none, and
there lapses alone supersede a worker.  The theorems have no bound.  *MaxVersion* ends the claiming of a run
once its row has been written that often.  In the safety runs it is 8: a whole
execution takes six checkpoints, so that a run can be taken over in the middle,
finished, and started again by a copy that is out of date, and what was claimed before the bound
goes on beyond it.  In the liveness run it is 50, which is never reached.
*MaxRequests* is 1: a request changes a PAUSED run only, and the row says the same
to a second one.

*Jobs.*  The attempts are 2 in the safety runs, where a second claim is the one
that meets the limit, and 3 (the code's `MAX_PPTX_ATTEMPTS`) in `jobs_settle`.
Two sources of different contracts let a worker leave one job for another; one
source is enough for liveness, where the interference is between workers.

*Engine.*  The graphs have seven tasks.  The Desk and the H3 template are those
of `ResearchDesignWorkflowMapper`, its searches represented by two tasks (Desk)
or left out (H3, where they precede everything and touch only their own task), its
dependencies and roles kept, and so is the Desk template of a kernel's run, with two
stages between acquisition and analysis; the fourth has two branches and two boundaries, so that
a failure and a pause meet tasks that do not depend on them.  Two faults are a
fault during the recovery from the first; one resumption leads from a boundary to
the next pause.
*Loop.*  Three needs: one searched, one that was not, one that is touched by the way
(`MaxReach` 1).  Two rounds and two attempts, the production value, let a gap
stall, wait and be tried again; one crash.  The initial evidence is nothing for two
of the needs, or one blocked need beside one that is INSUFFICIENT, or all there is; a
search finds PARTIAL or SUFFICIENT evidence, so that every rank improves on the one below.
*Submission.*  Four requests: a creator, a waiter that takes over, a late one,
and one with another brief.  Three faults, as many as it takes to fail the
creator, the one that took over and one more.
*Quantitative.*  Two operators, since every accident is between two of them or
one and the worker; two dataset versions, the approved and the next.  *MaxAccidents*
is 1: what follows an accident is `AnalysisIsAuthorized`, which holds of any number by
its theorem.  After the last accident, and after the semantic authorization, no set-up
operation is begun: it changes the projection, which a run past its set-up does not look
at.
*Extension.*  Two requests, so that one is late; two workers, so that one is
superseded.  One need, one search and two provider calls of which one is reserved for
the analysis: each budget is met by the call after the last.  *MaxFaults* 1 counts
crashes, deaths of requests, lost guards and takeovers; what follows two of them is
not checked.  *Lapses* says at which places a living worker may lose its lease: in the
run, during a provider call, which is the long step and the one whose answer meets a
ledger that has moved on.  `View` merges states that differ in values nobody reads
again (what an actor holds after its end, stale versions, calls that no property counts
any more, how the extension ended unless it succeeded, whether conflict or geography
disqualifies a need); each such value is written before it is read, or compared only for
being current, or leads to steps that differ in such values alone, and the properties do
not look at it.  It is coarser than a fingerprint of
the variables and finer than what the actions and properties can tell apart.

`CHECK_DEADLOCK FALSE` in the configurations of the engine, the loop, the
submissions, the studies and the extensions: a run that is terminal, a task that
ended and requests that were answered have no next step.  In those of the kernel: the
executions end and the run closes, after which nothing is left to happen; and in
those of the jobs, where a worker that finds no job takes no step.  `DurableRun` cannot
stop: its workers poll.

### Fairness

`DurableRun!FairSpec`: weak fairness of each worker's main thread (a process that
lives is scheduled; every database call and executor has a time-out) and of
`Lapse` (a lease that nobody renews expires with time).  Neither the heartbeat,
nor a request, nor an outcome of an executor, nor a fault is owed.
`ResearchKernel!FairSpec`: weak fairness of `Step(e)`, the steps of an execution
that has its store; provider calls end by their time-outs and the row lock is
waited for two seconds (`lock_timeout`).  Nothing is owed by the lease or the
environment.
`PresentationJobs!FairSpec`: weak fairness of each worker's claim and of its work
on what it has in hand (the loop runs a turn of each in every round, renderers
have time-outs), of starting a run's finalization and of recovering it
(`durable_liveness` shows that claimable runs are taken), and of `Lapse`.  Users,
new revisions, failures and crashes are owed nothing.
`WorkflowEngine!FairSpec`: weak fairness of the engine as a whole (`Engine`):
while a run can be claimed or a worker has it, one of its steps is taken.  It does
not say which outcome an executor has.  Checkpoints, abandoned tasks, crashes,
resumptions and settlements are owed nothing, and `RunSettles` holds where the
number of faults is bounded.
`ResearchLoop!FairSpec`: weak fairness of `Step`, the steps of an assessment and
a loop that no budget and no error stops; those and crashes are owed nothing.

### Observations

Dropping the token check from `Accepts`, with lease and revision still checked,
breaks no property: a superseded execution's revision is already too old, or it
carries the same checkpoint chain.  The token is a second line of defence, and
what it adds is that a superseded execution is refused before its revision is
compared.

*Shared id of the draft generators.*  Every worker generates drafts as
`draft-generator`; `fail` compares this id and neither the lease nor the attempt,
so that a generator whose lease has lapsed can fail the claim of a later one.
`OnlyTheClaimantSettles` exempts that id; the job loses an attempt by it and
nothing else (`DeliveryKept` holds).

*Observed losses.*  `_checkpoint` validates the `LeaseGuard` and saves later
without consulting it again (`application/runtime/workflow_runtime_persister.py:207`);
a claim does not change the version, so a superseded worker's checkpoint may commit
after its heartbeat has observed the loss, where ADR-012 says that no further one
may.  The new owner loads either the row before it or after it, and loses at most
its own first checkpoint to the version check (`EstablishedSeesRow`).

*Finished runs.*  `execute_claimed_run` checks that the run is not terminal on a
copy and reads the version in a later transaction
(`application/services/durable_workflow_service.py:211`); another worker's last
checkpoint fits in between, and the finished run is started again (ADR-010).
`FinishedRunSafeFromEstablished` says that only a worker that has not yet written can.

*Pauses nobody ends.*  The finalization task makes the job claimable before its run
is paused.  A worker that finishes the job in between finds the run RUNNING and
returns (`application/deliverables/service.py:863`); the run then pauses for good.
So does a run whose settlement collides on the version with the last checkpoint of
its execution: the conflict is logged and nobody tries again.  And `claim_next` ends
the job whose last lease has lapsed (`postgresql_presentation_jobs.py:121`) and
returns another or none; the run of the exhausted one stays PAUSED.

*Early failures.*  A user who asks for an editorial presentation before its
artifact is stored makes the job fail at `Verify` as often as it has attempts;
it can be `failed_terminal` before its run pauses, which is the first of those pauses.

*Unbound rows.*  A user may ask for the presentation of an approved structured
report before its finalization task does.  The finalizer finds that row by its
identity (`application/deliverables/service.py:553`), does not bind it, and
pauses; the end of an unbound job settles nothing.

*Interrupted tasks.*  A task with a progress checkpoint is requeued and executed
again (`application/runtime/interrupted_task_recovery.py:35`, `LoadVersion`),
although ADR-012 says that interrupted tasks are not retried; `docs/decisions.md:190`
makes the checkpoint the exception.

*Rejected runs.*  A rejection in the first round fails the run from inside the
review task (`application/review/h3_review_branch.py:138`).  If the worker dies
before the engine's next pass, the run is FAILED with tasks that are still open,
and nobody claims it again; its outcome is right.

*Graceful stops of the first assessment.*  `research_readiness_service.py:123-129`
builds a fallback for a budget stop, but an assessment is charged only where there
is evidence and the fallback raises where there is evidence, so the stop fails
the task (`Fail`).  `docs/acceptance/P1-07.2` lines 31 and 60 have it end gracefully.

*Reasons after a crash.*  A restart with a pending request considers that gap
only.  If the search before the crash had closed it, the loop ends with
"no_actionable_gaps" (`research_loop_service.py:167`) while others are open;
`OutcomeIsTrue` has that exception.  `round_had_improvement` is forgotten too,
which costs at most a round.

*Disowned runs.*  A creator whose planning fails deletes its record
(`api/routers/workflow_runs.py:544`), even when a peer that waited has taken its run
id over, or when what failed was its insertion, because the peer's run already had
the primary key.  The next request with the key draws a new id, and two runs exist for
one key, which ADR-013 excludes.  The taker's `mark_completed` then completes the
*new* record, whose run may not exist, and a peer can be answered with a run of
another brief.  `KeyIsHonest` says that nothing less than such a rollback does it.

*Studies.*  An activation while a task is PAUSED for its semantic authorization
leaves a RUNNING run with a PAUSED task and without its safe state
(`ui_service.py:779`); every worker claims it and finds nothing to do (`FindNothing`).
Every save of an operator's reads the version after the run (`ui_service.py:1019`,
`durable_workflow_service.py:78` and `:180`), so the save of a copy that is out of date
is accepted: a resumption that read PAUSED before another one and the end of the run
writes RUNNING over COMPLETED.  `RunIsKept` says that a completed run is changed by
nothing less; `AnalysisIsAuthorized` holds whatever is overwritten, since a run that has lost
its safe state by it can only fail or pause at its findings.  A rearming that dies
between the run and its event can be repeated; one that loses the race for the event
leaves the study as it was.  A worker that dies between the consumption of the
authorization and the findings is followed by one that finds the snapshot of the pause,
takes it for progress, and executes the task again, which is refused as consumed: the run
fails and is not paid for again.

*What the properties leave out.*  Some hazards are modelled and happen in the runs,
and the property next to them states what remains true beside them, not that they
are harmless: the exemption of a worker that has not written and of requests
(`FinishedRunSafeFromEstablished`), of the late save of an older copy (`RunIsKept`), of the shared
id (`OnlyTheClaimantSettles`), the job's end without its run's (`JobsSettle`), and the
pauses nobody ends, which `RunFollowsItsJob`, a safety property, allows.  One is not in
the model: a checkpoint that fails on the success path is repeated on the error path
(`application/workflow_engine.py:111`) with the task completed and the outcome FAILED
in the shared state, which `DurableRun` has as a second checkpoint without its content.

*Extensions.*  The second of two requests may write `ACTIVE` over the end that the
worker has already given the extension (`MarkActive`).  A request that finds the key
taken activates the run even when the first has not yet saved the ledger, or died before
it; such a run fails in its first stage, and `fail_technical` finds no extension to mark
(`PlanRaises`, `TechnicalError`).  A worker that dies between the composition and its
status leaves a composed authority of an extension that never succeeds: its task is
failed by the recovery, which does not tell the extension.  An attempt that was open at
a crash refuses every later call of a restarted readiness stage (`AmbiguityHolds`): the
stage fails, and nothing closes the attempt.

## 4. Findings

1. *A stop at the expired acquisition deadline fails closed.*  `DeskAdapter.observe`
   notes `bounded_acquisition_deadline` in the state it is given, a deep copy of
   the controller's, so the note is lost and `finish` does not hand over to the
   readiness policy as ARK-01 says.  Run `kernel_deadline`.
2. *An activation overwrites a reservation.*  `activate` saves the task results it has
   just read (`selected_workflow.py:839`) under a version it read before, and
   `atomic_update_task_results` (`postgresql_workflow_run_repository.py:163`) changes
   them without changing the version.  When the run was activated by another request,
   claimed, and a call reserved between the two, the ledger loses the reservation, and the
   budget with it; the class calls it the complete lifecycle ledger.  Run `extension_ledger`.

## 5. Proofs

Everything below is for any number of runs, workers, requests, executions and
actions, any costs and limits, and no bound on the faults (`MaxFaults` and its
like are parameters).  The assumptions are those the modules state: the null
values are not members, the costs are positive, the limits are natural numbers.

### DurableRun_proofs

`TypeCorrect`, by one lemma per group of actions.  *Writers.*  The inductive
invariant is `WriterInv`: types, `FreshUntilLoaded`, `EstablishedSeesRow` and
`OneEstablishedWriter` together.  None of the last three is inductive alone: that
an established worker sees the row rests on nobody else being able to write at
its version, which rests on a worker having no fingerprint before it has read a
version.  From it follow `NoLostUpdate`, `SingleWriter`, `FreshPersister`.
*Leavers.*  `LeaverInv` adds `TerminalCopyLeaves`, from which `FinishedRunSafe`
follows as an action property: a worker whose own last checkpoint was terminal is
at its release and writes no more.  `ImplementsLease` is the step simulation into
`RunLease`, for which the type invariant suffices.

### ResearchKernel_proofs

`KernelInv` is the inductive invariant.  Its parts:

* `LedgerInv`: the ledger is valid, covers what was spent, and still shows every
  action that was dispatched (as completed or pending).
* `CopyInv`: what an execution's place says of its copy.
* `FenceInv`: the copy of the execution that holds the fence *is* the ledger, or
  one legal checkpoint ahead of it, or, after a refused or uncertain save, so far
  ahead that no save of it is accepted any more.  This third case is why a save
  that failed inside a method, and was swallowed there, does no harm.
* `MethodInv`: an execution in its method has the ledger's pending action open,
  its copy covers the calls made and the one allowed next, and when it is about
  to call so does the ledger, even if the fence has passed to another; it is alone
  there, and whoever holds the fence meanwhile gets no further than a stop.
* `StoredInv`: what was returned is the ledger, which accepts nothing after it.

`Change` and `Checkpoint` say in one formula what the controller may do to its
state between two saves; `ChangeValid` shows that such a change passes the
validation of the store and never lowers the charge.  `SavingKept`, `EndKept`,
`SaveMovesKept` and `OthersKept` show the invariant for the forms a step can have,
and one lemma per group of actions puts each action into one of them.  From
`KernelInv` follow `SpendIsCovered`, `CallsAreReserved`, `DispatchesAreFinal`,
`ChecksAgree`, `ReturnsAreStored`; `ImplementsAccount` maps each commit to a step
of `ResearchAccount` and each call to a covered `Spend`.

### PresentationJobs_proofs

`JobMove` says in one formula what a step can make of a row, and `StepMoves` puts
every action into it; the bound on attempts, the finality of `done` and
`failed_terminal` and most of the refinement follow from it without another look
at the actions.  `RunMove` does the same for the runs.  `DeliveryInv` is the
inductive invariant: types; `RowsOK` (a row that *waits* has an attempt left,
which is why claims of waiting rows need not ask); `PlacesOK`, what a worker may
rely on at each place, above all that the row it holds under its id is in the
attempt it claimed, that a run has one finalizer and is RUNNING while it has, and
that a settling worker's run is still paused or already what it is about to
write; `DoneIsDelivered` and `CompletedRunIsDelivered`.  From it follow `Bounded`,
`Delivered`, `CompletedDelivered`, `RunsFollowJobs`, `ClaimantsSettle` and
`ImplementsDelivery`.

### WorkflowEngine_proofs

For any set of tasks, finite or not, any order of positions that the dependencies
follow, any number of faults and resumptions.  There are two inductive invariants.

*`IInv`* asks nothing of the shape of the templates.  It says the same of the row
and of the engine's copy.  *Sound*: a task that was opened and not given up has its
dependencies done or excused, and only SKIPPED tasks are excused: this is what the
scheduler validates, and it has to hold of PAUSED tasks too, which it does not look
at, because a resumption makes them READY.  *Vouched*: an approval of the first round
that is on record has excused the revision and the second review, so that a
reconciliation finds nothing to refuse.  *Pauses*: PAUSED of the run and of one task
together.  While a run is recovered its copy differs from the row by the
`Interrupted` tasks alone; else their tasks are the same.  The lemmas go by
transform (skip, excuse, fail, recover, plan, branch), then by action.  From `IInv`
follow `TypeCorrect`, `NeverRaises`, `PausedOnce`.  `TasksMoveInOrder` puts every
action into `RowStep`, and that into the moves of `TaskGraph`.

*`EarnedInv`* rests on `ShapeAssumption` as well, and on `IInv`.  Neither
`DeliveryIsEarned` nor `OutcomeIsEarned` is inductive: they look at the finalization
and at the status, and what keeps them true lies in the tasks between.  *Recorded* is
what the records of the tasks vouch for: a verdict is there exactly when its review
has ended; an excuse has an approval behind it; a round that turned the report down
has closed the finalization, and after a rejection in the first round the revision
cannot complete nor the second review open, because its one dependency is neither
completed nor excused; nothing behind a gate opens before the gate is passed,
so that an insufficient outcome finds all of it still pending and closes it
(`GatesPassed`, `NothingWritten`); and what was skipped has a cause (`SkipsHaveCause`):
an excuse, a failed task, an insufficient outcome or a review.  *Reported* is what the
status says of the tasks: a report that was turned down fails the run, and a failed run
has nothing open but what a rejection left to the revision.  *Placed* is where the
engine may stand while the run has a status.

The proof goes by what steps have in common.  `RecordedKept` and `ReportedKept` hold
for every step that records no verdict, excuse or outcome, from `StepsFrom`, the moves
that `TasksMoveInOrder` rests on; `InsufficientEarned` and `ReviewForm`,
`ReviewRecorded`, `ReviewReported` for the gates and reviews, which do; `ReconciledSame`
shows that a reconciliation after a restart finds nothing left to apply.  `AllLead` and
`CompletedBefore` turn the shape into what is needed of it, by the latest task that
would contradict it: when a review opens, all that leads to it is completed, so that a
run that a review fails has settled everything else.  From `EarnedInv` follow
`DeliveryEarned` and `OutcomeEarned`, and with `IInv`, `FailedStays` and
`CompletedRests`, the refinement `ImplementsTaskGraph`.

*A pass.*  `OnePass`: the equation of `Doomed` has exactly one solution in every
state and template, the least fixed point, so `Schedule` is never blocked by it and
never has a choice.  `PassPlans`: the statuses that `Schedule` writes are the only ones
that agree with `Decision` at every task.  `SchedulesAsDecided` says so of every pass of
a run.

### ResearchLoop_proofs

For any finite set of needs, any rounds, any evidence and any number of crashes.
`HistoryOK` says of a history what `TurnsAreFair` says of the loop's, and holds of
the checkpoint's too, because a restart goes on with that one.  `CopyOK` relates
the two; `StalledOK` ties the set of stalled needs to the history from both sides:
it covers what failed in the round, so that no gap is tried twice in it, and holds
only needs that were searched, so that it never keeps an untried one from its turn.
`TurnOK` is what the choice of a gap gives the search, `PreferredTurn` that it does.
`CountOK` counts the searches that the checkpoint does not show, one for each
crash.  `SeenOK`: an assessment that is not marked stale is what the evidence shows,
a need without evidence is known to have none, and something stale is kept only
while there is such a need; this is why a loop that finds no gap has none.
`AppendOK` adds a record to a history.  From `LoopInv` follow `TypeCorrect`,
`FairTurns`, `TrueOutcome`.

### ResearchSubmission_proofs

For any number of requests, briefs and faults.  `SubmissionInv`: the run id a live
request holds is the one the record names, unless a rollback gave it up
(`HeldIsNamed`), and so is every run that exists (`RunIsNamed`); only a creator that
has failed gives its id up, so that nobody draws or hands it out again
(`OrphansFailed`).  With `HoldsItsBrief`, what a request holds at each place, they
carry `CompletedHasRun` and `AnswersHonest`, which with `RunIsNamed` are `KeyIsHonest`.

### QuantitativeStudy_proofs

For any number of operators, dataset versions and accidents.  `StudyInv`: QC and
weights of a study are those of its dataset (`StudyOK`); a safe state in a run was
authorized, a run pauses for its set-up or before its findings, and only there can it have
lost its safe state (`RunOK`); a run past its findings has the authority that was granted
and consumed (`PaidFor`); what an operation holds between its writes is of that kind
(`OperationOK`), and what the worker holds (`WorkerOK`); the dispatches are what was
consumed (`PaidOnce`).  `Authorization` follows whatever accidents happen.  `KeptInv` adds
`SoundInv`: an operator's copy that is in `current` is the stored run, and the run a
worker is at is not completed (`CurrentIsTrue`), so that who completes the run makes all
other copies old; and, before any accident, run and worker's copy have their safe state
(`Sound`).  `RunKept` follows as an action property.

### AuthorityExtension_proofs

For any needs and budgets, any number of requests and workers, and any faults.
`RequestStep` and `WorkerStep` say in one formula what a step does to row, copies and
history; the lemmas named after groups of actions put each action into one of them, and
the three invariants are kept by the formulas.  `TypeInv`: types, and in every document,
a copy that is out of date included, a *sound* ledger: what is reserved for the analysis
and not yet used still fits beside what is spent (`SoundLedger`), without which the
budget of the provider is not inductive.  `EarnedInv`: no ledger, however old, shows
evidence or findings that are not stored, since the stores only grow; this is why a late
writer cannot make a success that was not earned.  `AloneInv`, for the time before
anything is overwritten: one worker is at the run, its copy of the ledger is the row's,
and a run that is still PAUSED has an unused ledger in every copy that a request may save
(`WorkerOK`, `Unused`).  From them follow `TypeCorrect`, `Earned`, `Counted` and
`Ambiguity`.

### Only model-checked

The liveness properties (`RunnableRunSettles`, `ExecutionEnds`, `JobsSettle`,
`RunSettles`, `LoopEnds`), which rest on fairness, and `ScheduleIsOnePass`, whose
reference pass is a recursion over the tasks of one instance; `SchedulesAsDecided`
says as much for every template without it.  Every invariant that a passing run checks,
every action property but that one and every refinement is also a theorem.  The
findings are counterexamples of TLC.

## 6. Plan

Done: the durable core (`DurableRun`, `ResearchKernel`, `PresentationJobs`), the
engine (`WorkflowEngine`), the research loop, submissions, quantitative studies and
authority extensions, each with its theorems.  What would come next:

1. Downstream replay: the other component that keeps its state in a run's task results.
2. Qualitative transcription and coding jobs: the lease and attempt scheme of
   `PresentationJobs` over other tables.
3. The execution budget and its restoration; method packages and their pins.

The runs stay a dozen, and the hazards forty: room is made by checking properties
of one configuration together and by turning a violation that is settled into an
observation.

## 7. Not modelled

Listed in PROJECT.json with the reason: the execution budget (its counters are used
by one thread; that a recovered run starts afresh is a listed hazard), qualitative
studies, downstream replay, versioned method packages, and the parts
of the modelled components their notes name.  Provider calls, prompts, parsers,
rendering, HTML and the HTTP layer are I/O and data transformation without shared
state of their own; identity, projects and the read models are single-statement
CRUD; the in-memory adapters serve tests; migrations and scripts run once.

## 8. Running

    tlc -config DurableRun_safety.cfg MCDurableRun
    tlc -config DurableRun_liveness.cfg MCDurableRun
    tlc -config ResearchKernel_account.cfg MCResearchKernel
    tlc -config PresentationJobs_table.cfg MCPresentationJobs
    tlc -config WorkflowEngine_run.cfg MCWorkflowEngine
    tlc -config ResearchLoop_run.cfg MCResearchLoop
    tlc -config ResearchSubmission_run.cfg MCResearchSubmission
    tlc -config QuantitativeStudy_run.cfg MCQuantitativeStudy
    tlc -config AuthorityExtension_run.cfg MCAuthorityExtension
    tlapm DurableRun_proofs.tla

and so for the other configurations, each named after its module, and the other
modules of proofs.
