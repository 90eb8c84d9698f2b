-------------------------- MODULE AuthorityExtension --------------------------
(***************************************************************************)
(* A bounded authority extension: a second, small WorkflowRun that looks   *)
(* for the evidence a finished run lacks.  Its ledger (budgets, external   *)
(* attempts, observations, findings) is one entry of the run's             *)
(* task_results, and two kinds of transactions write it: atomic updates    *)
(* under the row lock, which leave the version alone, and checkpoints and  *)
(* saves of requests, which compare the version and replace the document.  *)
(*                                                                         *)
(* Each action is one transaction or one call of a provider.  Requests     *)
(* with one idempotency key and one body create, describe and activate the *)
(* extension; workers that were claimed the run, the superseded one        *)
(* included, execute its six stages.  The checkpoint of a scheduling pass, *)
(* which changes nothing seen here, is left out; a stage has one task, so  *)
(* the tasks of the run are the stage that is due and its status.          *)
(* Evidence is what qualify_gap tells apart: supporting a need (enough of  *)
(* it, in one piece) or conflicting.                                       *)
(***************************************************************************)
EXTENDS Naturals

CONSTANTS
    Requests, NoRequest,
    Workers,
    Needs,           \* the selected information needs
    ParentEvidence,  \* what the parent's run has
    MaxSearch,       \* SEARCH_BUDGET_MAX
    MaxProvider,     \* PROVIDER_BUDGET_MAX
    Reservation,     \* provider calls that reserve_analysis_budget sets aside
    NoLedger,
    Lapses,          \* bound: where a living worker may lose its lease
    MaxFaults        \* bound on crashes, lost guards, deaths of requests and
                     \* claims that supersede a living worker

Kinds == {"search", "evidence", "analysis"}
Attempts == ({"search"} \X (1 .. MaxSearch))
                \cup ({"evidence", "analysis"} \X (1 .. MaxProvider))
\* "foreign": about another geography than the one the need names.
Evidence == Needs \X {"supporting", "conflicting", "foreign"}
Ledger == [search : 0 .. MaxSearch, provider : 0 .. MaxProvider,
           reserved : {0, Reservation}, analysed : 0 .. Reservation,
           known : SUBSET Attempts, pending : SUBSET Attempts,
           observed : SUBSET Evidence, found : SUBSET Needs]

ASSUME RequestsAssumption == NoRequest \notin Requests
ASSUME LedgerAssumption == NoLedger \notin Ledger
ASSUME BudgetAssumption ==
    MaxSearch \in Nat /\ MaxProvider \in Nat /\ Reservation \in Nat
ASSUME ParentAssumption == ParentEvidence \subseteq Evidence
ASSUME BoundsAssumption == MaxFaults \in Nat

Stages == {"plan", "search", "evidence", "readiness", "analysis", "finalize"}
After == [plan |-> "search", search |-> "evidence", evidence |-> "readiness",
          readiness |-> "analysis", analysis |-> "finalize", finalize |-> "finalize"]
\* The calls the delegates of a stage make through the budget proxies.
CallsOf == [plan |-> {}, search |-> {"search"}, evidence |-> {"evidence"},
            readiness |-> {"search", "evidence"}, analysis |-> {"analysis"},
            finalize |-> {}]

\* One row of workflow_runs: aggregate and task results.
Document == [status : {"paused", "running", "completed", "failed"},
             stage : Stages, task : {"ready", "running", "completed", "failed"},
             progress : BOOLEAN, ledger : Ledger \cup {NoLedger}]
ExtensionStatus == {"none", "created", "active", "succeeded", "insufficient",
                    "conflicting", "technical_error"}
Place == {"idle", "claimed", "loaded", "start", "pick", "stage", "analysing",
          "reserved", "called", "answered", "insufficient", "conflicting",
          "composing", "announcing", "storing", "done", "broken", "expelled",
          "failing"}
Step == {"new", "registering", "describing", "dating", "saving", "activating",
         "comparing", "merging", "resuming", "marking", "answered", "refused", "dead"}

ASSUME LapsesAssumption == Lapses \subseteq Place \ {"idle"}

VARIABLES
    row, version,   \* the run of the extension
    extension,      \* the row of the key: its run and its status
    composed,       \* whether the composed authority exists
    evidence,       \* evidence of the parent's run and of this one
    findings,       \* needs with a persisted finding of this run
    at, copy, expected, handled, attempt,   \* each worker
    step, read, seen,                       \* each request
    calls,          \* history: provider calls that were made, by kind
    overwritten,    \* history: a living worker was superseded, or a request saved
                    \* the run after it had been activated
    faults

rowVars == <<row, version>>
storeVars == <<extension, composed, evidence, findings>>
workerVars == <<at, copy, expected, handled, attempt>>
requestVars == <<step, read, seen>>
historyVars == <<calls, overwritten>>
vars == <<rowVars, storeVars, workerVars, requestVars, historyVars, faults>>

Fresh == [search |-> 0, provider |-> 0, reserved |-> 0, analysed |-> 0,
          known |-> {}, pending |-> {}, observed |-> {}, found |-> {}]
\* create_workflow_run with initially_paused.
Created == [status |-> "paused", stage |-> "plan", task |-> "ready",
            progress |-> FALSE, ledger |-> NoLedger]

Init ==
    /\ row = Created /\ version = 0
    /\ extension = [run |-> NoRequest, status |-> "none"]
    /\ composed = FALSE
    /\ evidence = ParentEvidence /\ findings = {}
    /\ at = [w \in Workers |-> "idle"]
    /\ copy = [w \in Workers |-> Created]
    /\ expected = [w \in Workers |-> 0]
    /\ handled = [w \in Workers |-> FALSE]
    /\ attempt = [w \in Workers |-> <<"search", 1>>]
    /\ step = [q \in Requests |-> "new"]
    /\ read = [q \in Requests |-> Created]
    /\ seen = [q \in Requests |-> 0]
    /\ calls = [k \in Kinds |-> 0] /\ overwritten = FALSE
    /\ faults = 0

-------------------------------------------------------------------------------
(***************************************************************************)
(* Requests: SelectedAuthorityExtensionService.start, then activate.       *)
(***************************************************************************)
Advance(q, s) == step' = [step EXCEPT ![q] = s]

\* get_by_idempotency_key.  A request that finds nothing creates a run, PAUSED;
\* the run of the request that is registered first is the one seen here.
Lookup(q) ==
    /\ step[q] = "new"
    /\ Advance(q, IF extension.run = NoRequest THEN "registering" ELSE "activating")
    /\ UNCHANGED <<rowVars, storeVars, workerVars, read, seen, historyVars, faults>>

Register(q) ==
    /\ step[q] = "registering" /\ extension.run = NoRequest
    /\ extension' = [run |-> q, status |-> "created"]
    /\ Advance(q, "describing")
    /\ UNCHANGED <<rowVars, composed, evidence, findings, workerVars, read, seen,
                   historyVars, faults>>

\* create_or_get selects, then inserts: it returns the other's extension or,
\* when that was committed in between, meets the unique key and raises.  Either
\* way the PAUSED run that lost is deleted.
RegisterLate(q) ==
    /\ step[q] = "registering" /\ extension.run # NoRequest
    /\ Advance(q, "activating") \/ Advance(q, "refused")
    /\ UNCHANGED <<rowVars, storeVars, workerVars, read, seen, historyVars, faults>>

\* WorkflowExtensionStateStore.save without a runtime context: the run and its
\* results are read, then the version.
Describe(q) ==
    /\ step[q] = "describing"
    /\ read' = [read EXCEPT ![q] = row]
    /\ Advance(q, "dating")
    /\ UNCHANGED <<rowVars, storeVars, workerVars, seen, historyVars, faults>>

ReadVersion(q) ==
    /\ \/ step[q] = "dating" /\ Advance(q, "saving")
       \/ step[q] = "comparing" /\ Advance(q, "merging")
    /\ seen' = [seen EXCEPT ![q] = version]
    /\ UNCHANGED <<rowVars, storeVars, workerVars, read, historyVars, faults>>

\* save_workflow_run; ConcurrentModificationError fails the request.
SaveRun(q, doc, next) ==
    \/ /\ version = seen[q]
       /\ row' = doc /\ version' = version + 1
       /\ overwritten' = (overwritten \/ row.status # "paused")
       /\ Advance(q, next)
    \/ /\ version # seen[q]
       /\ Advance(q, "refused")
       /\ UNCHANGED <<rowVars, overwritten>>

SaveLedger(q) ==
    /\ step[q] = "saving"
    /\ SaveRun(q, [read[q] EXCEPT !.ledger = Fresh], "activating")
    /\ UNCHANGED <<storeVars, workerVars, read, seen, calls, faults>>

\* activate: only a PAUSED run is resumed.
ReadRun(q) ==
    /\ step[q] = "activating"
    /\ \/ /\ row.status # "paused"
          /\ Advance(q, "answered") /\ UNCHANGED read
       \/ /\ row.status = "paused"
          /\ read' = [read EXCEPT ![q] = row]
          /\ Advance(q, "comparing")
    /\ UNCHANGED <<rowVars, storeVars, workerVars, seen, historyVars, faults>>

\* The version was read after the run, the task results after the version.
ReadResults(q) ==
    /\ step[q] = "merging"
    /\ read' = [read EXCEPT ![q].ledger = row.ledger, ![q].progress = row.progress]
    /\ Advance(q, "resuming")
    /\ UNCHANGED <<rowVars, storeVars, workerVars, seen, historyVars, faults>>

Resume(q) ==
    /\ step[q] = "resuming"
    /\ SaveRun(q, [read[q] EXCEPT !.status = "running"], "marking")
    /\ UNCHANGED <<storeVars, workerVars, read, seen, calls, faults>>

\* The extension is ACTIVE, whatever its worker has made of it meanwhile.
MarkActive(q) ==
    /\ step[q] = "marking"
    /\ extension' = [extension EXCEPT !.status = "active"]
    /\ Advance(q, "answered")
    /\ UNCHANGED <<rowVars, composed, evidence, findings, workerVars,
                   read, seen, historyVars, faults>>

Fault == faults < MaxFaults /\ faults' = faults + 1

Die(q) ==
    /\ step[q] \notin {"new", "answered", "refused", "dead"}
    /\ Fault /\ Advance(q, "dead")
    /\ UNCHANGED <<rowVars, storeVars, workerVars, read, seen, historyVars>>

-------------------------------------------------------------------------------
(***************************************************************************)
(* Workers: the claim, the recovery and the versioned checkpoints of       *)
(* WorkflowRuntimePersister.                                               *)
(***************************************************************************)
Goto(w, place) == at' = [at EXCEPT ![w] = place]

\* A claim while another worker is at the run takes it over: the lease lapsed.
Claim(w) ==
    /\ at[w] = "idle" /\ row.status = "running"
    /\ \/ /\ \A v \in Workers : at[v] = "idle"
          /\ UNCHANGED <<overwritten, faults>>
       \/ /\ \E v \in Workers : at[v] \in Lapses
          /\ Fault /\ overwritten' = TRUE
    /\ handled' = [handled EXCEPT ![w] = FALSE]
    /\ Goto(w, "claimed")
    /\ UNCHANGED <<rowVars, storeVars, copy, expected, attempt, requestVars, calls>>

LoadRun(w) ==
    /\ at[w] = "claimed"
    /\ copy' = [copy EXCEPT ![w] = row]
    /\ Goto(w, IF row.status = "running" THEN "loaded" ELSE "idle")
    /\ UNCHANGED <<rowVars, storeVars, expected, handled, attempt, requestVars,
                   historyVars, faults>>

\* A task found RUNNING is requeued when it has a progress checkpoint.
Recovered(task, progress) ==
    IF task # "running" THEN task ELSE IF progress THEN "ready" ELSE "failed"

LoadResults(w) ==
    /\ at[w] = "loaded"
    /\ expected' = [expected EXCEPT ![w] = version]
    /\ copy' = [copy EXCEPT ![w].ledger = row.ledger, ![w].progress = row.progress,
                            ![w].task = Recovered(@, row.progress)]
    /\ Goto(w, "start")
    /\ UNCHANGED <<rowVars, storeVars, handled, attempt, requestVars, historyVars, faults>>

\* fail_technical needs the ledger to find the extension.
TechnicalError ==
    extension' = IF row.ledger = NoLedger THEN extension
                 ELSE [extension EXCEPT !.status = "technical_error"]

Written(w, doc) ==
    /\ version = expected[w]
    /\ row' = doc /\ version' = version + 1
    /\ copy' = [copy EXCEPT ![w] = doc]
    /\ expected' = [expected EXCEPT ![w] = version + 1]

\* A refused checkpoint calls the failure handler that the first stage of the
\* execution installed, a lost guard does not; either way the worker gives up.
Save(w, doc, place) ==
    \/ /\ Written(w, doc) /\ Goto(w, place)
       /\ UNCHANGED <<extension, faults>>
    \/ /\ version # expected[w]
       /\ IF handled[w] THEN TechnicalError ELSE UNCHANGED extension
       /\ Goto(w, "idle")
       /\ UNCHANGED <<rowVars, copy, expected, faults>>
    \/ /\ faults < MaxFaults /\ faults' = faults + 1
       /\ Goto(w, "idle")
       /\ UNCHANGED <<rowVars, copy, expected, extension>>

\* The first checkpoint of an execution, which has no fingerprint yet.
Start(w) ==
    /\ at[w] = "start"
    /\ Save(w, copy[w], "pick")
    /\ UNCHANGED <<composed, evidence, findings, handled, attempt,
                   requestVars, historyVars>>

Begin(w) ==
    /\ at[w] = "pick" /\ copy[w].task = "ready"
    /\ Save(w, [copy[w] EXCEPT !.task = "running"], "stage")
    /\ handled' = [handled EXCEPT ![w] = TRUE]
    /\ UNCHANGED <<composed, evidence, findings, attempt, requestVars,
                   historyVars>>

\* on_task_finished; the next stage is scheduled.
Finish(w) ==
    /\ at[w] = "done"
    /\ Save(w, [copy[w] EXCEPT !.stage = After[@], !.progress = FALSE,
                   !.task = IF copy[w].stage = "finalize" THEN "completed" ELSE "ready"],
            "pick")
    /\ UNCHANGED <<composed, evidence, findings, handled, attempt,
                   requestVars, historyVars>>

FailTask(w) ==
    /\ at[w] = "failing"
    /\ Save(w, [copy[w] EXCEPT !.task = "failed"], "pick")
    /\ UNCHANGED <<composed, evidence, findings, handled, attempt,
                   requestVars, historyVars>>

EndRun(w) ==
    /\ at[w] = "pick" /\ copy[w].task \in {"completed", "failed"}
    /\ Save(w, [copy[w] EXCEPT !.status = copy[w].task], "idle")
    /\ UNCHANGED <<composed, evidence, findings, handled, attempt,
                   requestVars, historyVars>>

Crash(w) ==
    /\ at[w] # "idle"
    /\ Fault /\ Goto(w, "idle")
    /\ UNCHANGED <<rowVars, storeVars, copy, expected, handled, attempt, requestVars,
                   historyVars>>

-------------------------------------------------------------------------------
(***************************************************************************)
(* The ledger: atomic_update_task_results, then _sync_runtime_state.       *)
(***************************************************************************)

\* Mutant: the persister's copy stays behind.
AtomicUnsynced(w, ledger, place) ==
    /\ row' = [row EXCEPT !.ledger = ledger]
    /\ Goto(w, place)
    /\ UNCHANGED <<copy, version, expected, storeVars, requestVars, historyVars, faults>>

\* The row is updated whoever asks, and the version stays; the persister's
\* copy follows, so that its next checkpoint writes the update again.
Atomic(w, ledger, place) ==
    /\ row' = [row EXCEPT !.ledger = ledger]
    /\ copy' = [copy EXCEPT ![w].ledger = ledger]
    /\ Goto(w, place)
    /\ UNCHANGED <<version, expected, storeVars, requestVars, historyVars, faults>>

\* Control moves inside a stage without a transaction, or after one that
\* changed nothing seen here.
Move(w, place) ==
    /\ Goto(w, place)
    /\ UNCHANGED <<rowVars, storeVars, copy, expected, requestVars, historyVars, faults>>

Working(w, stages) == at[w] = "stage" /\ copy[w].stage \in stages
\* Where the delegate of a stage waits for its next call.
Rest(w) == IF copy[w].stage = "analysis" THEN "analysing" ELSE "stage"
Delegated(w) ==
    Working(w, {"search", "evidence", "readiness"}) \/ at[w] = "analysing"

\* Mutant: a budget that is used up is noticed one call late.
ExhaustedLate(l, k) ==
    \/ k = "search" /\ l.search > MaxSearch
    \/ k = "evidence" /\ l.provider + l.reserved > MaxProvider + l.analysed
    \/ k = "analysis" /\ l.analysed > l.reserved

Exhausted(l, k) ==
    \/ k = "search" /\ l.search >= MaxSearch
    \/ k = "evidence" /\ l.provider + l.reserved >= MaxProvider + l.analysed
    \/ k = "analysis" /\ l.analysed >= l.reserved

\* Mutant: an attempt whose outcome is unknown is no obstacle.
ReservableUnsure(l, k) == l # NoLedger /\ ~Exhausted(l, k)

\* _reject_ambiguous_attempt and the budget of the kind.
Reservable(l, k) == l # NoLedger /\ l.pending = {} /\ ~Exhausted(l, k)

NextAttempt(l, k) == <<k, 1 + IF k = "search" THEN l.search ELSE l.provider>>
Consumed(l, k) ==
    LET id == NextAttempt(l, k)
        used == [l EXCEPT !.known = @ \cup {id}, !.pending = @ \cup {id}]
    IN  IF k = "search" THEN [used EXCEPT !.search = @ + 1]
        ELSE IF k = "evidence" THEN [used EXCEPT !.provider = @ + 1]
        ELSE [used EXCEPT !.provider = @ + 1, !.analysed = @ + 1]

Reserve(w, k) ==
    /\ Delegated(w) /\ k \in CallsOf[copy[w].stage]
    /\ Reservable(row.ledger, k)
    /\ attempt' = [attempt EXCEPT ![w] = NextAttempt(row.ledger, k)]
    /\ Atomic(w, Consumed(row.ledger, k), "reserved")
    /\ UNCHANGED handled

\* operation(): the provider is called and answers or raises.
Call(w) ==
    /\ at[w] = "reserved"
    /\ calls' = [calls EXCEPT ![attempt[w][1]] = @ + 1]
    /\ Goto(w, "called")
    /\ UNCHANGED <<rowVars, storeVars, copy, expected, handled, attempt, requestVars,
                   overwritten, faults>>

\* complete_external_attempt: after an answer the delegate uses it, after an
\* exception it goes on or lets it through.
Complete(w) ==
    /\ at[w] = "called" /\ row.ledger # NoLedger /\ attempt[w] \in row.ledger.known
    /\ \E place \in {"answered", Rest(w), "broken"} :
          Atomic(w, [row.ledger EXCEPT !.pending = @ \ {attempt[w]}], place)
    /\ UNCHANGED <<handled, attempt>>

\* "external attempt not found": somebody replaced the ledger.
CompleteUnknown(w) ==
    /\ at[w] = "called"
    /\ row.ledger = NoLedger \/ attempt[w] \notin row.ledger.known
    /\ Move(w, Rest(w)) \/ Move(w, "broken")
    /\ UNCHANGED <<handled, attempt>>

\* The delegate persists what a call brought: evidence, or findings grounded
\* in evidence.  (Sources are not seen here.)
Keep(w) ==
    /\ at[w] = "answered"
    /\ \/ UNCHANGED <<evidence, findings>>
       \/ /\ attempt[w][1] = "evidence"
          /\ \E e \in Evidence : evidence' = evidence \cup {e}
          /\ UNCHANGED findings
       \/ /\ attempt[w][1] = "analysis"
          /\ \E n \in Needs :
                /\ \E e \in evidence : e[1] = n
                /\ findings' = findings \cup {n}
          /\ UNCHANGED evidence
    /\ Goto(w, Rest(w))
    /\ UNCHANGED <<rowVars, extension, composed, copy, expected, handled,
                   attempt, requestVars, historyVars, faults>>

-------------------------------------------------------------------------------
(***************************************************************************)
(* The stages: AuthorityExtensionStageExecutor._run_in_scope.              *)
(***************************************************************************)

\* reserve_analysis_budget.
Plan(w) ==
    /\ Working(w, {"plan"}) /\ row.ledger # NoLedger
    /\ row.ledger.provider + Reservation <= MaxProvider
    /\ Atomic(w, [row.ledger EXCEPT !.reserved = Reservation], "done")
    /\ UNCHANGED <<handled, attempt>>

\* The reservation exceeds the budget.
PlanRaises(w) ==
    /\ Working(w, {"plan"}) /\ row.ledger # NoLedger
    /\ row.ledger.provider + Reservation > MaxProvider
    /\ Move(w, "broken")
    /\ UNCHANGED <<handled, attempt>>

\* A delegate, or what captures its results, raises; a refused reservation is
\* one reason.  Any stage raises when the state of the extension is missing.
Raise(w) ==
    /\ Delegated(w) \/ (at[w] = "stage" /\ row.ledger = NoLedger)
    /\ Move(w, "broken")
    /\ UNCHANGED <<handled, attempt>>

EndSearch(w) ==
    /\ Working(w, {"search"})
    /\ Move(w, "done")
    /\ UNCHANGED <<handled, attempt>>

\* The quality loop of the readiness stage checkpoints its progress.
Progress(w) ==
    /\ Working(w, {"readiness"}) /\ ~copy[w].progress
    /\ \/ /\ Written(w, [copy[w] EXCEPT !.progress = TRUE])
          /\ UNCHANGED <<at, faults>>
       \/ /\ version # expected[w]
          /\ Goto(w, "expelled")
          /\ UNCHANGED <<rowVars, copy, expected, faults>>
       \/ /\ faults < MaxFaults /\ faults' = faults + 1
          /\ Goto(w, "expelled")
          /\ UNCHANGED <<rowVars, copy, expected>>
    /\ UNCHANGED <<storeVars, handled, attempt, requestVars, historyVars>>

\* record_observations of both members; the readiness stage also records why
\* the loop ended and evaluates the gaps.
Capture(w) ==
    /\ Working(w, {"evidence", "readiness"}) /\ row.ledger # NoLedger
    /\ Atomic(w, [row.ledger EXCEPT !.observed = @ \cup evidence], "done")
    /\ UNCHANGED <<handled, attempt>>

\* qualify_gap over the gaps of the contract.
Conflicting(l) == \E n \in Needs : <<n, "conflicting">> \in l.observed
Satisfied(l) ==
    /\ ~Conflicting(l)
    /\ \A n \in Needs : <<n, "supporting">> \in l.observed /\ <<n, "foreign">> \notin l.observed

\* analysis_gate.
GateOpen(l) == l.pending = {} /\ Satisfied(l) /\ l.analysed < l.reserved

PassGate(w) ==
    /\ Working(w, {"analysis"}) /\ row.ledger # NoLedger
    /\ Atomic(w, row.ledger, IF GateOpen(row.ledger) THEN "analysing" ELSE "done")
    /\ UNCHANGED <<handled, attempt>>

\* record_findings refuses a finding whose evidence the ledger does not have.
CaptureFindings(w) ==
    /\ at[w] = "analysing" /\ row.ledger # NoLedger
    /\ \A n \in findings : \E e \in row.ledger.observed : e[1] = n
    /\ Atomic(w, [row.ledger EXCEPT !.found = @ \cup findings], "done")
    /\ UNCHANGED <<handled, attempt>>

\* Mutant: evidence is enough, whether or not anything was found in it.
VerdictUnfound(l) ==
    IF Conflicting(l) THEN "conflicting"
    ELSE IF Satisfied(l) THEN "composing"
    ELSE "insufficient"

Verdict(l) ==
    IF Conflicting(l) THEN "conflicting"
    ELSE IF Satisfied(l) /\ l.found = Needs THEN "composing"
    ELSE "insufficient"

\* finalize evaluates, and decides on the ledger it evaluated.
Evaluate(w) ==
    /\ Working(w, {"finalize"}) /\ row.ledger # NoLedger
    /\ Atomic(w, row.ledger, Verdict(row.ledger))
    /\ UNCHANGED <<handled, attempt>>

SetStatus(status) == extension' = [extension EXCEPT !.status = status]

Conclude(w) ==
    /\ at[w] \in {"conflicting", "insufficient"}
    /\ SetStatus(at[w]) /\ Goto(w, "done")
    /\ UNCHANGED <<rowVars, composed, evidence, findings, copy, expected,
                   handled, attempt, requestVars, historyVars, faults>>

\* The composition is stored first, by its digest, then the status.
Compose(w) ==
    /\ at[w] = "composing"
    /\ composed' = TRUE /\ Goto(w, "announcing")
    /\ UNCHANGED <<rowVars, extension, evidence, findings, copy, expected,
                   handled, attempt, requestVars, historyVars, faults>>

Announce(w) ==
    /\ at[w] = "announcing"
    /\ SetStatus("succeeded") /\ Goto(w, "storing")
    /\ UNCHANGED <<rowVars, composed, evidence, findings, copy, expected,
                   handled, attempt, requestVars, historyVars, faults>>

\* states.save inside the runtime: persist_named_result is a checkpoint.
Store(w) ==
    /\ at[w] = "storing"
    /\ \/ /\ Written(w, copy[w]) /\ Goto(w, "done")
          /\ UNCHANGED faults
       \/ /\ version # expected[w]
          /\ Goto(w, "expelled")
          /\ UNCHANGED <<rowVars, copy, expected, faults>>
       \/ /\ faults < MaxFaults /\ faults' = faults + 1
          /\ Goto(w, "expelled")
          /\ UNCHANGED <<rowVars, copy, expected>>
    /\ UNCHANGED <<storeVars, handled, attempt, requestVars, historyVars>>

\* fail_technical, and the exception goes on to the task executor.  A worker
\* whose checkpoint was refused has no later one that is not.
FailTechnical(w) ==
    /\ \/ at[w] = "broken" /\ Goto(w, "failing")
       \/ at[w] = "expelled" /\ Goto(w, "idle")
    /\ TechnicalError
    /\ UNCHANGED <<rowVars, composed, evidence, findings, copy, expected,
                   handled, attempt, requestVars, historyVars, faults>>

-------------------------------------------------------------------------------
RequestNext(q) ==
    \/ Lookup(q) \/ Register(q) \/ RegisterLate(q) \/ Describe(q) \/ ReadVersion(q)
    \/ SaveLedger(q) \/ ReadRun(q) \/ ReadResults(q) \/ Resume(q) \/ MarkActive(q) \/ Die(q)

WorkerNext(w) ==
    \/ Claim(w) \/ LoadRun(w) \/ LoadResults(w) \/ Start(w) \/ Begin(w)
    \/ Finish(w) \/ FailTask(w) \/ EndRun(w) \/ Crash(w)
    \/ (\E k \in Kinds : Reserve(w, k)) \/ Call(w) \/ Complete(w)
    \/ CompleteUnknown(w) \/ Keep(w) \/ Plan(w) \/ PlanRaises(w) \/ Raise(w)
    \/ EndSearch(w) \/ Progress(w) \/ Capture(w) \/ PassGate(w)
    \/ CaptureFindings(w) \/ Evaluate(w) \/ Conclude(w) \/ Compose(w)
    \/ Announce(w) \/ Store(w) \/ FailTechnical(w)

Next == (\E q \in Requests : RequestNext(q)) \/ (\E w \in Workers : WorkerNext(w))

Spec == Init /\ [][Next]_vars

-------------------------------------------------------------------------------
(* Types and safety. *)

TypeOK ==
    /\ row \in Document /\ version \in Nat
    /\ extension \in [run : Requests \cup {NoRequest}, status : ExtensionStatus]
    /\ composed \in BOOLEAN
    /\ evidence \subseteq Evidence /\ findings \subseteq Needs
    /\ at \in [Workers -> Place] /\ copy \in [Workers -> Document]
    /\ expected \in [Workers -> Nat] /\ handled \in [Workers -> BOOLEAN]
    /\ attempt \in [Workers -> Kinds \X Nat]
    /\ step \in [Requests -> Step] /\ read \in [Requests -> Document]
    /\ seen \in [Requests -> Nat]
    /\ calls \in [Kinds -> Nat] /\ overwritten \in BOOLEAN
    /\ faults \in Nat

Accounted ==
    IF row.ledger = NoLedger THEN \A k \in Kinds : calls[k] = 0
    ELSE /\ calls["search"] <= row.ledger.search
         /\ calls["evidence"] + row.ledger.analysed <= row.ledger.provider
         /\ calls["analysis"] <= row.ledger.analysed

\* Through crashes and restarts the ledger accounts for every call that was
\* made, so that the extension stays within its budgets; as long as no living
\* worker is superseded and no request saves a run that was activated.
SpendIsCounted ==
    ~overwritten =>
        /\ Accounted
        /\ calls["search"] <= MaxSearch
        /\ calls["evidence"] + calls["analysis"] <= MaxProvider

\* The attempts whose outcome stays unknown: the worker that made them is gone.
Orphans ==
    IF row.ledger = NoLedger THEN {}
    ELSE {id \in row.ledger.pending :
             \A w \in Workers : at[w] \in {"reserved", "called"} => attempt[w] # id}

\* After a crash in the middle of a call nothing is called any more, and the
\* attempt stays open: no recovery answers for it or repeats it.
AmbiguityHolds ==
    [][Orphans # {} /\ ~overwritten' => calls' = calls /\ Orphans \subseteq Orphans']_vars

\* A composed authority exists, and an extension is reported SUCCEEDED, only
\* when each selected need has supporting evidence and a finding, and the
\* analysis was paid for; whichever workers and requests interfered.
SuccessIsEarned ==
    /\ extension.status = "succeeded" => composed
    /\ composed =>
        /\ findings = Needs
        /\ \A n \in Needs : <<n, "supporting">> \in evidence
        /\ Needs = {} \/ calls["analysis"] > 0

\* selected_workflow.py:238, "Persists the complete bounded lifecycle ledger in
\* WorkflowRun task results".
LedgerIsComplete == Accounted
===============================================================================
