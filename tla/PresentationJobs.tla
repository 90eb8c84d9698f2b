--------------------------- MODULE PresentationJobs ---------------------------
(***************************************************************************)
(* The presentation outbox: PPTX jobs in a PostgreSQL table, claimed with  *)
(* a lease by the worker loops, and the runs that wait for them.  An       *)
(* approved Desk report is finalized by the last task of its run: it       *)
(* schedules the job, renders the PDF, walks the job through its early     *)
(* states and pauses the run.  Any worker may meanwhile claim the job; the *)
(* one that brings it to an end settles the paused run.  Draft packages    *)
(* are rendered inside the report task, under one worker id for all, and   *)
(* a user may ask for any approved report.                                 *)
(*                                                                         *)
(* Every transaction is one step.  A job is identified with the source     *)
(* version it renders.  Names of states that differ only by the kind of    *)
(* job are one: "pending" is pending, pptx_pending and draft_pending,      *)
(* "processing" also pptx_processing, "done" is completed,                 *)
(* finalization_complete and ready_for_review.  A lease is the flag        *)
(* `live`.  The lease of the run itself is that of module DurableRun: here *)
(* one worker at a time executes a run, until it crashes.                  *)
(***************************************************************************)
EXTENDS Naturals

CONSTANTS
    Workers,
    DraftGenerator,  \* the worker id of every draft package
    Nobody,
    Sources,         \* exact source versions, one possible job for each
    NoSource,
    Contract,        \* the kind of each source
    MaxAttempts,     \* MAX_PPTX_ATTEMPTS
    MaxFaults        \* bound on crashes

\* structured and editorial reports have a run that waits; structured ones
\* are bound to it by the finalizer only, editorial ones by their provenance.
ASSUME SourcesAssumption ==
    /\ NoSource \notin Sources
    /\ Contract \in [Sources -> {"structured", "editorial", "plain", "draft"}]
ASSUME WorkersAssumption ==
    DraftGenerator \notin Workers /\ Nobody \notin Workers \cup {DraftGenerator}
ASSUME BoundsAssumption ==
    MaxAttempts \in Nat \ {0} /\ MaxFaults \in Nat

JobState == {"none", "pending", "review_approved", "pdf_generating", "pdf_complete",
             "processing", "retry_wait", "failed", "draft_failed", "failed_terminal", "done"}
Unclaimed == {"pending", "review_approved", "pdf_generating", "pdf_complete", "retry_wait"}

\* "ready": the finalization task is due; "running": it was checkpointed RUNNING.
RunStatus == {"none", "ready", "running", "paused", "completed", "failed"}
RunEnd == {"completed", "failed"}

VARIABLES
    \* the presentation_jobs table, indexed by source
    job,
    \* the deliverables table and the artifacts
    pdf, pptx, artifact,
    \* the sources whose report, review and provenance are what they were
    current,
    \* the runs: status and version
    run, version,
    \* each worker: where it is, on which source, under which worker id,
    pc, src, who,
    claim,     \* the attempts of the job when it was claimed
    expected,  \* the run version it will save against
    outcome,   \* what its finalization task came to
    faults

storeVars == <<pdf, pptx, artifact>>
runVars == <<run, version>>
localVars == <<pc, src, who, claim, expected, outcome>>
vars == <<job, storeVars, current, runVars, localVars, faults>>

NoJob == [state |-> "none", attempts |-> 0, by |-> Nobody, live |-> FALSE, bound |-> FALSE]

HasRun(s) == Contract[s] \in {"structured", "editorial"}

Init ==
    /\ job = [s \in Sources |-> NoJob]
    /\ pdf = {} /\ pptx = {} /\ artifact = {}
    /\ current = Sources
    /\ run = [s \in Sources |-> IF HasRun(s) THEN "ready" ELSE "none"]
    /\ version = [s \in Sources |-> 0]
    /\ pc = [w \in Workers |-> "idle"]
    /\ src = [w \in Workers |-> NoSource]
    /\ who = [w \in Workers |-> w]
    /\ claim = [w \in Workers |-> 0]
    /\ expected = [w \in Workers |-> 0]
    /\ outcome = [w \in Workers |-> "none"]
    /\ faults = 0

-------------------------------------------------------------------------------
(* PostgreSQLPresentationJobs: what each statement makes of the table. *)

Inserted(state, bound) == [NoJob EXCEPT !.state = state, !.bound = bound]

\* retry
Retried(j) ==
    IF j.state \in {"failed", "retry_wait"} /\ j.attempts < MaxAttempts
    THEN [j EXCEPT !.state = "pending"] ELSE j

\* schedule inserts the row unless its identity exists; its caller retries
\* a failed one.
Schedule(s, state, bound) ==
    job' = [job EXCEPT ![s] = IF @.state = "none" THEN Inserted(state, bound) ELSE Retried(@)]

\* Mutant: a transition from whatever state the job is in.
MovedAlways(j, from, to) == [j EXCEPT !.state = to]

\* transition
Moved(j, from, to) == IF j.state \in from THEN [j EXCEPT !.state = to] ELSE j

Transition(s, from, to) == job' = [job EXCEPT ![s] = Moved(@, from, to)]

\* Mutant: exhausted jobs are not looked for.
NeverExhausted(j) == FALSE

Exhausted(j) == j.state = "processing" /\ ~j.live /\ MaxAttempts <= j.attempts

Claimable(j) ==
    \/ j.state \in Unclaimed
    \/ j.state = "processing" /\ ~j.live /\ j.attempts < MaxAttempts

\* The end of a claim.
Released(j, state) == [j EXCEPT !.state = state, !.by = Nobody, !.live = FALSE]

Swept(j) == IF Exhausted(j) THEN Released(j, "failed_terminal") ELSE j
Claimed(j, id) ==
    [j EXCEPT !.state = "processing", !.attempts = @ + 1, !.by = id, !.live = TRUE]

\* Mutant: a claim is any claim, whoever made it.
HoldsAny(j, id) == j.state = "processing"

\* What complete and fail ask of the row; complete also asks for the lease.
Holds(j, id) == j.state = "processing" /\ j.by = id

\* _failure_state
FailureState(s, j) ==
    IF Contract[s] = "draft" THEN "draft_failed"
    ELSE IF ~j.bound THEN "failed"
    ELSE IF MaxAttempts <= j.attempts THEN "failed_terminal" ELSE "retry_wait"

-------------------------------------------------------------------------------
(* process_next_presentation, up to the settlement. *)

Goto(w, place) == pc' = [pc EXCEPT ![w] = place]

\* Mutant: an idle worker still has the job in hand.
LeaveHolding(w) ==
    /\ Goto(w, "idle")
    /\ who' = [who EXCEPT ![w] = w]
    /\ claim' = [claim EXCEPT ![w] = 0]
    /\ expected' = [expected EXCEPT ![w] = 0]
    /\ outcome' = [outcome EXCEPT ![w] = "none"]
    /\ UNCHANGED src

\* The worker has done with its job or its run.
Leave(w) ==
    /\ Goto(w, "idle")
    /\ src' = [src EXCEPT ![w] = NoSource]
    /\ who' = [who EXCEPT ![w] = w]
    /\ claim' = [claim EXCEPT ![w] = 0]
    /\ expected' = [expected EXCEPT ![w] = 0]
    /\ outcome' = [outcome EXCEPT ![w] = "none"]

\* claim_next: exhausted jobs become terminal, then a claimable job is taken:
\* the oldest of those that no other transaction has locked, so any, or none.
ClaimNext(w) ==
    /\ pc[w] \in {"idle", "draft"}
    /\ \/ \E s \in Sources :
            /\ Claimable(job[s])
            /\ job' = [t \in Sources |-> IF t = s THEN Claimed(job[s], who[w])
                                                  ELSE Swept(job[t])]
            /\ Goto(w, "check")
            /\ src' = [src EXCEPT ![w] = s]
            /\ claim' = [claim EXCEPT ![w] = job[s].attempts + 1]
            /\ UNCHANGED <<who, expected, outcome>>
       \/ /\ job' = [t \in Sources |-> Swept(job[t])]
          /\ Leave(w)
    /\ UNCHANGED <<storeVars, current, runVars, faults>>

\* The source is read again: approval, version, status, lineage.
CheckSource(w) ==
    /\ pc[w] = "check"
    /\ Goto(w, IF src[w] \notin current THEN "fail"
               ELSE IF job[src[w]].bound THEN "make_pdf" ELSE "render")
    /\ UNCHANGED <<job, storeVars, current, runVars, src, who, claim, expected, outcome, faults>>

\* _generate_item: a bound job may have been claimed before the finalizer
\* rendered the PDF.
MakePdf(w) ==
    /\ pc[w] = "make_pdf"
    /\ pdf' = pdf \cup {src[w]}
    /\ Goto(w, "render")
    /\ UNCHANGED <<job, pptx, artifact, current, runVars, src, who, claim, expected, outcome, faults>>

\* An existing presentation is found, a new one stored; both by identity.
Render(w) ==
    /\ pc[w] = "render"
    /\ pptx' = pptx \cup {src[w]}
    /\ Goto(w, IF Contract[src[w]] = "editorial" THEN "verify" ELSE "complete")
    /\ UNCHANGED <<job, pdf, artifact, current, runVars, src, who, claim, expected, outcome, faults>>

\* A job with provenance is completed only beside its PDF and its artifact.
Verify(w) ==
    /\ pc[w] = "verify"
    /\ Goto(w, IF src[w] \in current \cap pdf \cap artifact THEN "complete" ELSE "fail")
    /\ UNCHANGED <<job, storeVars, current, runVars, src, who, claim, expected, outcome, faults>>

\* Refused when the claim is another's or its lease has lapsed; the worker
\* does not look at the answer.
Complete(w) ==
    /\ pc[w] = "complete"
    /\ job' = [job EXCEPT ![src[w]] =
                 IF Holds(@, who[w]) /\ @.live THEN Released(@, "done") ELSE @]
    /\ Goto(w, "refresh")
    /\ UNCHANGED <<storeVars, current, runVars, src, who, claim, expected, outcome, faults>>

\* fail does not ask for the lease.
Fail(w) ==
    /\ pc[w] = "fail"
    /\ job' = [job EXCEPT ![src[w]] =
                 IF Holds(@, who[w]) THEN Released(@, FailureState(src[w], @)) ELSE @]
    /\ Goto(w, "refresh")
    /\ UNCHANGED <<storeVars, current, runVars, src, who, claim, expected, outcome, faults>>

\* Anything may raise on the way.
StepFails(w) ==
    /\ pc[w] \in {"check", "make_pdf", "render", "verify", "complete"}
    /\ Goto(w, "fail")
    /\ UNCHANGED <<job, storeVars, current, runVars, src, who, claim, expected, outcome, faults>>

-------------------------------------------------------------------------------
(* The others who schedule jobs. *)

\* generate_draft_package, inside the report task: PDF and row of the report,
\* found if they are there, then, while that row waits or has failed, one round
\* of process_next_presentation, whatever job that takes.
GenerateDraft(w, s) ==
    /\ pc[w] = "idle"
    /\ Contract[s] = "draft" /\ s \in current
    /\ pdf' = pdf \cup {s}
    /\ Schedule(s, "pending", FALSE)
    /\ \/ /\ job[s].state \in {"none", "pending", "draft_failed"}
          /\ Goto(w, "draft")
          /\ who' = [who EXCEPT ![w] = DraftGenerator]
       \/ /\ job[s].state \in {"processing", "failed_terminal", "done"}
          /\ UNCHANGED <<pc, who>>
    /\ UNCHANGED <<pptx, artifact, current, runVars, src, claim, expected, outcome, faults>>

\* schedule_presentation: a user asks for an approved source.  The row of a
\* structured report is then not bound to its run.
UserSchedule(s) ==
    /\ Contract[s] # "draft" /\ s \in current
    /\ IF Contract[s] = "editorial" THEN Schedule(s, "review_approved", TRUE)
                                    ELSE Schedule(s, "pending", FALSE)
    /\ UNCHANGED <<storeVars, current, runVars, localVars, faults>>

-------------------------------------------------------------------------------
(* FinalizationExecutor and finalize_approved_review. *)

\* The task is checkpointed RUNNING before its executor starts.
StartFinalization(w, s) ==
    /\ pc[w] = "idle"
    /\ run[s] = "ready"
    /\ run' = [run EXCEPT ![s] = "running"]
    /\ version' = [version EXCEPT ![s] = @ + 1]
    /\ expected' = [expected EXCEPT ![w] = version[s] + 1]
    /\ src' = [src EXCEPT ![w] = s]
    /\ Goto(w, "authority")
    /\ UNCHANGED <<job, storeVars, current, who, claim, outcome, faults>>

Conclude(w, result) ==
    /\ outcome' = [outcome EXCEPT ![w] = result]
    /\ Goto(w, "commit")
    /\ UNCHANGED <<src, who, claim, expected>>

\* The approval gate, and the artifact of an approved editorial report.
PassApproval(w) ==
    /\ pc[w] = "authority"
    /\ \/ /\ src[w] \in current
          /\ artifact' = IF Contract[src[w]] = "editorial" THEN artifact \cup {src[w]} ELSE artifact
          /\ Goto(w, "scheduling")
          /\ UNCHANGED <<src, who, claim, expected, outcome>>
       \/ /\ src[w] \notin current
          /\ Conclude(w, "failed")
          /\ UNCHANGED artifact
    /\ UNCHANGED <<job, pdf, pptx, current, runVars, faults>>

\* The job of the revision that was approved a moment ago.
ScheduleApproved(w) ==
    /\ pc[w] = "scheduling"
    /\ Schedule(src[w], "review_approved", TRUE)
    /\ Goto(w, "generating")
    /\ UNCHANGED <<storeVars, current, runVars, src, who, claim, expected, outcome, faults>>

MarkGenerating(w) ==
    /\ pc[w] = "generating"
    /\ Transition(src[w], {"review_approved"}, "pdf_generating")
    /\ Goto(w, "pdf")
    /\ UNCHANGED <<storeVars, current, runVars, src, who, claim, expected, outcome, faults>>

\* Mutant: a PDF that cannot be rendered is passed over.
FinalizerPdfSwallowed(w) ==
    /\ pc[w] = "pdf"
    /\ Goto(w, "pdf_done")
    /\ UNCHANGED <<job, storeVars, current, runVars, src, who, claim, expected, outcome, faults>>

FinalizerPdf(w) ==
    /\ pc[w] = "pdf"
    /\ pdf' = pdf \cup {src[w]}
    /\ Goto(w, "pdf_done")
    /\ UNCHANGED <<job, pptx, artifact, current, runVars, src, who, claim, expected, outcome, faults>>

MarkPdfComplete(w) ==
    /\ pc[w] = "pdf_done"
    /\ Transition(src[w], {"pdf_generating", "review_approved"}, "pdf_complete")
    /\ Goto(w, "pptx")
    /\ UNCHANGED <<storeVars, current, runVars, src, who, claim, expected, outcome, faults>>

\* What the task comes to, from the job as the last transition found it.
Conclusion(s, state) ==
    IF state # "done" THEN "paused"
    ELSE IF s \in current \cap pptx THEN "completed" ELSE "failed"

MarkPptxPending(w) ==
    /\ pc[w] = "pptx"
    /\ Transition(src[w], {"pdf_complete"}, "pending")
    /\ Conclude(w, Conclusion(src[w], job'[src[w]].state))
    /\ UNCHANGED <<storeVars, current, runVars, faults>>

\* An exception fails the task and, after the job was scheduled, also the job
\* unless somebody has taken it.
FinalizerFails(w) ==
    /\ \/ pc[w] \in {"authority", "scheduling"} /\ UNCHANGED job
       \/ /\ pc[w] \in {"generating", "pdf", "pdf_done", "pptx"}
          /\ Transition(src[w], {"review_approved", "pdf_generating"}, "failed_terminal")
    /\ Conclude(w, "failed")
    /\ UNCHANGED <<storeVars, current, runVars, faults>>

\* The checkpoint of the finished task.  (Those of the failed or completed
\* task and of its run are one step: a RUNNING run is nobody else's.)
CommitOutcome(w) ==
    /\ pc[w] = "commit"
    /\ run' = [run EXCEPT ![src[w]] = outcome[w]]
    /\ version' = [version EXCEPT ![src[w]] = @ + 1]
    /\ \/ /\ outcome[w] = "paused"
          /\ expected' = [expected EXCEPT ![w] = @ + 1]
          /\ Goto(w, "usage")
          /\ UNCHANGED <<src, who, claim, outcome>>
       \/ /\ outcome[w] # "paused"
          /\ Leave(w)
    /\ UNCHANGED <<job, storeVars, current, faults>>

\* The last checkpoint of the execution writes the paused run once more,
\* with the usage summary; it is refused if the run was settled in between.
CommitUsage(w) ==
    /\ pc[w] = "usage"
    /\ version' = [version EXCEPT ![src[w]] = IF @ = expected[w] THEN @ + 1 ELSE @]
    /\ Leave(w)
    /\ UNCHANGED <<job, storeVars, current, run, faults>>

\* The worker that finds a task RUNNING whose executor has died fails it,
\* and the run with it.
RecoverRun(s) ==
    /\ run[s] = "running"
    /\ \A w \in Workers : src[w] = s =>
          pc[w] \notin {"authority", "scheduling", "generating", "pdf", "pdf_done", "pptx", "commit"}
    /\ run' = [run EXCEPT ![s] = "failed"]
    /\ version' = [version EXCEPT ![s] = @ + 1]
    /\ UNCHANGED <<job, storeVars, current, localVars, faults>>

-------------------------------------------------------------------------------
(* _settle_structured_workflow. *)

\* Mutant: a job that will be retried settles its run, too.
EndsRunEarly(j) == j.bound /\ j.state \in {"done", "failed_terminal", "retry_wait"}

EndsRun(j) == j.bound /\ j.state \in {"done", "failed_terminal"}

\* The job is read again, and the run: it must be PAUSED by now.
RefreshJob(w) ==
    /\ pc[w] = "refresh"
    /\ \/ /\ EndsRun(job[src[w]]) /\ run[src[w]] = "paused"
          /\ Goto(w, "version")
          /\ UNCHANGED <<src, who, claim, expected, outcome>>
       \/ /\ ~EndsRun(job[src[w]]) \/ run[src[w]] # "paused"
          /\ Leave(w)
    /\ UNCHANGED <<job, storeVars, current, runVars, faults>>

ReadVersion(w) ==
    /\ pc[w] = "version"
    /\ expected' = [expected EXCEPT ![w] = version[src[w]]]
    /\ Goto(w, "save")
    /\ UNCHANGED <<job, storeVars, current, runVars, src, who, claim, outcome, faults>>

\* A conflict raises, the worker loop logs it, and nobody tries again.
SaveRun(w) ==
    /\ pc[w] = "save"
    /\ \/ /\ version[src[w]] = expected[w]
          /\ run' = [run EXCEPT ![src[w]] =
                       IF job[src[w]].state = "done" THEN "completed" ELSE "failed"]
          /\ version' = [version EXCEPT ![src[w]] = @ + 1]
       \/ /\ version[src[w]] # expected[w]
          /\ UNCHANGED runVars
    /\ Leave(w)
    /\ UNCHANGED <<job, storeVars, current, faults>>

-------------------------------------------------------------------------------
(* The environment. *)

\* The lease of a claim passes.
Lapse(s) ==
    /\ job[s].state = "processing" /\ job[s].live
    /\ job' = [job EXCEPT ![s].live = FALSE]
    /\ UNCHANGED <<storeVars, current, runVars, localVars, faults>>

\* A new review or revision: the source version is no longer the report's.
Supersede(s) ==
    /\ s \in current
    /\ current' = current \ {s}
    /\ UNCHANGED <<job, storeVars, runVars, localVars, faults>>

\* A worker dies and is restarted, under its own id.
Crash(w) ==
    /\ faults < MaxFaults
    /\ pc[w] # "idle"
    /\ faults' = faults + 1
    /\ Leave(w)
    /\ UNCHANGED <<job, storeVars, current, runVars>>

Process(w) ==
    CheckSource(w) \/ MakePdf(w) \/ Render(w) \/ Verify(w) \/ Complete(w) \/ Fail(w)
Finalize(w) ==
    PassApproval(w) \/ ScheduleApproved(w) \/ MarkGenerating(w) \/ FinalizerPdf(w) \/ MarkPdfComplete(w)
    \/ MarkPptxPending(w) \/ CommitOutcome(w) \/ CommitUsage(w)
Settle(w) == RefreshJob(w) \/ ReadVersion(w) \/ SaveRun(w)

Next ==
    \/ \E w \in Workers :
          \/ ClaimNext(w) \/ Process(w) \/ StepFails(w) \/ Settle(w)
          \/ Finalize(w) \/ FinalizerFails(w) \/ Crash(w)
          \/ \E s \in Sources : GenerateDraft(w, s) \/ StartFinalization(w, s)
    \/ \E s \in Sources : UserSchedule(s) \/ RecoverRun(s) \/ Lapse(s) \/ Supersede(s)

Spec == Init /\ [][Next]_vars

\* The worker loop never stops, and gives runs and jobs a turn in each round;
\* a renderer ends within its timeout, and leases end with time.
FairSpec ==
    /\ Spec
    /\ \A w \in Workers :
          /\ WF_vars(ClaimNext(w))
          /\ WF_vars(Process(w) \/ Settle(w) \/ Finalize(w))
          /\ \A s \in Sources : WF_vars(StartFinalization(w, s))
    /\ \A s \in Sources : WF_vars(RecoverRun(s)) /\ WF_vars(Lapse(s))

-------------------------------------------------------------------------------
(* Types and the places of a worker. *)

Rendering == {"check", "make_pdf", "render", "verify", "complete", "fail"}
Settling == {"refresh", "version", "save"}
Finalizing == {"authority", "scheduling", "generating", "pdf", "pdf_done", "pptx", "commit"}

\* The type invariant of the tables and of every worker; a worker has a
\* source exactly while it is at work on one.
TypeOK ==
    /\ job \in [Sources -> [state : JobState, attempts : Nat,
                            by : Workers \cup {DraftGenerator, Nobody}, live : BOOLEAN,
                            bound : BOOLEAN]]
    /\ pdf \subseteq Sources /\ pptx \subseteq Sources /\ artifact \subseteq Sources
    /\ current \subseteq Sources
    /\ run \in [Sources -> RunStatus]
    /\ version \in [Sources -> Nat]
    /\ pc \in [Workers -> {"idle", "draft", "usage"} \cup Rendering \cup Settling \cup Finalizing]
    /\ src \in [Workers -> Sources \cup {NoSource}]
    /\ who \in [Workers -> Workers \cup {DraftGenerator}]
    /\ claim \in [Workers -> Nat]
    /\ expected \in [Workers -> Nat]
    /\ outcome \in [Workers -> {"none", "paused", "completed", "failed"}]
    /\ faults \in 0..MaxFaults
    /\ \A w \in Workers : src[w] = NoSource <=> pc[w] \in {"idle", "draft"}

-------------------------------------------------------------------------------
(* Safety. *)

\* A job is started at most MaxAttempts times, whatever its leases, failures,
\* retries by users and the early states of its finalization come to
\* (claim_next does not ask for the limit where it takes a waiting job).
AttemptsBounded == \A s \in Sources : job[s].attempts <= MaxAttempts

\* A job that is done has its presentation stored and, when it is bound to a
\* reviewed revision, the PDF of that revision too, although claims do not
\* wait for the finalizer, which renders the PDF.
DoneIsDelivered ==
    \A s \in Sources : job[s].state = "done" =>
        /\ s \in pptx
        /\ job[s].bound => s \in pdf
        /\ job[s].bound /\ Contract[s] = "editorial" => s \in artifact

\* A run is COMPLETED, by its own task or by the settlement, only when both
\* of its deliverables are stored and its job is done.
CompletedRunIsDelivered ==
    \A s \in Sources : run[s] = "completed" =>
        job[s].state = "done" /\ s \in pdf /\ s \in pptx

\* A worker whose claim was followed by another one neither completes nor
\* fails the job, although the worker id and not the claim is compared.  (Not
\* so for DraftGenerator, the id that several workers use at once.)
OnlyTheClaimantSettles ==
    [][\A w \in Workers :
          /\ pc[w] \in {"complete", "fail"} /\ pc'[w] = "refresh"
          /\ who[w] = w
          /\ job'[src[w]] # job[src[w]]
          => claim[w] = job[src[w]].attempts]_vars

\* A paused run is completed when its job is done and failed when its job
\* has failed for good, never before; and a run that has ended stays so,
\* whoever else was about to settle it.
RunFollowsItsJob ==
    [][\A s \in Sources : run'[s] # run[s] =>
          /\ run[s] \notin RunEnd
          /\ run[s] = "paused" =>
                \/ run'[s] = "completed" /\ job[s].state = "done"
                \/ run'[s] = "failed" /\ job[s].state = "failed_terminal"]_vars

-------------------------------------------------------------------------------
(* The abstract specification. *)

Stage(s) ==
    LET state == job[s].state IN
    CASE state = "none" -> "none"
      [] state = "failed" -> "closed"
      [] state = "done" -> "delivered"
      [] state \in {"draft_failed", "failed_terminal"} -> "abandoned"
      [] OTHER -> "open"

Promise == INSTANCE Delivery WITH
    stage <- [s \in Sources |-> Stage(s)],
    tries <- [s \in Sources |-> job[s].attempts],
    rendered <- pptx

\* The outbox, with its leases, retries and stale workers, keeps the promise
\* of Delivery: delivered and abandoned jobs stay so.
DeliveryKept == Promise!Spec

-------------------------------------------------------------------------------
(* Liveness, under FairSpec. *)

Settled(s) == job[s].state \in {"failed", "draft_failed", "failed_terminal", "done"}

\* Every job that waits or is worked on comes to an end, also when the worker
\* that holds it has died (claim_next takes over lapsed leases, and ends the
\* jobs whose last lease has lapsed).
JobsSettle == \A s \in Sources : job[s].state # "none" ~> Settled(s)
===============================================================================
