------------------------------ MODULE DurableRun ------------------------------
(***************************************************************************)
(* Durable execution of WorkflowRuns by competing background workers.      *)
(*                                                                         *)
(* A run is a PostgreSQL row (status, tasks, task results, version, lease  *)
(* columns).  Workers claim it, load it, run the workflow engine on their  *)
(* copy and write checkpoints back with an optimistic version check, while *)
(* a heartbeat thread renews the lease.  API requests and the presentation *)
(* worker write the same row when a PAUSED run goes on.  Every transaction *)
(* is one step; everything between two transactions may interleave.        *)
(*                                                                         *)
(* Abstractions.  The tasks of a run are represented by one task, the      *)
(* first that is not terminal.  Of the task results only `progress` is     *)
(* kept: whether the task has a progress checkpoint.                       *)
(* Time is the flag `live`, which a step Lapse may                         *)
(* clear whenever lease_expires_at can have passed on some clock, so no    *)
(* property rests on the 30 s / 10 s settings or on synchronised clocks.   *)
(***************************************************************************)
EXTENDS Naturals

CONSTANTS
    Runs,         \* run ids; naturals, because claims go in id order
    Workers,      \* worker ids
    Clients,      \* API requests that may be in progress at once
    Kinds,        \* the kinds of request, a subset of RequestKind
    NoWorker, NoRun, NoPrint,
    MaxFaults,    \* bound on crashes, stalls and database errors
    MaxRequests,  \* bound on API requests
    MaxVersion    \* bound on the versions at which a run is still claimed

RequestKind == {"activate", "resume_task", "settle_completed", "settle_failed"}

ASSUME RunsAssumption == Runs \subseteq Nat /\ NoRun \notin Runs
ASSUME WorkersAssumption == NoWorker \notin Workers
ASSUME KindsAssumption == Kinds \subseteq RequestKind

\* READY is passed in memory only, CANCELLED has no caller that saves it.
RunStatus == {"created", "running", "paused", "completed", "failed"}
TaskStatus == {"created", "ready", "running", "paused", "completed", "failed"}
Terminal == {"completed", "failed"}
Runnable == {"created", "running"}

\* What one checkpoint writes: the aggregate and its task results.
Aggregate == [status : RunStatus, task : TaskStatus, progress : BOOLEAN]

ASSUME NoPrintAssumption == NoPrint \notin Aggregate

VARIABLES
    \* the WorkflowRun rows
    row, version, owner, live,
    \* each worker's main thread: its place, the run it executes, its copy,
    \* the version it expects, where it goes after a checkpoint, and the
    \* fingerprint of its last checkpoint
    pc, holding, copy, expected, after, fingerprint,
    \* each worker's heartbeat thread and the LeaseGuard it shares
    beating, lost,
    \* API requests
    step, kind, target, read, seen,
    \* bounds
    faults, requests

rowVars == <<row, version>>
leaseVars == <<owner, live>>
heartVars == <<beating, lost>>
mainVars == <<pc, holding, copy, expected, after, fingerprint>>
clientVars == <<step, kind, target, read, seen>>
bounds == <<faults, requests>>
vars == <<rowVars, leaseVars, mainVars, heartVars, clientVars, bounds>>

Blank == [status |-> "created", task |-> "created", progress |-> FALSE]
\* A quantitative run is saved PAUSED and waits for its set-up to be approved.
PausedForSetup == [Blank EXCEPT !.status = "paused"]

Place == {"idle", "claimed", "loaded", "engine", "schedule", "pick",
          "execute", "finalize", "check", "commit", "release"}
AfterCheckpoint == {"engine", "schedule", "pick", "execute", "finalize", "release"}

Init ==
    /\ row \in [Runs -> {Blank, PausedForSetup}]
    /\ version = [r \in Runs |-> 0]
    /\ owner = [r \in Runs |-> NoWorker]
    /\ live = [r \in Runs |-> FALSE]
    /\ pc = [w \in Workers |-> "idle"]
    /\ holding = [w \in Workers |-> NoRun]
    /\ copy = [w \in Workers |-> Blank]
    /\ expected = [w \in Workers |-> 0]
    /\ after = [w \in Workers |-> "release"]
    /\ fingerprint = [w \in Workers |-> NoPrint]
    /\ beating = [w \in Workers |-> FALSE]
    /\ lost = [w \in Workers |-> FALSE]
    /\ step = [c \in Clients |-> "idle"]
    /\ kind = [c \in Clients |-> "activate"]
    /\ target = [c \in Clients |-> NoRun]
    /\ read = [c \in Clients |-> Blank]
    /\ seen = [c \in Clients |-> 0]
    /\ faults = 0
    /\ requests = 0

-------------------------------------------------------------------------------
(***************************************************************************)
(* Claiming a run: WorkerExecutionService.process_once.                    *)
(***************************************************************************)

\* Mutant: a lease that lapsed is not taken over.
ClaimableWhenFree(r) ==
    /\ row[r].status \in Runnable
    /\ owner[r] = NoWorker
    /\ version[r] < MaxVersion

Claimable(r) ==
    /\ row[r].status \in Runnable
    /\ owner[r] = NoWorker \/ ~live[r]
    /\ version[r] < MaxVersion

\* The claim takes the claimable run with the smallest id, writes the lease
\* columns and starts the heartbeat with a fresh guard.  It leaves the
\* version alone.  (SKIP LOCKED passes over rows that another transaction is
\* writing; transactions being single steps, there are none.)
Claim(w, r) ==
    /\ pc[w] = "idle"
    /\ Claimable(r)
    /\ \A q \in Runs : Claimable(q) => r <= q
    /\ owner' = [owner EXCEPT ![r] = w]
    /\ live' = [live EXCEPT ![r] = TRUE]
    /\ pc' = [pc EXCEPT ![w] = "claimed"]
    /\ holding' = [holding EXCEPT ![w] = r]
    /\ beating' = [beating EXCEPT ![w] = TRUE]
    /\ UNCHANGED <<rowVars, copy, expected, after, fingerprint, lost, clientVars, bounds>>

\* process_once finds nothing to claim and the loop waits for the next poll.
IdlePoll(w) ==
    /\ pc[w] = "idle"
    /\ \A r \in Runs : ~Claimable(r)
    /\ UNCHANGED vars

-------------------------------------------------------------------------------
(***************************************************************************)
(* Loading: DurableWorkflowService.execute_claimed_run.  The aggregate and *)
(* its version come from different transactions.                           *)
(***************************************************************************)

Goto(w, place) == pc' = [pc EXCEPT ![w] = place]

LoadRun(w) ==
    /\ pc[w] = "claimed"
    /\ copy' = [copy EXCEPT ![w] = row[holding[w]]]
    /\ Goto(w, IF row[holding[w]].status \in Runnable THEN "loaded" ELSE "release")
    /\ UNCHANGED <<rowVars, leaseVars, holding, expected, after, fingerprint,
                   heartVars, clientVars, bounds>>

\* A checkpoint of copy[w] is due, after which the thread goes on at `place`.
Checkpoint(w, agg, place) ==
    /\ copy' = [copy EXCEPT ![w] = agg]
    /\ after' = [after EXCEPT ![w] = place]
    /\ Goto(w, "check")

\* A task found RUNNING was interrupted: requeued if it has a progress
\* checkpoint, failed and checkpointed as failed otherwise.  (Version and
\* task results are read by two transactions; a write between them is as
\* good as one after both, since either makes the version stale.)
Recovered(agg) ==
    IF agg.task # "running" THEN agg
    ELSE [agg EXCEPT !.task = IF agg.progress THEN "ready" ELSE "failed"]

LoadVersion(w) ==
    /\ pc[w] = "loaded"
    /\ expected' = [expected EXCEPT ![w] = version[holding[w]]]
    /\ LET found == [copy[w] EXCEPT !.progress = row[holding[w]].progress]
       IN \/ /\ found.task = "running" /\ ~found.progress
             /\ Checkpoint(w, Recovered(found), "engine")
          \/ /\ found.task # "running" \/ found.progress
             /\ copy' = [copy EXCEPT ![w] = Recovered(found)]
             /\ Goto(w, "engine")
             /\ UNCHANGED after
    /\ UNCHANGED <<rowVars, leaseVars, holding, fingerprint, heartVars,
                   clientVars, bounds>>

-------------------------------------------------------------------------------
(***************************************************************************)
(* Checkpoints: WorkflowRuntimePersister._checkpoint.                      *)
(***************************************************************************)

\* The guard is consulted first; an unchanged fingerprint needs no save.  The
\* last checkpoint of an execution adds the usage summary to the results, so
\* it saves even when status and task are what they were.
CheckGuard(w) ==
    /\ pc[w] = "check"
    /\ \/ /\ lost[w]
          /\ Goto(w, "release")
       \/ /\ ~lost[w]
          /\ fingerprint[w] = copy[w]
          /\ Goto(w, after[w])
       \/ /\ ~lost[w]
          /\ fingerprint[w] # copy[w] \/ after[w] = "release"
          /\ Goto(w, "commit")
    /\ UNCHANGED <<rowVars, leaseVars, holding, copy, expected, after,
                   fingerprint, heartVars, clientVars, bounds>>

\* Mutant: the row is written whatever its version.
CommitUnchecked(w) ==
    LET r == holding[w] IN
    /\ pc[w] = "commit"
    /\ row' = [row EXCEPT ![r] = copy[w]]
    /\ version' = [version EXCEPT ![r] = expected[w] + 1]
    /\ expected' = [expected EXCEPT ![w] = expected[w] + 1]
    /\ fingerprint' = [fingerprint EXCEPT ![w] = copy[w]]
    /\ Goto(w, after[w])
    /\ UNCHANGED <<leaseVars, holding, copy, after, heartVars, clientVars, bounds>>

\* Mutant: the version is compared but not increased.
CommitWithoutBump(w) ==
    LET r == holding[w] IN
    /\ pc[w] = "commit"
    /\ version[r] = expected[w]
    /\ row' = [row EXCEPT ![r] = copy[w]]
    /\ fingerprint' = [fingerprint EXCEPT ![w] = copy[w]]
    /\ Goto(w, after[w])
    /\ UNCHANGED <<version, leaseVars, holding, copy, expected, after, heartVars,
                   clientVars, bounds>>

\* save_workflow_run: compare the version under the row lock, then write.
CommitSucceeds(w) ==
    LET r == holding[w] IN
    /\ pc[w] = "commit"
    /\ version[r] = expected[w]
    /\ row' = [row EXCEPT ![r] = copy[w]]
    /\ version' = [version EXCEPT ![r] = expected[w] + 1]
    /\ expected' = [expected EXCEPT ![w] = expected[w] + 1]
    /\ fingerprint' = [fingerprint EXCEPT ![w] = copy[w]]
    /\ Goto(w, after[w])
    /\ UNCHANGED <<leaseVars, holding, copy, after, heartVars, clientVars, bounds>>

\* ConcurrentModificationError becomes CheckpointPersistenceError.  The
\* engine's error path checkpoints again with the same expected version,
\* fails again, and the worker gives the run up.
CommitConflicts(w) ==
    /\ pc[w] = "commit"
    /\ version[holding[w]] # expected[w]
    /\ Goto(w, "release")
    /\ UNCHANGED <<rowVars, leaseVars, holding, copy, expected, after,
                   fingerprint, heartVars, clientVars, bounds>>

-------------------------------------------------------------------------------
(***************************************************************************)
(* The engine loop on the worker's copy: WorkflowEngine.run and            *)
(* TaskExecutor.execute.                                                   *)
(***************************************************************************)

\* _ensure_running, then on_workflow_started.  The fingerprint is still
\* empty unless recovery failed a task, so this checkpoint normally writes.
StartEngine(w) ==
    /\ pc[w] = "engine"
    /\ Checkpoint(w, [copy[w] EXCEPT !.status =
                        IF @ = "created" THEN "running" ELSE @], "schedule")
    /\ UNCHANGED <<rowVars, leaseVars, holding, expected, fingerprint,
                   heartVars, clientVars, bounds>>

\* A scheduling pass makes a created task ready; without changes it writes
\* nothing.
Schedule(w) ==
    /\ pc[w] = "schedule"
    /\ \/ /\ copy[w].task = "created"
          /\ Checkpoint(w, [copy[w] EXCEPT !.task = "ready"], "pick")
       \/ /\ copy[w].task # "created"
          /\ Goto(w, "pick")
          /\ UNCHANGED <<copy, after>>
    /\ UNCHANGED <<rowVars, leaseVars, holding, expected, fingerprint,
                   heartVars, clientVars, bounds>>

\* The ready task starts and is checkpointed RUNNING before its executor
\* runs; without one the loop stops.
PickTask(w) ==
    /\ pc[w] = "pick"
    /\ \/ /\ copy[w].task = "ready"
          /\ Checkpoint(w, [copy[w] EXCEPT !.task = "running"], "execute")
       \/ /\ copy[w].task # "ready"
          /\ Goto(w, "finalize")
          /\ UNCHANGED <<copy, after>>
    /\ UNCHANGED <<rowVars, leaseVars, holding, expected, fingerprint,
                   heartVars, clientVars, bounds>>

\* A long executor stores a progress checkpoint and goes on.
ExecutorProgress(w) ==
    /\ pc[w] = "execute"
    /\ ~copy[w].progress
    /\ Checkpoint(w, [copy[w] EXCEPT !.progress = TRUE], "execute")
    /\ UNCHANGED <<rowVars, leaseVars, holding, expected, fingerprint,
                   heartVars, clientVars, bounds>>

ExecutorCompletes(w) ==
    /\ pc[w] = "execute"
    /\ Checkpoint(w, [copy[w] EXCEPT !.task = "completed", !.progress = FALSE], "schedule")
    /\ UNCHANGED <<rowVars, leaseVars, holding, expected, fingerprint,
                   heartVars, clientVars, bounds>>

ExecutorFails(w) ==
    /\ pc[w] = "execute"
    /\ Checkpoint(w, [copy[w] EXCEPT !.task = "failed"], "schedule")
    /\ UNCHANGED <<rowVars, leaseVars, holding, expected, fingerprint,
                   heartVars, clientVars, bounds>>

\* The executor pauses the task and the run; the loop breaks.
ExecutorPauses(w) ==
    /\ pc[w] = "execute"
    /\ Checkpoint(w, [status |-> "paused", task |-> "paused", progress |-> TRUE], "finalize")
    /\ UNCHANGED <<rowVars, leaseVars, holding, expected, fingerprint,
                   heartVars, clientVars, bounds>>

\* WorkflowCompletionPolicy: a run ends when its tasks have ended.
Finalize(w) ==
    /\ pc[w] = "finalize"
    /\ Checkpoint(w, [copy[w] EXCEPT !.status =
                        IF copy[w].task \in Terminal THEN copy[w].task ELSE @], "release")
    /\ UNCHANGED <<rowVars, leaseVars, holding, expected, fingerprint,
                   heartVars, clientVars, bounds>>

-------------------------------------------------------------------------------
(***************************************************************************)
(* Leaving a run.                                                          *)
(***************************************************************************)

\* Mutant: the heartbeat thread outlives the execution.
ForgetUnjoined(w) ==
    /\ Goto(w, "idle")
    /\ holding' = [holding EXCEPT ![w] = NoRun]
    /\ copy' = [copy EXCEPT ![w] = Blank]
    /\ expected' = [expected EXCEPT ![w] = 0]
    /\ after' = [after EXCEPT ![w] = "release"]
    /\ fingerprint' = [fingerprint EXCEPT ![w] = NoPrint]
    /\ UNCHANGED heartVars

\* The heartbeat is joined and the context, the persister and the guard of
\* this execution go out of scope.
Forget(w) ==
    /\ Goto(w, "idle")
    /\ holding' = [holding EXCEPT ![w] = NoRun]
    /\ copy' = [copy EXCEPT ![w] = Blank]
    /\ expected' = [expected EXCEPT ![w] = 0]
    /\ after' = [after EXCEPT ![w] = "release"]
    /\ fingerprint' = [fingerprint EXCEPT ![w] = NoPrint]
    /\ beating' = [beating EXCEPT ![w] = FALSE]
    /\ lost' = [lost EXCEPT ![w] = FALSE]

\* Mutant: the lease columns are cleared whoever they name.
ReleaseAnyLease(w) ==
    LET r == holding[w] IN
    /\ pc[w] = "release"
    /\ owner' = [owner EXCEPT ![r] = NoWorker]
    /\ live' = [live EXCEPT ![r] = FALSE]
    /\ Forget(w)
    /\ UNCHANGED <<rowVars, clientVars, bounds>>

\* The lease columns are cleared if they still name this worker;
\* ClaimConflictError is swallowed.
ReleaseLease(w) ==
    LET r == holding[w] IN
    /\ pc[w] = "release"
    /\ owner' = IF owner[r] = w THEN [owner EXCEPT ![r] = NoWorker] ELSE owner
    /\ live' = IF owner[r] = w THEN [live EXCEPT ![r] = FALSE] ELSE live
    /\ Forget(w)
    /\ UNCHANGED <<rowVars, clientVars, bounds>>

\* Any other exception of release_lease is swallowed too: the lease stays
\* until it lapses.
ReleaseFails(w) ==
    /\ pc[w] = "release"
    /\ faults < MaxFaults
    /\ faults' = faults + 1
    /\ Forget(w)
    /\ UNCHANGED <<rowVars, leaseVars, clientVars, requests>>

\* The process dies at any point; one with this worker id starts afresh.
Crash(w) ==
    /\ pc[w] # "idle"
    /\ faults < MaxFaults
    /\ faults' = faults + 1
    /\ Forget(w)
    /\ UNCHANGED <<rowVars, leaseVars, clientVars, requests>>

-------------------------------------------------------------------------------
(***************************************************************************)
(* The heartbeat thread and the passing of time.                           *)
(***************************************************************************)

\* renew_lease extends the lease of its owner, lapsed or not.
Renew(w) ==
    /\ beating[w]
    /\ owner[holding[w]] = w
    /\ live' = [live EXCEPT ![holding[w]] = TRUE]
    /\ UNCHANGED <<rowVars, owner, mainVars, heartVars, clientVars, bounds>>

\* Somebody else owns the run: the guard is marked and the thread ends.
ObserveLoss(w) ==
    /\ beating[w]
    /\ owner[holding[w]] # w
    /\ lost' = [lost EXCEPT ![w] = TRUE]
    /\ beating' = [beating EXCEPT ![w] = FALSE]
    /\ UNCHANGED <<rowVars, leaseVars, mainVars, clientVars, bounds>>

\* Any exception of the renewal counts as a loss.
HeartbeatFails(w) ==
    /\ beating[w]
    /\ faults < MaxFaults
    /\ faults' = faults + 1
    /\ lost' = [lost EXCEPT ![w] = TRUE]
    /\ beating' = [beating EXCEPT ![w] = FALSE]
    /\ UNCHANGED <<rowVars, leaseVars, mainVars, clientVars, requests>>

\* Somebody renews the lease of r.
Renewed(r) == \E w \in Workers : beating[w] /\ holding[w] = r /\ owner[r] = w

\* A lease that nobody renews runs out.
Lapse(r) ==
    /\ owner[r] # NoWorker
    /\ live[r]
    /\ ~Renewed(r)
    /\ live' = [live EXCEPT ![r] = FALSE]
    /\ UNCHANGED <<rowVars, owner, mainVars, heartVars, clientVars, bounds>>

\* The owner stalls past its lease with its heartbeat thread still alive
\* (a paused process, a slow database, a fast clock on another host).
StallPastLease(r) ==
    /\ owner[r] # NoWorker
    /\ live[r]
    /\ Renewed(r)
    /\ faults < MaxFaults
    /\ faults' = faults + 1
    /\ live' = [live EXCEPT ![r] = FALSE]
    /\ UNCHANGED <<rowVars, owner, mainVars, heartVars, clientVars, requests>>

-------------------------------------------------------------------------------
(***************************************************************************)
(* Writers outside the worker: activate_paused_run, resume_paused_task,    *)
(* and _settle_structured_workflow, which ends a run paused at its         *)
(* deliverable.  Each reads the run, then the version, then saves.         *)
(***************************************************************************)

Admits(k, agg) ==
    /\ agg.status = "paused"
    /\ k # "activate" => agg.task = "paused"

\* activate_paused_run leaves the tasks it was not told of as they are and
\* replaces the task results by those of the tasks it completes.
Outcome(k, agg) ==
    LET ending == IF k = "settle_completed" THEN "completed" ELSE "failed" IN
    IF k = "activate"
    THEN [status |-> "running", task |-> agg.task, progress |-> FALSE]
    ELSE IF k = "resume_task"
    THEN [agg EXCEPT !.status = "running", !.task = "ready"]
    ELSE [agg EXCEPT !.status = ending, !.task = ending]

ReadRun(c, k, r) ==
    /\ step[c] = "idle"
    /\ requests < MaxRequests
    /\ Admits(k, row[r])
    /\ requests' = requests + 1
    /\ step' = [step EXCEPT ![c] = "read"]
    /\ kind' = [kind EXCEPT ![c] = k]
    /\ target' = [target EXCEPT ![c] = r]
    /\ read' = [read EXCEPT ![c] = row[r]]
    /\ UNCHANGED <<rowVars, leaseVars, mainVars, heartVars, seen, faults>>

\* The version and the task results, as of a later transaction.
ReadVersion(c) ==
    /\ step[c] = "read"
    /\ step' = [step EXCEPT ![c] = "versioned"]
    /\ seen' = [seen EXCEPT ![c] = version[target[c]]]
    /\ read' = [read EXCEPT ![c].progress = row[target[c]].progress]
    /\ UNCHANGED <<rowVars, leaseVars, mainVars, heartVars, kind, target, bounds>>

SaveRequest(c) ==
    LET r == target[c] IN
    /\ step[c] = "versioned"
    /\ step' = [step EXCEPT ![c] = "idle"]
    /\ kind' = [kind EXCEPT ![c] = "activate"]
    /\ target' = [target EXCEPT ![c] = NoRun]
    /\ read' = [read EXCEPT ![c] = Blank]
    /\ seen' = [seen EXCEPT ![c] = 0]
    /\ \/ /\ version[r] = seen[c]
          /\ row' = [row EXCEPT ![r] = Outcome(kind[c], read[c])]
          /\ version' = [version EXCEPT ![r] = seen[c] + 1]
       \/ /\ version[r] # seen[c]
          /\ UNCHANGED rowVars
    /\ UNCHANGED <<leaseVars, mainVars, heartVars, bounds>>

-------------------------------------------------------------------------------

Engine(w) ==
    \/ StartEngine(w) \/ Schedule(w) \/ PickTask(w) \/ ExecutorProgress(w)
    \/ ExecutorCompletes(w) \/ ExecutorFails(w) \/ ExecutorPauses(w) \/ Finalize(w)

Main(w) ==
    \/ \E r \in Runs : Claim(w, r)
    \/ IdlePoll(w) \/ LoadRun(w) \/ LoadVersion(w)
    \/ CheckGuard(w) \/ CommitSucceeds(w) \/ CommitConflicts(w)
    \/ Engine(w) \/ ReleaseLease(w)

Heartbeat(w) == Renew(w) \/ ObserveLoss(w)

Fault(w) == ReleaseFails(w) \/ Crash(w) \/ HeartbeatFails(w)

Request(c) ==
    \/ \E k \in Kinds, r \in Runs : ReadRun(c, k, r)
    \/ ReadVersion(c)
    \/ SaveRequest(c)

Next ==
    \/ \E w \in Workers : Main(w) \/ Heartbeat(w) \/ Fault(w)
    \/ \E r \in Runs : Lapse(r) \/ StallPastLease(r)
    \/ \E c \in Clients : Request(c)

Spec == Init /\ [][Next]_vars

\* A worker that runs goes on running, and time passes.  No request, fault or
\* particular executor outcome is ever owed.
Fairness ==
    /\ \A w \in Workers : WF_vars(Main(w))
    /\ \A r \in Runs : WF_vars(Lapse(r))

FairSpec == Spec /\ Fairness

-------------------------------------------------------------------------------
(***************************************************************************)
(* Properties.                                                             *)
(***************************************************************************)

\* The types of the state, and which places of a thread hold a run.
RowsOK ==
    /\ row \in [Runs -> Aggregate]
    /\ version \in [Runs -> Nat]
    /\ owner \in [Runs -> Workers \cup {NoWorker}]
    /\ live \in [Runs -> BOOLEAN]

MainOK ==
    /\ pc \in [Workers -> Place]
    /\ holding \in [Workers -> Runs \cup {NoRun}]
    /\ copy \in [Workers -> Aggregate]
    /\ expected \in [Workers -> Nat]
    /\ after \in [Workers -> AfterCheckpoint]
    /\ fingerprint \in [Workers -> Aggregate \cup {NoPrint}]
    /\ \A w \in Workers : (pc[w] = "idle") <=> (holding[w] = NoRun)

HeartOK ==
    /\ beating \in [Workers -> BOOLEAN]
    /\ lost \in [Workers -> BOOLEAN]
    /\ \A w \in Workers : beating[w] => pc[w] # "idle"

ClientsOK ==
    /\ step \in [Clients -> {"idle", "read", "versioned"}]
    /\ kind \in [Clients -> RequestKind]
    /\ target \in [Clients -> Runs \cup {NoRun}]
    /\ read \in [Clients -> Aggregate]
    /\ seen \in [Clients -> Nat]
    /\ \A c \in Clients : step[c] # "idle" => target[c] \in Runs

TypeOK ==
    /\ RowsOK
    /\ MainOK
    /\ HeartOK
    /\ ClientsOK
    /\ faults \in Nat
    /\ requests \in Nat

\* A worker is established once it has written a checkpoint of the run it
\* executes: WorkflowRuntimePersister holds the fingerprint of that write.
Established(w) == holding[w] # NoRun /\ fingerprint[w] # NoPrint

\* No lost update by an established worker: as long as its version check can
\* still succeed, the row is exactly what it last wrote, whoever claimed,
\* renewed, released or wrote the run in between.
EstablishedSeesRow ==
    \A w \in Workers : Established(w) =>
        /\ expected[w] <= version[holding[w]]
        /\ expected[w] = version[holding[w]] => row[holding[w]] = fingerprint[w]

\* One writer per run: of the workers that have written a run, however many
\* still execute it after losing their leases, at most one can write it again.
OneEstablishedWriter ==
    \A v, w \in Workers :
        v # w /\ Established(v) /\ Established(w) /\ holding[v] = holding[w]
            => expected[v] # expected[w]

\* What keeps the two true.  The persister of an execution is created after
\* the version was read, so a worker that is still loading has no fingerprint.
FreshUntilLoaded ==
    \A w \in Workers : pc[w] \in {"idle", "claimed", "loaded"} => fingerprint[w] = NoPrint

\* The copy of a worker turns terminal in its last checkpoint only.
TerminalCopyLeaves ==
    \A w \in Workers :
        /\ copy[w].status \in Terminal =>
               \/ pc[w] = "release"
               \/ pc[w] \in {"check", "commit"} /\ after[w] = "release"
               \/ pc[w] \in {"idle", "claimed"}
        /\ fingerprint[w] # NoPrint /\ fingerprint[w].status \in Terminal =>
               pc[w] = "release"

\* The main thread that is about to write the row of r.
Committing(w, r) == pc[w] = "commit" /\ holding[w] = r

\* A finished run is reopened through a load only: by a worker that has not
\* written it yet, or by an API request.  Whatever an established worker
\* writes, it never takes back the completion or failure of a run.
FinishedRunSafeFromEstablished ==
    [][\A r \in Runs :
          row[r].status \in Terminal /\ row'[r] # row[r] =>
            \/ \E w \in Workers : Committing(w, r) /\ ~Established(w)
            \/ \E c \in Clients : step[c] = "versioned" /\ target[c] = r
      ]_vars

\* ADR-012: the lease columns keep the promise of module RunLease.
Lease == INSTANCE RunLease
LeaseKept == Lease!Spec

\* Work is never lost: a run that workers may claim finishes or pauses,
\* whatever crashed, stalled or lost its lease on the way.
RunnableRunSettles ==
    \A r \in Runs : row[r].status \in Runnable ~> row[r].status \notin Runnable
===============================================================================
