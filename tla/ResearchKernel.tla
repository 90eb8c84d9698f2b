---------------------------- MODULE ResearchKernel ----------------------------
(***************************************************************************)
(* The adaptive research kernel: a controller that decides, reserves,      *)
(* dispatches and settles one paid action at a time, with its ledger in a  *)
(* reserved slot of the WorkflowRun row.  Several executions of the same   *)
(* search task may exist at once (a superseded worker that has not noticed *)
(* yet and its successor, or two processes with one worker id); a fence    *)
(* token and a revision keep all but the latest from writing.              *)
(*                                                                         *)
(* Every store operation is one transaction under the row lock and one     *)
(* step here.  Abstractions: the dimensions of the budget are one (Units), *)
(* with the decision count beside it; every attempt of an action takes its *)
(* Cost, whether it is a first attempt or a retry; the ranking of          *)
(* proposals and the content of outcomes belong to the method and are left *)
(* open; strategy keys are the action ids, as in the Desk adapter, so that *)
(* the attempted strategies are the completed actions and the pending one. *)
(***************************************************************************)
EXTENDS Integers, FiniteSets

CONSTANTS
    Workers, NoWorker,
    Executions,     \* executions of the search task, each with its own store
    NoExecution,
    WorkerOf,       \* the worker id each execution runs under
    Actions, NoAction,
    Cost,           \* the capacity an attempt of each action takes
    MaxAttempts,    \* max_attempts of each action; 0 means no ceiling
    Units,          \* limit of the capacity
    Decisions,      \* limit of the decisions
    MaxFaults       \* bound on crashes, database errors, uncertain commits

ASSUME WorkersAssumption ==
    NoWorker \notin Workers /\ WorkerOf \in [Executions -> Workers]
ASSUME ExecutionsAssumption == NoExecution \notin Executions
ASSUME ActionsAssumption == NoAction \notin Actions
ASSUME LimitsAssumption ==
    /\ Cost \in [Actions -> Nat \ {0}]
    /\ MaxAttempts \in [Actions -> Nat]
    /\ Units \in Nat
    /\ Decisions \in Nat \ {0}

Stop == {"ready", "insufficient_budget", "insufficient_opportunities",
         "reconciliation_required", "failed_technical", "stopped_safety"}
StopReason == {"none", "bounded_acquisition_deadline", "hard_safety"}

\* KernelState: reserved is the cost of the pending action's attempts.  A
\* revision of -1 stands for the absent payload.
KernelState ==
    [revision : Nat \cup {-1}, used : Nat, reserved : Nat,
     pending : Actions \cup {NoAction}, completed : SUBSET Actions,
     terminal : Stop \cup {"none"}, stop_reason : StopReason]

VARIABLES
    \* the WorkflowRun row
    lease,        \* the worker whose lease is live
    closed,       \* the run is no longer created or running
    ledger,       \* task_results["_research_kernel_v1"]
    token,        \* the fence: which execution, and the action it was
    dispatch,     \* allowed to dispatch
    \* each execution
    pc, mem,      \* its place and its copy of the kernel state
    then,         \* during a checkpoint: where it goes once that is durable
    count,        \* Dispatch.count
    ambiguous,    \* Dispatch.ambiguous
    \* the environment
    late,         \* the acquisition deadline has passed
    spent,        \* what the provider calls really took
    dispatches,   \* how often each action was authorized
    faults

rowVars == <<lease, closed>>
storeVars == <<ledger, token, dispatch>>
executionVars == <<pc, mem, then, count, ambiguous>>
vars == <<rowVars, storeVars, executionVars, late, spent, dispatches, faults>>

Absent ==
    [revision |-> -1, used |-> 0, reserved |-> 0, pending |-> NoAction,
     completed |-> {}, terminal |-> "none", stop_reason |-> "none"]
Pristine == [Absent EXCEPT !.revision = 0]

Init ==
    /\ lease = NoWorker
    /\ closed = FALSE
    /\ ledger = Absent
    /\ token = NoExecution
    /\ dispatch = NoAction
    /\ pc = [e \in Executions |-> "new"]
    /\ mem = [e \in Executions |-> Absent]
    /\ then = [e \in Executions |-> "observe"]
    /\ count = [e \in Executions |-> 0]
    /\ ambiguous = [e \in Executions |-> FALSE]
    /\ late = FALSE
    /\ spent = 0
    /\ dispatches = [a \in Actions |-> 0]
    /\ faults = 0

-------------------------------------------------------------------------------
(* The ledger, the checkpoint validation and the store. *)

Remaining(k) == Units - k.used - k.reserved
DecisionsUsed(k) == Cardinality(k.completed) + (IF k.pending = NoAction THEN 0 ELSE 1)

Unattempted(k) == Actions \ (k.completed \cup {k.pending})
Fits(k, a) == Cost[a] <= Remaining(k) /\ DecisionsUsed(k) < Decisions

\* Mutant: an action consumes its own cost, not that of its retries.
ConsumedOnce(k) ==
    [k EXCEPT !.used = @ + Cost[k.pending], !.reserved = 0, !.pending = NoAction,
              !.completed = @ \cup {k.pending}]

\* Ledger.consume: the whole reservation becomes use, whatever came of it.
Consumed(k) ==
    [k EXCEPT !.used = @ + k.reserved, !.reserved = 0, !.pending = NoAction,
              !.completed = @ \cup {k.pending}]

\* validate_checkpoint
ValidState(k) ==
    /\ 0 <= Remaining(k)
    /\ DecisionsUsed(k) <= Decisions
    /\ k.pending = NoAction => k.reserved = 0
    /\ k.pending \notin k.completed
    /\ k.pending # NoAction =>
          k.terminal \in {"none", "reconciliation_required", "failed_technical", "stopped_safety"}

\* validate_transition
ValidTransition(old, k) ==
    /\ ValidState(old) /\ ValidState(k)
    /\ old.terminal = "none"
    /\ old.completed \subseteq k.completed
    /\ old.used <= k.used
    /\ Remaining(k) <= Remaining(old)
    /\ old.pending # NoAction /\ old.pending \notin k.completed =>
          k.pending = old.pending /\ old.reserved <= k.reserved

\* _row, and the fence every operation but the first load checks.
OwnsRow(e) == lease = WorkerOf[e] /\ ~closed
Fenced(e) == OwnsRow(e) /\ token = e

\* Mutant: the fence without the revision.
AcceptsAnyRevision(e) ==
    /\ Fenced(e)
    /\ ledger.revision >= 0 => ValidTransition(ledger, mem[e])

Accepts(e) ==
    /\ Fenced(e)
    /\ mem[e].revision = ledger.revision + 1
    /\ ledger.revision >= 0 => ValidTransition(ledger, mem[e])

-------------------------------------------------------------------------------
(* Executions end and take their copies with them. *)

Goto(e, place) == pc' = [pc EXCEPT ![e] = place]

\* The task went on (handed) or not (ended).
Final == {"handed", "ended"}

End(e, place) ==
    /\ Goto(e, place)
    /\ mem' = [mem EXCEPT ![e] = Absent]
    /\ then' = [then EXCEPT ![e] = "observe"]
    /\ count' = [count EXCEPT ![e] = 0]
    /\ ambiguous' = [ambiguous EXCEPT ![e] = FALSE]

\* Controller._save: k gets the next revision and is about to be saved.
Saving(e, k, place) ==
    /\ mem' = [mem EXCEPT ![e] = [k EXCEPT !.revision = @ + 1]]
    /\ then' = [then EXCEPT ![e] = place]
    /\ Goto(e, "save")

\* VersionedDeskExecutor._kernel: the first load of a new store installs its
\* token, whatever token was there, and clears the dispatch receipt.
Acquire(e) ==
    /\ pc[e] = "new"
    /\ OwnsRow(e)
    /\ token' = e
    /\ dispatch' = NoAction
    /\ Goto(e, "acquired")
    /\ UNCHANGED <<rowVars, ledger, mem, then, count, ambiguous, late,
                   spent, dispatches, faults>>

\* Mutant: a pending action is dispatched by whoever finds it.
LoadReplaying(e) ==
    /\ pc[e] = "acquired"
    /\ \/ /\ ~Fenced(e)
          /\ End(e, "ended")
       \/ /\ Fenced(e)
          /\ mem' = [mem EXCEPT ![e] = ledger]
          /\ Goto(e, IF ledger.terminal # "none" THEN "returned"
                     ELSE IF ledger.pending = NoAction THEN "observe" ELSE "authorize")
          /\ UNCHANGED <<then, count, ambiguous>>
    /\ UNCHANGED <<rowVars, storeVars, late, spent, dispatches, faults>>

\* Controller.run up to its loop.  A pending action found in the ledger may
\* have been dispatched: the run stops for reconciliation.
Load(e) ==
    /\ pc[e] = "acquired"
    /\ \/ /\ ~Fenced(e)
          /\ End(e, "ended")
       \/ /\ Fenced(e)
          /\ \/ /\ ledger.revision = -1
                /\ Saving(e, Absent, "observe")
             \/ /\ ledger.terminal # "none"
                /\ mem' = [mem EXCEPT ![e] = ledger]
                /\ Goto(e, "returned")
                /\ UNCHANGED then
             \/ /\ ledger.terminal = "none"
                /\ ledger.pending # NoAction
                /\ Saving(e, [ledger EXCEPT !.terminal = "reconciliation_required"], "returned")
             \/ /\ ledger.revision # -1
                /\ ledger.terminal = "none"
                /\ ledger.pending = NoAction
                /\ mem' = [mem EXCEPT ![e] = ledger]
                /\ Goto(e, "observe")
                /\ UNCHANGED then
          /\ UNCHANGED <<count, ambiguous>>
    /\ UNCHANGED <<rowVars, storeVars, late, spent, dispatches, faults>>

-------------------------------------------------------------------------------
(* The decision loop. *)

\* A stop is recorded by a last checkpoint.
StopWith(e, k, stop) == Saving(e, [k EXCEPT !.terminal = stop], "returned")

\* Mutant: a stop is returned without its checkpoint.
ReadyUnsaved(e) ==
    /\ pc[e] = "observe"
    /\ mem' = [mem EXCEPT ![e].terminal = "ready"]
    /\ Goto(e, "returned")
    /\ UNCHANGED <<rowVars, storeVars, then, count, ambiguous, late, spent,
                   dispatches, faults>>

\* The evidence is sufficient.
Ready(e) ==
    /\ pc[e] = "observe"
    /\ StopWith(e, mem[e], "ready")
    /\ UNCHANGED <<rowVars, storeVars, count, ambiguous, late, spent,
                   dispatches, faults>>

\* DeskAdapter.observe finds the acquisition deadline passed.  It notes the
\* reason in the state it is given, which is a deepcopy of the controller's.
DeadlineStop(e) ==
    /\ pc[e] = "observe"
    /\ late
    /\ StopWith(e, mem[e], "stopped_safety")
    /\ UNCHANGED <<rowVars, storeVars, count, ambiguous, late, spent,
                   dispatches, faults>>

\* Neither: no decision is left, the method has no untried proposal, or none
\* of those it has fits.
NothingToDo(e) ==
    /\ pc[e] = "observe"
    /\ ~late
    /\ \/ /\ DecisionsUsed(mem[e]) >= Decisions
          /\ StopWith(e, mem[e], "insufficient_budget")
       \/ /\ DecisionsUsed(mem[e]) < Decisions
          /\ \/ StopWith(e, mem[e], "insufficient_opportunities")
             \/ /\ \E a \in Unattempted(mem[e]) : ~Fits(mem[e], a)
                /\ StopWith(e, mem[e], "insufficient_budget")
    /\ UNCHANGED <<rowVars, storeVars, count, ambiguous, late, spent,
                   dispatches, faults>>

\* The first eligible proposal is reserved, durably, before anything else.
Reserve(e, a) ==
    /\ pc[e] = "observe"
    /\ ~late
    /\ a \in Unattempted(mem[e])
    /\ Fits(mem[e], a)
    /\ Saving(e, [mem[e] EXCEPT !.pending = a, !.reserved = Cost[a]], "authorize")
    /\ UNCHANGED <<rowVars, storeVars, count, ambiguous, late, spent,
                   dispatches, faults>>

\* authorize_dispatch: the reservation is still there and was not dispatched.
Authorizes(e) ==
    /\ Fenced(e)
    /\ ledger.revision = mem[e].revision
    /\ ledger.pending = mem[e].pending
    /\ ledger.pending # NoAction
    /\ ledger.terminal = "none"
    /\ dispatch # ledger.pending

Authorize(e) ==
    /\ pc[e] = "authorize"
    /\ \/ /\ Authorizes(e)
          /\ dispatch' = mem[e].pending
          /\ dispatches' = [dispatches EXCEPT ![mem[e].pending] = @ + 1]
          /\ Goto(e, "method")
          /\ UNCHANGED <<mem, then, count, ambiguous>>
       \/ /\ ~Authorizes(e)
          /\ End(e, "ended")
          /\ UNCHANGED <<dispatch, dispatches>>
    /\ UNCHANGED <<rowVars, ledger, token, late, spent, faults>>

-------------------------------------------------------------------------------
(* The method: DeskAdapter.execute and its provider calls. *)

\* Dispatch.invoke.  The first attempt is covered by the reservation of the
\* action; every further one is added to it first.
AttemptAllowed(e) ==
    LET a == mem[e].pending IN
    /\ ~ambiguous[e]
    /\ MaxAttempts[a] = 0 \/ count[e] < MaxAttempts[a]
    /\ count[e] > 0 => Cost[a] <= Remaining(mem[e])

\* Mutant: retries are not reserved.
BeginAttemptFree(e) ==
    /\ pc[e] = "method"
    /\ AttemptAllowed(e)
    /\ count' = [count EXCEPT ![e] = @ + 1]
    /\ Saving(e, mem[e], "call")
    /\ UNCHANGED <<rowVars, storeVars, ambiguous, late, spent, dispatches, faults>>

BeginAttempt(e) ==
    /\ pc[e] = "method"
    /\ AttemptAllowed(e)
    /\ count' = [count EXCEPT ![e] = @ + 1]
    /\ Saving(e, IF count[e] = 0 THEN mem[e]
                 ELSE [mem[e] EXCEPT !.reserved = @ + Cost[mem[e].pending]], "call")
    /\ UNCHANGED <<rowVars, storeVars, ambiguous, late, spent, dispatches, faults>>

\* The provider is called and answers, fails, or leaves it open; the outcome
\* of the attempt is checkpointed, and an open one marked once that is done.
Call(e) ==
    /\ pc[e] = "call"
    /\ spent' = spent + Cost[mem[e].pending]
    /\ \E place \in {"method", "unsure"} : Saving(e, mem[e], place)
    /\ UNCHANGED <<rowVars, storeVars, count, ambiguous, late, dispatches, faults>>

\* Dispatch.mark_ambiguous.  The search port marks whatever goes wrong after
\* a first attempt, a refused retry or a failed checkpoint included.
MarkAmbiguous(e) ==
    /\ \/ pc[e] = "unsure"
       \/ pc[e] = "method" /\ count[e] > 0 /\ ~ambiguous[e]
    /\ ambiguous' = [ambiguous EXCEPT ![e] = TRUE]
    /\ Saving(e, mem[e], "method")
    /\ UNCHANGED <<rowVars, storeVars, count, late, spent, dispatches, faults>>

\* The Dispatch goes out of scope.
LeaveMethod(e) ==
    /\ count' = [count EXCEPT ![e] = 0]
    /\ ambiguous' = [ambiguous EXCEPT ![e] = FALSE]

\* Mutant: the outcome is recorded before the method is left.
MethodReturnsInside(e) ==
    /\ pc[e] = "method"
    /\ ~ambiguous[e]
    /\ Saving(e, Consumed(mem[e]), "method")
    /\ UNCHANGED <<rowVars, storeVars, count, ambiguous, late, spent, dispatches,
                   faults>>

\* execute and validate return an outcome, and no attempt was left open.
MethodReturns(e) ==
    /\ pc[e] = "method"
    /\ ~ambiguous[e]
    /\ Saving(e, Consumed(mem[e]), "observe")
    /\ LeaveMethod(e)
    /\ UNCHANGED <<rowVars, storeVars, late, spent,
                   dispatches, faults>>

\* A budget said no: this kernel's own, or the guard of the run's LLM calls.
\* The action counts as done with an invalid outcome, and the run stops.
MethodExhausted(e) ==
    /\ pc[e] = "method"
    /\ Saving(e, Consumed(mem[e]), "exhausted")
    /\ LeaveMethod(e)
    /\ UNCHANGED <<rowVars, storeVars, late, spent,
                   dispatches, faults>>

StopExhausted(e) ==
    /\ pc[e] = "exhausted"
    /\ StopWith(e, mem[e], "insufficient_budget")
    /\ UNCHANGED <<rowVars, storeVars, count, ambiguous, late, spent,
                   dispatches, faults>>

\* Any other exception, or an outcome beside an ambiguous attempt.
MethodRaises(e) ==
    /\ pc[e] = "method"
    /\ StopWith(e, mem[e], "reconciliation_required")
    /\ LeaveMethod(e)
    /\ UNCHANGED <<rowVars, storeVars, late, spent,
                   dispatches, faults>>

-------------------------------------------------------------------------------
(* PostgreSQLKernelStateStore.save. *)

SaveCommits(e) ==
    /\ pc[e] = "save"
    /\ Accepts(e)
    /\ ledger' = mem[e]
    /\ Goto(e, then[e])
    /\ then' = [then EXCEPT ![e] = "observe"]
    /\ UNCHANGED <<rowVars, token, dispatch, mem, count, ambiguous,
                   late, spent, dispatches, faults>>

\* An exception of a save reaches the method when the method caused the save,
\* and may be swallowed there; elsewhere it ends the execution.
SaveRaises(e) ==
    IF then[e] \in {"call", "unsure", "method"}
    THEN /\ Goto(e, "method")
         /\ then' = [then EXCEPT ![e] = "observe"]
         /\ UNCHANGED <<mem, count, ambiguous>>
    ELSE End(e, "ended")

\* Mutant: a refused save is tried again.
SaveRetried(e) ==
    /\ pc[e] = "save"
    /\ ~Accepts(e)
    /\ UNCHANGED vars

SaveRefused(e) ==
    /\ pc[e] = "save"
    /\ ~Accepts(e)
    /\ SaveRaises(e)
    /\ UNCHANGED <<rowVars, storeVars, late, spent, dispatches, faults>>

\* The database fails, before or after it has committed.
SaveFails(e) ==
    /\ pc[e] = "save"
    /\ faults < MaxFaults
    /\ faults' = faults + 1
    /\ SaveRaises(e)
    /\ \/ UNCHANGED ledger
       \/ /\ Accepts(e)
          /\ ledger' = mem[e]
    /\ UNCHANGED <<rowVars, token, dispatch, late, spent, dispatches>>

-------------------------------------------------------------------------------
(* The end of an execution, and its environment. *)

\* DeskAdapter.finish: a stop that is not for the readiness policy to judge
\* fails the task; the policy may fail it as well.
FailsClosed(k) ==
    \/ k.terminal \in {"reconciliation_required", "failed_technical"}
    \/ k.terminal = "stopped_safety" /\ k.stop_reason # "bounded_acquisition_deadline"

Finish(e) ==
    /\ pc[e] = "returned"
    /\ \/ /\ FailsClosed(mem[e])
          /\ End(e, "ended")
       \/ /\ ~FailsClosed(mem[e])
          /\ \E place \in Final : End(e, place)
    /\ UNCHANGED <<rowVars, storeVars, late, spent, dispatches, faults>>

\* The worker process dies, or a load or an authorization fails in the
\* database, the latter perhaps after its commit.
Crash(e) ==
    /\ pc[e] \notin {"new"} \cup Final
    /\ faults < MaxFaults
    /\ faults' = faults + 1
    /\ End(e, "ended")
    /\ \/ UNCHANGED <<dispatch, dispatches>>
       \/ /\ pc[e] = "authorize"
          /\ Authorizes(e)
          /\ dispatch' = mem[e].pending
          /\ dispatches' = [dispatches EXCEPT ![mem[e].pending] = @ + 1]
    /\ UNCHANGED <<rowVars, ledger, token, late, spent>>

\* Module RunLease, for this run: a live lease appears with a claim or a late
\* renewal and disappears when it lapses or is released.
LeaseMoves ==
    /\ \/ /\ lease = NoWorker
          /\ \E w \in Workers : lease' = w
       \/ /\ lease # NoWorker
          /\ lease' = NoWorker
    /\ UNCHANGED <<closed, storeVars, executionVars, late, spent, dispatches, faults>>

\* The run ends some time after an execution of its search task did.
RunCloses ==
    /\ ~closed
    /\ \E e \in Executions : pc[e] \in Final
    /\ closed' = TRUE
    /\ UNCHANGED <<lease, storeVars, executionVars, late, spent, dispatches, faults>>

DeadlinePasses ==
    /\ ~late
    /\ late' = TRUE
    /\ UNCHANGED <<rowVars, storeVars, executionVars, spent, dispatches, faults>>

-------------------------------------------------------------------------------

Method(e) ==
    \/ BeginAttempt(e) \/ Call(e) \/ MarkAmbiguous(e)
    \/ MethodReturns(e) \/ MethodExhausted(e) \/ MethodRaises(e)

\* What an execution does once it has its store.
Step(e) ==
    \/ Load(e) \/ Ready(e) \/ DeadlineStop(e) \/ NothingToDo(e)
    \/ \E a \in Actions : Reserve(e, a)
    \/ Authorize(e) \/ Method(e) \/ StopExhausted(e)
    \/ SaveCommits(e) \/ SaveRefused(e) \/ Finish(e)

Environment == LeaseMoves \/ RunCloses \/ DeadlinePasses

Next ==
    \/ \E e \in Executions : Acquire(e) \/ Step(e) \/ SaveFails(e) \/ Crash(e)
    \/ Environment

Spec == Init /\ [][Next]_vars

\* A started execution goes on: provider calls time out, the row lock is
\* waited for two seconds at most.  Nothing is owed by the environment.
FairSpec == Spec /\ \A e \in Executions : WF_vars(Step(e))

-------------------------------------------------------------------------------
(* Properties. *)

Place == {"new", "acquired", "observe", "authorize", "method", "call", "unsure",
          "exhausted", "save", "returned"} \cup Final
AfterSave == {"observe", "authorize", "method", "call", "unsure", "exhausted", "returned"}

\* The types of the state, and where an execution has an action at hand.
TypeOK ==
    /\ lease \in Workers \cup {NoWorker}
    /\ closed \in BOOLEAN
    /\ ledger \in KernelState
    /\ token \in Executions \cup {NoExecution}
    /\ dispatch \in Actions \cup {NoAction}
    /\ pc \in [Executions -> Place]
    /\ mem \in [Executions -> KernelState]
    /\ then \in [Executions -> AfterSave]
    /\ count \in [Executions -> Nat]
    /\ ambiguous \in [Executions -> BOOLEAN]
    /\ late \in BOOLEAN
    /\ spent \in Nat
    /\ dispatches \in [Actions -> Nat]
    /\ faults \in Nat
    /\ \A e \in Executions :
          pc[e] \in {"method", "call", "unsure", "authorize"} => mem[e].pending \in Actions

\* Money: at every moment, crashes and superseded workers included, what the
\* provider calls took is covered by what the durable ledger has consumed or
\* reserved, and that stays within the frozen limit.
SpendCovered ==
    /\ spent <= ledger.used + ledger.reserved
    /\ ledger.used + ledger.reserved <= Units

\* A provider call in flight is the only one, and it is an attempt of the
\* ledger's pending action that the ledger has room for, even when its worker
\* lost the run between the reservation and the call.
OneReservedCall ==
    \A e \in Executions : pc[e] = "call" =>
        /\ mem[e].pending = ledger.pending
        /\ spent + Cost[ledger.pending] <= ledger.used + ledger.reserved
        /\ \A f \in Executions : pc[f] = "call" => f = e

\* No action is dispatched twice, by whatever execution.
DispatchedOnce == \A a \in Actions : dispatches[a] <= 1

\* The controller never trips over its own validation: a checkpoint that is
\* fenced and has the right revision is a valid transition of the ledger.
OwnSaveAccepted ==
    \A e \in Executions :
        pc[e] = "save" /\ Fenced(e) /\ mem[e].revision = ledger.revision + 1 =>
            Accepts(e)

\* What the controller returns is in the ledger, and final.
ReturnedIsStored ==
    \A e \in Executions : pc[e] = "returned" =>
        /\ mem[e].terminal # "none"
        /\ ledger = mem[e]

\* The abstract account of ResearchAccount is kept.
Account == INSTANCE ResearchAccount WITH
    charged <- ledger.used + ledger.reserved, spent <- spent,
    open <- ledger.pending, closed <- ledger.completed,
    sealed <- (ledger.terminal # "none")
AccountKept == Account!Spec

\* An execution that started comes to an end, whatever happens to its lease,
\* its fence and its saves.
ExecutionEnds ==
    \A e \in Executions : pc[e] = "acquired" ~> pc[e] \in Final

\* ARK-01, section 7: a run stopped at an expired deadline preserves "explicit
\* reason", on which DeskAdapter.finish hands it over to the readiness policy.
DeadlineHandsOver ==
    \A e \in Executions :
        pc[e] = "returned" /\ mem[e].terminal = "stopped_safety" => ~FailsClosed(mem[e])
===============================================================================
