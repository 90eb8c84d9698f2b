------------------------------- MODULE RunLease -------------------------------
(***************************************************************************)
(* What the lease columns of a WorkflowRun row promise to the workers      *)
(* (ADR-012, "Claim / lease model"): a run changes hands only when it is   *)
(* free or its lease has lapsed, and the worker that lets go of a run      *)
(* clears its own lease and nobody else's.  The detailed protocol, with    *)
(* the claim query, the heartbeat thread, the checkpoints and the crashes, *)
(* is module DurableRun, which implements this one.                        *)
(***************************************************************************)

CONSTANTS
    Runs,      \* the WorkflowRun rows
    Workers,   \* the values of worker_id
    NoWorker,  \* claimed_by IS NULL
    NoRun      \* the worker executes nothing

VARIABLES
    owner,     \* claimed_by of each run
    live,      \* lease_expires_at of the run has not passed yet
    holding    \* the run each worker believes it executes

leaseVars == <<owner, live, holding>>

Init ==
    /\ owner = [r \in Runs |-> NoWorker]
    /\ live = [r \in Runs |-> FALSE]
    /\ holding = [w \in Workers |-> NoRun]

\* A worker with nothing to do takes a run nobody holds a live lease on.
Acquire(w, r) ==
    /\ holding[w] = NoRun
    /\ owner[r] = NoWorker \/ ~live[r]
    /\ owner' = [owner EXCEPT ![r] = w]
    /\ live' = [live EXCEPT ![r] = TRUE]
    /\ holding' = [holding EXCEPT ![w] = r]

\* Only the owner extends a lease, and may do so after it lapsed.
Extend(w, r) ==
    /\ owner[r] = w
    /\ live' = [live EXCEPT ![r] = TRUE]
    /\ UNCHANGED <<owner, holding>>

Lapse(r) ==
    /\ owner[r] # NoWorker
    /\ live[r]
    /\ live' = [live EXCEPT ![r] = FALSE]
    /\ UNCHANGED <<owner, holding>>

\* A worker that still owns its run frees it.
Release(w, r) ==
    /\ holding[w] = r
    /\ owner[r] = w
    /\ owner' = [owner EXCEPT ![r] = NoWorker]
    /\ live' = [live EXCEPT ![r] = FALSE]
    /\ holding' = [holding EXCEPT ![w] = NoRun]

\* A worker that was superseded, failed to release, or died leaves the
\* columns as they are: they name somebody else, or will lapse.
Leave(w) ==
    /\ holding[w] # NoRun
    /\ holding' = [holding EXCEPT ![w] = NoRun]
    /\ UNCHANGED <<owner, live>>

Next ==
    \/ \E w \in Workers, r \in Runs :
          Acquire(w, r) \/ Extend(w, r) \/ Release(w, r)
    \/ \E r \in Runs : Lapse(r)
    \/ \E w \in Workers : Leave(w)

Spec == Init /\ [][Next]_leaseVars
===============================================================================
