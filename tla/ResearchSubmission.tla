--------------------------- MODULE ResearchSubmission ---------------------------
(***************************************************************************)
(* Requests that submit research under one idempotency key: the record of  *)
(* the key in research_submissions, the creation of the WorkflowRun after  *)
(* a long synchronous planning, peers that wait for it and take it over,   *)
(* failures, and the death of the process that serves a request.           *)
(*                                                                         *)
(* Each action is one transaction, except that a look at the record also   *)
(* loads the run, which is never deleted; the registration is split into   *)
(* its two statements, which see what is committed between them, and the   *)
(* creation of the run where two of them may overlap.  A run id is the     *)
(* request that drew it (uuid4), so the runs of the key are a set of       *)
(* requests.  The two surfaces differ: POST /research of the API waits,    *)
(* takes over and rolls back, the form of the UI only ever shows what the  *)
(* record says.                                                            *)
(***************************************************************************)
EXTENDS Naturals

CONSTANTS
    Requests, NoRequest,
    Briefs,       \* the fingerprints of the requests' bodies
    MaxFaults     \* bound on failures of a planning and deaths of a process

ASSUME RequestsAssumption == NoRequest \notin Requests
ASSUME BriefsAssumption == Briefs # {}
ASSUME FaultsAssumption == MaxFaults \in Nat

Surfaces == {"api", "ui"}
RecordStatus == {"absent", "pending", "completed", "failed"}
\* "waiting" is wait_for_peer_completion, "retrieving" the same after the run
\* turned out to exist, "rechecking" the single look after a failure.
Waits == {"waiting", "retrieving", "rechecking"}
Pc == {"new", "joining", "looking", "planning", "inserting", "marking", "binding",
       "answered", "error", "dead"} \cup Waits
Over == {"answered", "error", "dead"}

VARIABLES
    surface,   \* which of the two serves the key
    brief,     \* request -> fingerprint
    record,    \* the row of the key: status, run, fingerprint of the run's request
    runs,      \* the runs that exist
    pc,
    target,    \* request -> the run id resolve_submission handed it
    answer,    \* request -> the run its response names
    faults,
    orphaned   \* history: run ids given up by a rollback although somebody had them

vars == <<surface, brief, record, runs, pc, target, answer, faults, orphaned>>

NoRecord == [status |-> "absent", run |-> NoRequest]
Created(r) == target[r] = r
Holders(i) == {r \in Requests : target[r] = i /\ pc[r] \notin Over}

Init ==
    /\ surface \in Surfaces
    /\ brief \in [Requests -> Briefs]
    /\ record = NoRecord /\ runs = {}
    /\ pc = [r \in Requests |-> "new"]
    /\ target = [r \in Requests |-> NoRequest]
    /\ answer = [r \in Requests |-> NoRequest]
    /\ faults = 0 /\ orphaned = {}

Goto(r, label) == pc' = [pc EXCEPT ![r] = label]
Answer(r, i) == Goto(r, "answered") /\ answer' = [answer EXCEPT ![r] = i]
Fault == faults < MaxFaults /\ faults' = faults + 1
--------------------------------------------------------------------------------
(***************************************************************************)
(* try_register and what resolve_submission makes of it.                   *)
(***************************************************************************)
Register(r) ==
    /\ pc[r] = "new" /\ record.status = "absent"
    /\ record' = [status |-> "pending", run |-> r]
    /\ target' = [target EXCEPT ![r] = r]
    /\ Goto(r, IF surface = "api" THEN "looking" ELSE "planning")
    /\ UNCHANGED <<surface, brief, runs, answer, faults, orphaned>>

\* on_conflict_do_nothing: the key is taken, and the row is read again.
FindTaken(r) ==
    /\ pc[r] = "new" /\ record.status # "absent"
    /\ Goto(r, "joining")
    /\ UNCHANGED <<surface, brief, record, runs, target, answer, faults, orphaned>>

\* A rollback deleted it in between: scalar_one raises.
FindGone(r) ==
    /\ pc[r] = "joining" /\ record.status = "absent"
    /\ Goto(r, "error")
    /\ UNCHANGED <<surface, brief, record, runs, target, answer, faults, orphaned>>

\* The fingerprint of the record is that of the request that registered it.
Conflict(r) ==
    /\ pc[r] = "joining" /\ record.status # "absent" /\ brief[record.run] # brief[r]
    /\ Goto(r, "error")
    /\ UNCHANGED <<surface, brief, record, runs, target, answer, faults, orphaned>>

\* A replay of a completed key loads its run; the UI shows the reserved run id.
Join(r) ==
    /\ pc[r] = "joining" /\ record.status # "absent" /\ brief[record.run] = brief[r]
    /\ target' = [target EXCEPT ![r] = record.run]
    /\ CASE surface = "ui" -> Answer(r, record.run)
         [] surface = "api" /\ record.status = "completed" ->
                IF record.run \in runs THEN Answer(r, record.run)
                ELSE Goto(r, "error") /\ UNCHANGED answer
         [] OTHER -> Goto(r, "waiting") /\ UNCHANGED answer
    /\ UNCHANGED <<surface, brief, record, runs, faults, orphaned>>
--------------------------------------------------------------------------------
(***************************************************************************)
(* _resolve_visible_run: read the record, load the run, mark the record.   *)
(***************************************************************************)
\* The record is completed: its run is the answer, whatever the caller holds.
LookCompleted(r) ==
    /\ pc[r] \in {"looking"} \cup Waits /\ record.status = "completed"
    /\ IF record.run \in runs THEN Answer(r, record.run)
       ELSE Goto(r, "error") /\ UNCHANGED answer
    /\ UNCHANGED <<surface, brief, record, runs, target, faults, orphaned>>

\* It was not when it was read, and the run the caller holds exists.  What has
\* become of the record by the time the run is loaded does not matter.
LookPending(r) ==
    /\ pc[r] \in {"looking"} \cup Waits
    /\ target[r] \in runs
    /\ Goto(r, "binding")
    /\ UNCHANGED <<surface, brief, record, runs, target, answer, faults, orphaned>>

\* The creator looks once before it plans, a waiting peer stops waiting at the
\* end of the window and takes the planning over; the others give up.
LookAway(r) ==
    /\ pc[r] \in {"looking"} \cup Waits
    /\ record.status \in {"absent", "pending"}
    /\ record.status = "pending" => target[r] \notin runs
    /\ Goto(r, IF pc[r] \in {"looking", "waiting"} THEN "planning" ELSE "error")
    /\ UNCHANGED <<surface, brief, record, runs, target, answer, faults, orphaned>>

\* Mutant: mark_completed inserts a deleted record again.
MarkedAgain == [record EXCEPT !.status = "completed"]

\* mark_completed finds the record by its key; a deleted one is let be.
Marked == IF record.status = "absent" THEN record ELSE [record EXCEPT !.status = "completed"]

Bind(r) ==
    /\ pc[r] = "binding"
    /\ record' = Marked
    /\ Answer(r, target[r])
    /\ UNCHANGED <<surface, brief, runs, target, faults, orphaned>>
--------------------------------------------------------------------------------
(***************************************************************************)
(* Planning and the creation of the run.                                   *)
(***************************************************************************)
\* Mutant: the run is created under an id of its own.
CreateUnreserved(r) ==
    /\ pc[r] = "inserting"
    /\ runs' = runs \cup {r}
    /\ Goto(r, "marking")
    /\ UNCHANGED <<surface, brief, record, target, answer, faults, orphaned>>

\* agency.start_research: the planning is done and the repository finds no run
\* under the reserved id, so it inserts one.
FindNoRun(r) ==
    /\ pc[r] = "planning" /\ target[r] \notin runs
    /\ Goto(r, "inserting")
    /\ UNCHANGED <<surface, brief, record, runs, target, answer, faults, orphaned>>

CreateRun(r) ==
    /\ pc[r] = "inserting" /\ target[r] \notin runs
    /\ runs' = runs \cup {target[r]}
    /\ Goto(r, "marking")
    /\ UNCHANGED <<surface, brief, record, target, answer, faults, orphaned>>

\* DuplicateEntityError: somebody created it meanwhile.
FindDuplicate(r) ==
    /\ pc[r] = "planning" /\ target[r] \in runs
    /\ Goto(r, IF Created(r) THEN "rechecking" ELSE "retrieving")
    /\ UNCHANGED <<surface, brief, record, runs, target, answer, faults, orphaned>>

MarkCompleted(r) ==
    /\ pc[r] = "marking"
    /\ record' = Marked
    /\ Answer(r, target[r])
    /\ UNCHANGED <<surface, brief, runs, target, faults, orphaned>>

\* Planning raises in a request that did not register the key, or its insertion
\* meets the primary key, which the repository does not translate.
TakeoverFails(r) ==
    /\ surface = "api" /\ ~Created(r)
    /\ \/ pc[r] = "planning" /\ Fault
       \/ pc[r] = "inserting" /\ target[r] \in runs /\ UNCHANGED faults
    /\ Goto(r, "rechecking")
    /\ UNCHANGED <<surface, brief, record, runs, target, answer, orphaned>>

\* The same in the request that did: rollback_submission deletes the record of
\* the key.
RollBack(r) ==
    /\ surface = "api" /\ Created(r)
    /\ \/ pc[r] = "planning" /\ Fault
       \/ pc[r] = "inserting" /\ r \in runs /\ UNCHANGED faults
    /\ record' = NoRecord
    /\ orphaned' = IF r \in runs \/ Holders(r) # {r} THEN orphaned \cup {r} ELSE orphaned
    /\ Goto(r, "error")
    /\ UNCHANGED <<surface, brief, runs, target, answer>>

\* The UI keeps the record as failed.
MarkFailed(r) ==
    /\ pc[r] = "planning" /\ surface = "ui" /\ Fault
    /\ record' = [record EXCEPT !.status = "failed"]
    /\ Goto(r, "error")
    /\ UNCHANGED <<surface, brief, runs, target, answer, orphaned>>

Die(r) ==
    /\ pc[r] \notin Over \cup {"new"} /\ Fault
    /\ Goto(r, "dead")
    /\ UNCHANGED <<surface, brief, record, runs, target, answer, orphaned>>

Next == \E r \in Requests :
    \/ Register(r) \/ FindTaken(r) \/ FindGone(r) \/ Conflict(r) \/ Join(r)
    \/ LookCompleted(r) \/ LookPending(r) \/ LookAway(r) \/ Bind(r)
    \/ FindNoRun(r) \/ CreateRun(r) \/ FindDuplicate(r) \/ MarkCompleted(r)
    \/ TakeoverFails(r) \/ RollBack(r) \/ MarkFailed(r) \/ Die(r)

Spec == Init /\ [][Next]_vars
--------------------------------------------------------------------------------
(***************************************************************************)
(* Properties.                                                             *)
(***************************************************************************)
TypeOK ==
    /\ surface \in Surfaces
    /\ brief \in [Requests -> Briefs]
    /\ record \in [status : RecordStatus, run : Requests \cup {NoRequest}]
    /\ record.status # "absent" => record.run \in Requests
    /\ runs \subseteq Requests
    /\ pc \in [Requests -> Pc]
    /\ target \in [Requests -> Requests \cup {NoRequest}]
    /\ answer \in [Requests -> Requests \cup {NoRequest}]
    /\ faults \in 0..MaxFaults
    /\ orphaned \subseteq Requests

\* One key stands for one run, whatever dies, times out, is taken over, collides or
\* fails: there is at most one run that a rollback has not disowned, and while none
\* was, a completed record names that run and every response of the API names it to
\* a request with the brief it was made from.  A rollback disowns a run when it
\* deletes the record while a peer still holds the run's id or has created it.
KeyIsHonest ==
    /\ \A i, j \in runs \ orphaned : i = j
    /\ orphaned = {} =>
        /\ record.status = "completed" => record.run \in runs
        /\ surface = "api" =>
              \A r \in Requests : pc[r] = "answered" =>
                  answer[r] \in runs /\ brief[answer[r]] = brief[r]
===============================================================================
