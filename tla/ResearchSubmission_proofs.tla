----------------------- MODULE ResearchSubmission_proofs -----------------------
(***************************************************************************)
(* The honesty of an idempotency key, for any number of requests, bodies   *)
(* and failures.                                                           *)
(***************************************************************************)
EXTENDS ResearchSubmission, TLAPS

Live(r) == pc[r] \notin Over \cup {"new", "joining"}
Names(i) == record.status # "absent" /\ record.run = i

\* A run id that a live request holds, or under which a run exists, is the one the
\* record names, unless a rollback gave it up.  Only a creator that has failed
\* gives its id up, and only in the API.
HeldIsNamed == \A r \in Requests : Live(r) => target[r] \in orphaned \/ Names(target[r])
RunIsNamed == \A i \in runs \ orphaned : Names(i)
OrphansFailed ==
    /\ \A i \in orphaned : pc[i] = "error"
    /\ surface = "ui" => orphaned = {}

\* What a request holds: an id of its own brief, and a run once it may name it.
HoldsItsBrief ==
    \A r \in Requests :
        /\ Live(r) => target[r] \in Requests
        /\ target[r] \in Requests => brief[target[r]] = brief[r]
        /\ pc[r] \in {"marking", "binding"} => target[r] \in runs

CompletedHasRun == orphaned = {} /\ record.status = "completed" => record.run \in runs
AnswersHonest ==
    orphaned = {} /\ surface = "api" =>
        \A r \in Requests : pc[r] = "answered" =>
            answer[r] \in runs /\ brief[answer[r]] = brief[r]

SubmissionInv ==
    /\ TypeOK
    /\ HeldIsNamed /\ RunIsNamed /\ OrphansFailed
    /\ HoldsItsBrief /\ CompletedHasRun /\ AnswersHonest

LEMMA InitInv == Init => SubmissionInv
  <1> SUFFICES ASSUME Init PROVE SubmissionInv
    OBVIOUS
  <1>1. TypeOK
    BY FaultsAssumption DEF Init, TypeOK, NoRecord, RecordStatus, Pc
  <1> QED
    BY <1>1, RequestsAssumption
       DEF Init, SubmissionInv, HeldIsNamed, RunIsNamed, OrphansFailed, HoldsItsBrief,
           CompletedHasRun, AnswersHonest, Live, NoRecord

\* A request that goes on without touching the record, the runs or its id.
LEMMA GotoInv ==
    ASSUME SubmissionInv, NEW r \in Requests, Live(r) \/ pc[r] \in {"new", "joining"},
           NEW p \in Pc \ {"answered", "new"}, Goto(r, p),
           p \in Over \cup {"joining"} \/ Live(r),
           p \in {"marking", "binding"} => target[r] \in runs,
           faults' \in 0..MaxFaults,
           UNCHANGED <<surface, brief, record, runs, target, answer, orphaned>>
    PROVE  SubmissionInv'
  <1>1. TypeOK'
    BY DEF SubmissionInv, TypeOK, Goto
  <1>2. /\ pc' = [pc EXCEPT ![r] = p] /\ pc \in [Requests -> Pc]
        /\ orphaned \subseteq Requests
    BY DEF Goto, SubmissionInv, TypeOK
  <1>3. OrphansFailed'
    BY <1>2 DEF SubmissionInv, OrphansFailed, Live, Over
  <1>4. HeldIsNamed' /\ RunIsNamed'
    BY <1>2 DEF SubmissionInv, HeldIsNamed, RunIsNamed, Names, Live
  <1>5. HoldsItsBrief'
    BY <1>2 DEF SubmissionInv, HoldsItsBrief, Live
  <1>6. CompletedHasRun' /\ AnswersHonest'
    BY <1>2 DEF SubmissionInv, CompletedHasRun, AnswersHonest
  <1> QED
    BY <1>1, <1>3, <1>4, <1>5, <1>6 DEF SubmissionInv

\* Also LookCompleted when the run is missing.
LEMMA GotoSteps ==
    ASSUME SubmissionInv, NEW r \in Requests,
           \/ FindTaken(r) \/ FindGone(r) \/ Conflict(r) \/ LookPending(r) \/ LookAway(r)
           \/ FindNoRun(r) \/ FindDuplicate(r) \/ TakeoverFails(r) \/ Die(r)
    PROVE  SubmissionInv'
  <1>1. CASE FindTaken(r) \/ FindGone(r) \/ Conflict(r)
    <2>1. /\ pc[r] \in {"new", "joining"}
          /\ UNCHANGED <<surface, brief, record, runs, target, answer, faults, orphaned>>
      BY <1>1 DEF FindTaken, FindGone, Conflict
    <2>2. \E p \in {"joining", "error"} : Goto(r, p)
      BY <1>1 DEF FindTaken, FindGone, Conflict
    <2> QED
      BY <2>1, <2>2, GotoInv DEF Pc, Over, SubmissionInv, TypeOK
  <1>2. CASE LookPending(r)
    BY <1>2, GotoInv DEF LookPending, Live, Pc, Waits, Over, SubmissionInv, TypeOK
  <1>3. CASE LookAway(r)
    <2>1. Live(r)
      BY <1>3 DEF LookAway, Live, Waits, Over
    <2>2. \E p \in {"planning", "error"} : Goto(r, p)
      BY <1>3 DEF LookAway
    <2> QED
      BY <1>3, <2>1, <2>2, GotoInv DEF LookAway, Pc, Over, SubmissionInv, TypeOK
  <1>4. CASE FindNoRun(r)
    BY <1>4, GotoInv DEF FindNoRun, Live, Pc, Over, SubmissionInv, TypeOK
  <1>5. CASE FindDuplicate(r)
    <2>1. \E p \in {"rechecking", "retrieving"} : Goto(r, p)
      BY <1>5 DEF FindDuplicate
    <2> QED
      BY <1>5, <2>1, GotoInv DEF FindDuplicate, Live, Pc, Waits, Over, SubmissionInv, TypeOK
  <1>6. CASE TakeoverFails(r)
    <2>1. faults' \in 0..MaxFaults
      BY <1>6, FaultsAssumption DEF TakeoverFails, Fault, SubmissionInv, TypeOK
    <2> QED
      BY <1>6, <2>1, GotoInv DEF TakeoverFails, Live, Pc, Waits, Over
  <1>7. CASE Die(r)
    <2>1. faults' \in 0..MaxFaults
      BY <1>7, FaultsAssumption DEF Die, Fault, SubmissionInv, TypeOK
    <2> QED
      BY <1>7, <2>1, GotoInv DEF Die, Live, Pc, Waits, Over
  <1> QED
    BY <1>1, <1>2, <1>3, <1>4, <1>5, <1>6, <1>7

LEMMA RegisterStep ==
    ASSUME SubmissionInv, NEW r \in Requests, Register(r)
    PROVE  SubmissionInv'
  <1>1. /\ pc[r] = "new" /\ record.status = "absent"
        /\ record' = [status |-> "pending", run |-> r]
        /\ target' = [target EXCEPT ![r] = r]
        /\ UNCHANGED <<surface, brief, runs, answer, faults, orphaned>>
    BY DEF Register
  <1>2. PICK p \in {"looking", "planning"} : pc' = [pc EXCEPT ![r] = p]
    BY DEF Register, Goto
  <1>3. /\ pc \in [Requests -> Pc] /\ target \in [Requests -> Requests \cup {NoRequest}]
        /\ runs \subseteq Requests /\ orphaned \subseteq Requests
    BY DEF SubmissionInv, TypeOK
  <1>4. TypeOK'
    BY <1>1, <1>2 DEF SubmissionInv, TypeOK, RecordStatus, Pc
  <1>5. OrphansFailed'
    BY <1>1, <1>2, <1>3 DEF SubmissionInv, OrphansFailed
  <1>6. HeldIsNamed'
    BY <1>1, <1>2, <1>3 DEF SubmissionInv, HeldIsNamed, Names, Live
  <1>7. RunIsNamed'
    BY <1>1 DEF SubmissionInv, RunIsNamed, Names
  <1>8. HoldsItsBrief'
    BY <1>1, <1>2, <1>3, RequestsAssumption DEF SubmissionInv, HoldsItsBrief, Live, Over
  <1>9. CompletedHasRun' /\ AnswersHonest'
    BY <1>1, <1>2, <1>3 DEF SubmissionInv, CompletedHasRun, AnswersHonest
  <1> QED
    BY <1>4, <1>5, <1>6, <1>7, <1>8, <1>9 DEF SubmissionInv

LEMMA JoinStep ==
    ASSUME SubmissionInv, NEW r \in Requests, Join(r)
    PROVE  SubmissionInv'
  <1>1. /\ pc[r] = "joining" /\ record.status # "absent" /\ record.run \in Requests
        /\ brief[record.run] = brief[r]
        /\ target' = [target EXCEPT ![r] = record.run]
        /\ UNCHANGED <<surface, brief, record, runs, faults, orphaned>>
    BY DEF Join, SubmissionInv, TypeOK
  <1>2. \/ pc' = [pc EXCEPT ![r] = "error"] /\ answer' = answer
        \/ pc' = [pc EXCEPT ![r] = "waiting"] /\ answer' = answer
        \/ /\ pc' = [pc EXCEPT ![r] = "answered"] /\ answer' = [answer EXCEPT ![r] = record.run]
           /\ surface = "ui" \/ record.run \in runs
    BY DEF Join, Goto, Answer
  <1>3. /\ pc \in [Requests -> Pc] /\ target \in [Requests -> Requests \cup {NoRequest}]
        /\ answer \in [Requests -> Requests \cup {NoRequest}]
        /\ orphaned \subseteq Requests
    BY DEF SubmissionInv, TypeOK
  <1>4. TypeOK'
    BY <1>1, <1>2 DEF SubmissionInv, TypeOK, Pc, Waits
  <1>5. OrphansFailed'
    BY <1>1, <1>2, <1>3 DEF SubmissionInv, OrphansFailed
  <1>6. HeldIsNamed' /\ RunIsNamed'
    BY <1>1, <1>2, <1>3 DEF SubmissionInv, HeldIsNamed, RunIsNamed, Names, Live, Over
  <1>7. HoldsItsBrief'
    BY <1>1, <1>2, <1>3 DEF SubmissionInv, HoldsItsBrief, Live, Over
  <1>8. CompletedHasRun' /\ AnswersHonest'
    BY <1>1, <1>2, <1>3 DEF SubmissionInv, CompletedHasRun, AnswersHonest
  <1> QED
    BY <1>4, <1>5, <1>6, <1>7, <1>8 DEF SubmissionInv

\* The record is read as completed.
LEMMA LookCompletedStep ==
    ASSUME SubmissionInv, NEW r \in Requests, LookCompleted(r)
    PROVE  SubmissionInv'
  <1>1. Live(r) /\ record.status = "completed"
    BY DEF LookCompleted, Live, Waits, Over
  <1>2. CASE record.run \notin runs
    BY <1>1, <1>2, GotoInv DEF LookCompleted, Pc, Over, SubmissionInv, TypeOK
  <1>3. CASE record.run \in runs
    <2>1. /\ pc' = [pc EXCEPT ![r] = "answered"] /\ answer' = [answer EXCEPT ![r] = record.run]
          /\ UNCHANGED <<surface, brief, record, runs, target, faults, orphaned>>
      BY <1>3 DEF LookCompleted, Answer, Goto
    <2>2. /\ pc \in [Requests -> Pc] /\ answer \in [Requests -> Requests \cup {NoRequest}]
          /\ orphaned \subseteq Requests /\ runs \subseteq Requests
      BY DEF SubmissionInv, TypeOK
    <2>3. TypeOK'
      BY <1>3, <2>1, <2>2 DEF SubmissionInv, TypeOK, Pc
    <2>4. OrphansFailed'
      BY <1>1, <2>1, <2>2 DEF SubmissionInv, OrphansFailed, Live, Over
    <2>5. HeldIsNamed' /\ RunIsNamed' /\ HoldsItsBrief' /\ CompletedHasRun'
      BY <2>1, <2>2 DEF SubmissionInv, HeldIsNamed, RunIsNamed, HoldsItsBrief,
                        CompletedHasRun, Names, Live, Over
    <2>6. orphaned = {} => brief[record.run] = brief[r]
      BY <1>1 DEF SubmissionInv, HeldIsNamed, HoldsItsBrief, Names
    <2>7. AnswersHonest'
      BY <1>3, <2>1, <2>2, <2>6 DEF SubmissionInv, AnswersHonest
    <2> QED
      BY <2>3, <2>4, <2>5, <2>7 DEF SubmissionInv
  <1> QED
    BY <1>2, <1>3

\* Bind and MarkCompleted: the record is marked and the held run is the answer.
LEMMA MarkStep ==
    ASSUME SubmissionInv, NEW r \in Requests, Bind(r) \/ MarkCompleted(r)
    PROVE  SubmissionInv'
  <1>1. /\ pc[r] \in {"marking", "binding"} /\ record' = Marked
        /\ pc' = [pc EXCEPT ![r] = "answered"] /\ answer' = [answer EXCEPT ![r] = target[r]]
        /\ UNCHANGED <<surface, brief, runs, target, faults, orphaned>>
    BY DEF Bind, MarkCompleted, Answer, Goto
  <1>2. /\ pc \in [Requests -> Pc] /\ answer \in [Requests -> Requests \cup {NoRequest}]
        /\ record \in [status : RecordStatus, run : Requests \cup {NoRequest}]
        /\ orphaned \subseteq Requests /\ runs \subseteq Requests
    BY DEF SubmissionInv, TypeOK
  <1>3. Live(r) /\ target[r] \in runs /\ target[r] \in Requests /\ brief[target[r]] = brief[r]
    BY <1>1, <1>2 DEF SubmissionInv, HoldsItsBrief, Live, Over
  <1>4. /\ record'.run = record.run
        /\ record'.status = IF record.status = "absent" THEN "absent" ELSE "completed"
        /\ record' \in [status : RecordStatus, run : Requests \cup {NoRequest}]
    BY <1>1, <1>2 DEF Marked, RecordStatus
  <1>5. TypeOK'
    BY <1>1, <1>2, <1>3, <1>4 DEF SubmissionInv, TypeOK, Pc
  <1>6. OrphansFailed'
    BY <1>1, <1>2 DEF SubmissionInv, OrphansFailed
  <1>7. HeldIsNamed' /\ RunIsNamed'
    BY <1>1, <1>2, <1>4 DEF SubmissionInv, HeldIsNamed, RunIsNamed, Names, Live, Over
  <1>8. HoldsItsBrief'
    BY <1>1, <1>2 DEF SubmissionInv, HoldsItsBrief, Live, Over
  <1>9. CompletedHasRun'
    BY <1>1, <1>3, <1>4 DEF SubmissionInv, CompletedHasRun, HeldIsNamed, Names
  <1>10. AnswersHonest'
    BY <1>1, <1>2, <1>3 DEF SubmissionInv, AnswersHonest
  <1> QED
    BY <1>5, <1>6, <1>7, <1>8, <1>9, <1>10 DEF SubmissionInv

LEMMA CreateRunStep ==
    ASSUME SubmissionInv, NEW r \in Requests, CreateRun(r)
    PROVE  SubmissionInv'
  <1>1. /\ pc[r] = "inserting" /\ runs' = runs \cup {target[r]}
        /\ pc' = [pc EXCEPT ![r] = "marking"]
        /\ UNCHANGED <<surface, brief, record, target, answer, faults, orphaned>>
    BY DEF CreateRun, Goto
  <1>2. /\ pc \in [Requests -> Pc] /\ orphaned \subseteq Requests /\ runs \subseteq Requests
    BY DEF SubmissionInv, TypeOK
  <1>3. Live(r) /\ target[r] \in Requests /\ (target[r] \in orphaned \/ Names(target[r]))
    BY <1>1 DEF SubmissionInv, HoldsItsBrief, HeldIsNamed, Live, Over
  <1>4. TypeOK'
    BY <1>1, <1>3 DEF SubmissionInv, TypeOK, Pc
  <1>5. OrphansFailed'
    BY <1>1, <1>2 DEF SubmissionInv, OrphansFailed
  <1>6. HeldIsNamed' /\ RunIsNamed'
    BY <1>1, <1>2, <1>3 DEF SubmissionInv, HeldIsNamed, RunIsNamed, Names, Live, Over
  <1>7. HoldsItsBrief'
    BY <1>1, <1>2 DEF SubmissionInv, HoldsItsBrief, Live, Over
  <1>8. CompletedHasRun' /\ AnswersHonest'
    BY <1>1, <1>2 DEF SubmissionInv, CompletedHasRun, AnswersHonest
  <1> QED
    BY <1>4, <1>5, <1>6, <1>7, <1>8 DEF SubmissionInv

\* The creator deletes the record of its key.
LEMMA RollBackStep ==
    ASSUME SubmissionInv, NEW r \in Requests, RollBack(r)
    PROVE  SubmissionInv'
  <1>1. /\ surface = "api" /\ target[r] = r /\ pc[r] \in {"planning", "inserting"}
        /\ record' = NoRecord /\ pc' = [pc EXCEPT ![r] = "error"]
        /\ orphaned' = IF r \in runs \/ Holders(r) # {r} THEN orphaned \cup {r} ELSE orphaned
        /\ UNCHANGED <<surface, brief, runs, target, answer>>
    BY DEF RollBack, Created, Goto
  <1>2. /\ pc \in [Requests -> Pc] /\ orphaned \subseteq Requests /\ runs \subseteq Requests
    BY DEF SubmissionInv, TypeOK
  <1>3. faults' \in 0..MaxFaults
    BY FaultsAssumption DEF RollBack, Fault, SubmissionInv, TypeOK
  <1>4. r \notin orphaned /\ record.run = r
    BY <1>1 DEF SubmissionInv, OrphansFailed, HeldIsNamed, Names, Live, Over
  <1>5. TypeOK'
    BY <1>1, <1>2, <1>3 DEF SubmissionInv, TypeOK, Pc, NoRecord, RecordStatus
  <1>6. OrphansFailed'
    BY <1>1, <1>2 DEF SubmissionInv, OrphansFailed
  <1>7. HeldIsNamed'
    <2> SUFFICES ASSUME NEW q \in Requests, Live(q)'
                 PROVE  target[q] \in orphaned'
      BY <1>1 DEF HeldIsNamed
    <2>1. q # r /\ Live(q)
      BY <1>1, <1>2 DEF Live, Over
    <2>2. CASE target[q] \in orphaned
      BY <1>1, <2>2
    <2>3. CASE target[q] \notin orphaned
      <3>1. target[q] = r
        BY <1>4, <2>1, <2>3 DEF SubmissionInv, HeldIsNamed, Names
      <3>2. q \in Holders(r)
        BY <2>1, <3>1 DEF Holders, Live
      <3> QED
        BY <1>1, <2>1, <3>1, <3>2
    <2> QED
      BY <2>2, <2>3
  <1>8. RunIsNamed'
    BY <1>1, <1>4 DEF SubmissionInv, RunIsNamed, Names
  <1>9. HoldsItsBrief'
    BY <1>1, <1>2 DEF SubmissionInv, HoldsItsBrief, Live, Over
  <1>10. CompletedHasRun' /\ AnswersHonest'
    BY <1>1, <1>2 DEF SubmissionInv, CompletedHasRun, AnswersHonest, NoRecord
  <1> QED
    BY <1>5, <1>6, <1>7, <1>8, <1>9, <1>10 DEF SubmissionInv

LEMMA MarkFailedStep ==
    ASSUME SubmissionInv, NEW r \in Requests, MarkFailed(r)
    PROVE  SubmissionInv'
  <1>1. /\ pc[r] = "planning" /\ surface = "ui" /\ pc' = [pc EXCEPT ![r] = "error"]
        /\ record' = [record EXCEPT !.status = "failed"]
        /\ UNCHANGED <<surface, brief, runs, target, answer, orphaned>>
    BY DEF MarkFailed, Goto
  <1>2. /\ pc \in [Requests -> Pc]
        /\ record \in [status : RecordStatus, run : Requests \cup {NoRequest}]
    BY DEF SubmissionInv, TypeOK
  <1>3. faults' \in 0..MaxFaults
    BY FaultsAssumption DEF MarkFailed, Fault, SubmissionInv, TypeOK
  <1>4. orphaned = {} /\ record.status # "absent"
    BY <1>1 DEF SubmissionInv, OrphansFailed, HeldIsNamed, Names, Live, Over
  <1>5. record'.run = record.run /\ record'.status = "failed"
        /\ record' \in [status : RecordStatus, run : Requests \cup {NoRequest}]
    BY <1>1, <1>2 DEF RecordStatus
  <1>6. TypeOK'
    BY <1>1, <1>2, <1>3, <1>4, <1>5 DEF SubmissionInv, TypeOK, Pc
  <1>7. OrphansFailed'
    BY <1>1, <1>4 DEF OrphansFailed
  <1>8. HeldIsNamed' /\ RunIsNamed'
    BY <1>1, <1>2, <1>4, <1>5 DEF SubmissionInv, HeldIsNamed, RunIsNamed, Names, Live, Over
  <1>9. HoldsItsBrief'
    BY <1>1, <1>2 DEF SubmissionInv, HoldsItsBrief, Live, Over
  <1>10. CompletedHasRun' /\ AnswersHonest'
    BY <1>1, <1>5 DEF CompletedHasRun, AnswersHonest
  <1> QED
    BY <1>6, <1>7, <1>8, <1>9, <1>10 DEF SubmissionInv

LEMMA NextInv == SubmissionInv /\ [Next]_vars => SubmissionInv'
  <1> SUFFICES ASSUME SubmissionInv, [Next]_vars PROVE SubmissionInv'
    OBVIOUS
  <1>1. CASE UNCHANGED vars
    BY <1>1 DEF vars, SubmissionInv, TypeOK, HeldIsNamed, RunIsNamed, OrphansFailed,
                HoldsItsBrief, CompletedHasRun, AnswersHonest, Names, Live
  <1>2. CASE Next
    BY <1>2, GotoSteps, RegisterStep, JoinStep, LookCompletedStep, MarkStep, CreateRunStep,
       RollBackStep, MarkFailedStep DEF Next
  <1> QED
    BY <1>1, <1>2

THEOREM InvHolds == Spec => []SubmissionInv
  BY InitInv, NextInv, PTL DEF Spec
--------------------------------------------------------------------------------
\* The record, the runs and the requests keep their types.
THEOREM TypeCorrect == Spec => []TypeOK
  <1>1. SubmissionInv => TypeOK
    BY DEF SubmissionInv
  <1> QED
    BY <1>1, InvHolds, PTL

\* However many requests share the key, and whatever fails or dies: at most one run
\* of the key has not been disowned by a rollback, and while none was, the record
\* and the API's answers name it.
THEOREM HonestKey == Spec => []KeyIsHonest
  <1>1. SubmissionInv => KeyIsHonest
    BY DEF SubmissionInv, RunIsNamed, Names, CompletedHasRun, AnswersHonest, KeyIsHonest
  <1> QED
    BY <1>1, InvHolds, PTL
================================================================================
