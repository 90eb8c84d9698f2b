------------------------- MODULE WorkflowEngine_proofs -------------------------
(***************************************************************************)
(* What holds of the workflow engine for every set of tasks.  IInv and     *)
(* what follows from it hold for every workflow template, whatever its     *)
(* dependencies and roles; EarnedInv and what follows from it need the     *)
(* shape of the templates.                                                 *)
(***************************************************************************)
EXTENDS WorkflowEngine, TLAPS, WellFoundedInduction

(***************************************************************************)
(* The inductive invariant.  It says the same of the row and of the copy   *)
(* in memory; m is the template.                                           *)
(***************************************************************************)
\* Only skipped tasks are excused, and every task that was opened and has not
\* been given up has its dependencies done or excused.
Sound(m, s) ==
    /\ \A t \in s.satisfied : s.tasks[t] = "skipped"
    /\ \A t \in Tasks : s.tasks[t] \in {"ready", "running", "paused", "completed"} =>
          \A d \in m.deps[t] : Done(s, d)

\* An approval of the first round that is on record has excused the revision.
Vouched(m, s) ==
    \A t \in Tasks : m.role[t] = "review_1" /\ s.verdict[t] = "approve" =>
        \A u \in Tasks : m.role[u] \in {"revision", "review_2"} => u \in s.satisfied

NonePaused(s) == \A u \in Tasks : s.tasks[u] # "paused"
OnePaused(m, s) ==
    \E t \in Tasks : /\ m.role[t] \in {"boundary", "finalization"}
                     /\ \A u \in Tasks : s.tasks[u] = "paused" <=> u = t
Pauses(m, s) ==
    /\ s.status = "paused" => OnePaused(m, s)
    /\ s.status # "paused" => NonePaused(s)

Good(m, s) == Sound(m, s) /\ Vouched(m, s) /\ Pauses(m, s)

\* The copy in memory differs from the row only while the run is recovered, and
\* then by the interrupted tasks alone.
Interrupted(r, s) ==
    \A t \in Tasks : \/ s.tasks[t] = r.tasks[t]
                     \/ r.tasks[t] = "running" /\ s.tasks[t] \in {"ready", "failed"}

IInv ==
    /\ TypeOK
    /\ Good(template, row) /\ Good(template, mem)
    /\ mem.satisfied = row.satisfied
    /\ IF pc \in {"recovering", "starting"}
       THEN mem.status \in {"created", "running"} /\ Interrupted(row, mem)
       ELSE mem.tasks = row.tasks
    /\ pc = "executing" => mem.tasks[current] = "running"
--------------------------------------------------------------------------------
(***************************************************************************)
(* What the transforms of a workflow state make of its fields.             *)
(***************************************************************************)
LEMMA SkippedFields ==
    ASSUME NEW s \in WorkflowState, NEW T
    PROVE  /\ Skipped(s, T) \in WorkflowState
           /\ Skipped(s, T).status = s.status
           /\ Skipped(s, T).satisfied = s.satisfied
           /\ Skipped(s, T).verdict = s.verdict
           /\ Skipped(s, T).insufficient = s.insufficient
           /\ \A t \in Tasks : Skipped(s, T).tasks[t] =
                                   IF t \in T THEN "skipped" ELSE s.tasks[t]
  BY DEF Skipped, WorkflowState, TaskStatus

LEMMA ExcuseFields ==
    ASSUME NEW s \in WorkflowState
    PROVE  /\ Excuse(s) \in WorkflowState
           /\ Excuse(s).status = s.status
           /\ Excuse(s).satisfied = s.satisfied \cup Excused
           /\ Excuse(s).verdict = s.verdict
           /\ Excuse(s).insufficient = s.insufficient
           /\ \A t \in Tasks : Excuse(s).tasks[t] =
                                   IF t \in Excused THEN "skipped" ELSE s.tasks[t]
  <1>1. Excused \subseteq Tasks
    BY DEF Excused, With
  <1> QED
    BY <1>1, SkippedFields DEF Excuse, WorkflowState

LEMMA FailRunFields ==
    ASSUME NEW s \in WorkflowState
    PROVE  /\ FailRun(s) \in WorkflowState
           /\ FailRun(s).status = IF s.status = "running" THEN "failed" ELSE s.status
           /\ FailRun(s).satisfied = s.satisfied
           /\ FailRun(s).verdict = s.verdict
           /\ FailRun(s).insufficient = s.insufficient
           /\ FailRun(s).tasks = s.tasks
  BY DEF FailRun, WorkflowState, RunStatus

LEMMA RecoveredFields ==
    ASSUME NEW s \in WorkflowState
    PROVE  /\ Recovered(s) \in WorkflowState
           /\ Recovered(s).status = s.status
           /\ Recovered(s).satisfied = s.satisfied
           /\ Recovered(s).insufficient = s.insufficient
           /\ \A t \in Tasks : Recovered(s).verdict[t] =
                  IF s.tasks[t] = "completed" THEN s.verdict[t] ELSE "none"
           /\ \A t \in Tasks : Recovered(s).verdict[t] = "approve" => s.verdict[t] = "approve"
           /\ \A t \in Tasks : s.tasks[t] # "running" => Recovered(s).tasks[t] = s.tasks[t]
           /\ \A t \in Tasks : s.tasks[t] = "running" =>
                                   Recovered(s).tasks[t] \in {"ready", "failed"}
  BY DEF Recovered, WorkflowState, TaskStatus

LEMMA StatusFields ==
    ASSUME NEW s \in WorkflowState, NEW st \in RunStatus
    PROVE  LET w == [s EXCEPT !.status = st]
           IN  /\ w \in WorkflowState /\ w.status = st /\ w.tasks = s.tasks
               /\ w.satisfied = s.satisfied /\ w.verdict = s.verdict
               /\ w.insufficient = s.insufficient
  BY DEF WorkflowState

LEMMA TaskFields ==
    ASSUME NEW s \in WorkflowState, NEW t \in Tasks, NEW st \in TaskStatus
    PROVE  LET w == [s EXCEPT !.tasks[t] = st]
           IN  /\ w \in WorkflowState /\ w.status = s.status
               /\ w.satisfied = s.satisfied /\ w.verdict = s.verdict
               /\ w.insufficient = s.insufficient
               /\ \A u \in Tasks : w.tasks[u] = IF u = t THEN st ELSE s.tasks[u]
  BY DEF WorkflowState

LEMMA VerdictFields ==
    ASSUME NEW s \in WorkflowState, NEW t \in Tasks, NEW v \in Verdict
    PROVE  LET w == [s EXCEPT !.verdict[t] = v]
           IN  /\ w \in WorkflowState /\ w.status = s.status
               /\ w.satisfied = s.satisfied /\ w.tasks = s.tasks
               /\ w.insufficient = s.insufficient
               /\ \A u \in Tasks : w.verdict[u] = IF u = t THEN v ELSE s.verdict[u]
  BY DEF WorkflowState

LEMMA PlannedType ==
    ASSUME NEW s \in WorkflowState, NEW D
    PROVE  /\ [s EXCEPT !.tasks = [t \in Tasks |-> Planned(s, t, D)]] \in WorkflowState
           /\ [s EXCEPT !.tasks = [t \in Tasks |-> Planned(s, t, D)]].tasks =
                  [t \in Tasks |-> Planned(s, t, D)]
           /\ [s EXCEPT !.tasks = [t \in Tasks |-> Planned(s, t, D)]].status = s.status
           /\ [s EXCEPT !.tasks = [t \in Tasks |-> Planned(s, t, D)]].satisfied = s.satisfied
           /\ [s EXCEPT !.tasks = [t \in Tasks |-> Planned(s, t, D)]].verdict = s.verdict
           /\ [s EXCEPT !.tasks = [t \in Tasks |-> Planned(s, t, D)]].insufficient =
                  s.insufficient
  <1>1. \A t \in Tasks : Planned(s, t, D) \in TaskStatus
    BY DEF Planned, WorkflowState, TaskStatus
  <1> QED
    BY <1>1 DEF WorkflowState
--------------------------------------------------------------------------------
(***************************************************************************)
(* The transforms keep a good state good.                                  *)
(***************************************************************************)
Opened == {"ready", "running", "paused", "completed"}

\* What is done stays done, and only what was open, or may be opened, is open.
LEMMA SoundStep ==
    ASSUME NEW m \in Templates, NEW s \in WorkflowState, NEW w \in WorkflowState,
           Sound(m, s),
           \A t \in w.satisfied : w.tasks[t] = "skipped",
           \A t \in Tasks : Done(s, t) => Done(w, t),
           \A t \in Tasks : w.tasks[t] \in Opened =>
               s.tasks[t] \in Opened \/ \A d \in m.deps[t] : Done(s, d)
    PROVE  Sound(m, w)
  <1>1. \A t \in Tasks : m.deps[t] \subseteq Tasks
    BY TemplatesAssumption
  <1>2. \A t \in Tasks : w.tasks[t] \in Opened => \A d \in m.deps[t] : Done(w, d)
    BY <1>1 DEF Sound, Opened
  <1> QED
    BY <1>2 DEF Sound, Opened

LEMMA SkipGood ==
    ASSUME NEW m \in Templates, NEW s \in WorkflowState, Good(m, s),
           NEW T, \A t \in T : t \in Tasks => s.tasks[t] \in Pending
    PROVE  Good(m, Skipped(s, T))
  <1> DEFINE w == Skipped(s, T)
  <1>1. /\ w \in WorkflowState /\ w.status = s.status
        /\ w.satisfied = s.satisfied /\ w.verdict = s.verdict
        /\ \A t \in Tasks : w.tasks[t] = IF t \in T THEN "skipped" ELSE s.tasks[t]
    BY SkippedFields
  <1> HIDE DEF w
  <1>2. s.satisfied \subseteq Tasks
    BY DEF WorkflowState
  <1>3. \A t \in w.satisfied : w.tasks[t] = "skipped"
    BY <1>1, <1>2 DEF Good, Sound
  <1>4. \A t \in Tasks : Done(s, t) => Done(w, t)
    BY <1>1 DEF Done, Pending
  <1>5. Sound(m, w)
    BY <1>1, <1>3, <1>4, SoundStep DEF Good, Opened
  <1>6. Vouched(m, w)
    BY <1>1 DEF Good, Vouched
  <1>7. Pauses(m, w)
    BY <1>1 DEF Good, Pauses, OnePaused, NonePaused, Pending
  <1> QED
    BY <1>5, <1>6, <1>7 DEF Good, w

LEMMA ExcuseGood ==
    ASSUME template \in Templates, NEW s \in WorkflowState, Excusable(s),
           Sound(template, s), Pauses(template, s)
    PROVE  Good(template, Excuse(s))
  <1> DEFINE w == Excuse(s)
  <1>1. /\ w \in WorkflowState /\ w.status = s.status
        /\ w.satisfied = s.satisfied \cup Excused /\ w.verdict = s.verdict
        /\ \A t \in Tasks : w.tasks[t] = IF t \in Excused THEN "skipped" ELSE s.tasks[t]
    BY ExcuseFields
  <1> HIDE DEF w
  <1>2. s.satisfied \subseteq Tasks /\ Excused \subseteq Tasks
    BY DEF WorkflowState, Excused, With
  <1>3. \A t \in w.satisfied : w.tasks[t] = "skipped"
    BY <1>1, <1>2 DEF Sound
  <1>4. \A t \in Tasks : Done(s, t) => Done(w, t)
    BY <1>1 DEF Done, Excusable, Pending
  <1>5. Sound(template, w)
    BY <1>1, <1>3, <1>4, SoundStep DEF Opened
  <1>6. Vouched(template, w)
    BY <1>1 DEF Vouched, Excused, With
  <1>7. Pauses(template, w)
    BY <1>1 DEF Pauses, OnePaused, NonePaused, Pending, Excusable
  <1> QED
    BY <1>5, <1>6, <1>7 DEF Good, w

LEMMA FailRunGood ==
    ASSUME NEW m \in Templates, NEW s \in WorkflowState, Good(m, s)
    PROVE  Good(m, FailRun(s))
  BY FailRunFields DEF Good, Sound, Vouched, Pauses, OnePaused, NonePaused, Done

LEMMA RecoveredGood ==
    ASSUME NEW m \in Templates, NEW s \in WorkflowState, Good(m, s)
    PROVE  Good(m, Recovered(s)) /\ Interrupted(s, Recovered(s))
  <1> DEFINE w == Recovered(s)
  <1>1. /\ w \in WorkflowState /\ w.status = s.status /\ w.satisfied = s.satisfied
        /\ \A t \in Tasks : w.verdict[t] = "approve" => s.verdict[t] = "approve"
        /\ \A t \in Tasks : s.tasks[t] # "running" => w.tasks[t] = s.tasks[t]
        /\ \A t \in Tasks : s.tasks[t] = "running" => w.tasks[t] \in {"ready", "failed"}
    BY RecoveredFields
  <1> HIDE DEF w
  <1>2. s.satisfied \subseteq Tasks
    BY DEF WorkflowState
  <1>3. \A t \in w.satisfied : w.tasks[t] = "skipped"
    BY <1>1, <1>2 DEF Good, Sound
  <1>4. \A t \in Tasks : Done(s, t) => Done(w, t)
    BY <1>1 DEF Done
  <1>5. Sound(m, w)
    BY <1>1, <1>3, <1>4, SoundStep DEF Good, Opened
  <1>6. Vouched(m, w)
    BY <1>1 DEF Good, Vouched
  <1>7. Pauses(m, w)
    BY <1>1 DEF Good, Pauses, OnePaused, NonePaused
  <1>8. Interrupted(s, w)
    BY <1>1 DEF Interrupted
  <1> QED
    BY <1>5, <1>6, <1>7, <1>8 DEF Good, w

\* A round of review on a sound state; `current` is any running task, which the
\* branch leaves alone.
LEMMA BranchedGood ==
    ASSUME template \in Templates, NEW s \in WorkflowState, NEW round, NEW v \in Verdict,
           Sound(template, s), Pauses(template, s), BranchApplies(s, round, v),
           ~(round = "review_1" /\ v = "approve") => Vouched(template, s)
    PROVE  /\ Good(template, Branched(s, round, v))
           /\ Branched(s, round, v) \in WorkflowState
           /\ Branched(s, round, v).verdict = s.verdict
           /\ s.satisfied \subseteq Branched(s, round, v).satisfied
           /\ Branched(s, round, v).status \in {s.status, "failed"}
           /\ \A t \in Tasks : \/ Branched(s, round, v).tasks[t] = s.tasks[t]
                               \/ /\ s.tasks[t] \in Pending \cup {"skipped"}
                                  /\ Branched(s, round, v).tasks[t] = "skipped"
  <1>1. CASE round = "review_1" /\ v = "approve"
    <2>1. Branched(s, round, v) = Excuse(s)
      BY <1>1 DEF Branched
    <2>2. Excusable(s)
      BY <1>1 DEF BranchApplies
    <2> QED
      BY <2>1, <2>2, ExcuseGood, ExcuseFields DEF Excusable
  <1>2. CASE Branched(s, round, v) = s /\ ~(round = "review_1" /\ v = "approve")
    BY <1>2 DEF Good
  <1>3. CASE Branched(s, round, v) = FailRun(Skipped(s, Blocked(s)))
             /\ ~(round = "review_1" /\ v = "approve")
    <2>1. \A t \in Blocked(s) : s.tasks[t] \in Pending
      BY DEF Blocked, PendingIn
    <2>2. Good(template, s)
      BY <1>3 DEF Good
    <2>3. Good(template, Skipped(s, Blocked(s))) /\ Skipped(s, Blocked(s)) \in WorkflowState
      BY <2>1, <2>2, SkipGood, SkippedFields
    <2>4. Good(template, FailRun(Skipped(s, Blocked(s))))
      BY <2>3, FailRunGood
    <2> QED
      BY <1>3, <2>1, <2>3, <2>4, FailRunFields, SkippedFields
  <1>4. \/ round = "review_1" /\ v = "approve"
        \/ Branched(s, round, v) = s
        \/ Branched(s, round, v) = FailRun(Skipped(s, Blocked(s)))
    BY DEF Branched
  <1> QED
    BY <1>1, <1>2, <1>3, <1>4

\* A task of a good state that is running ends: completed or failed.
LEMMA FinishGood ==
    ASSUME NEW m \in Templates, NEW s \in WorkflowState, Good(m, s),
           NEW t \in Tasks, s.tasks[t] = "running", NEW st \in {"completed", "failed"}
    PROVE  Good(m, [s EXCEPT !.tasks[t] = st])
  <1> DEFINE w == [s EXCEPT !.tasks[t] = st]
  <1>1. /\ w \in WorkflowState /\ w.status = s.status
        /\ w.satisfied = s.satisfied /\ w.verdict = s.verdict
        /\ \A u \in Tasks : w.tasks[u] = IF u = t THEN st ELSE s.tasks[u]
    <2>1. st \in TaskStatus
      BY DEF TaskStatus
    <2> QED
      BY <2>1, TaskFields
  <1> HIDE DEF w
  <1>2. s.satisfied \subseteq Tasks
    BY DEF WorkflowState
  <1>3. \A u \in w.satisfied : w.tasks[u] = "skipped"
    BY <1>1, <1>2 DEF Good, Sound
  <1>4. \A u \in Tasks : Done(s, u) => Done(w, u)
    BY <1>1 DEF Done
  <1>5. Sound(m, w)
    BY <1>1, <1>3, <1>4, SoundStep DEF Good, Opened
  <1>6. Vouched(m, w)
    BY <1>1 DEF Good, Vouched
  <1>7. Pauses(m, w)
    BY <1>1 DEF Good, Pauses, OnePaused, NonePaused
  <1> QED
    BY <1>5, <1>6, <1>7 DEF Good, w

\* A scheduling pass.
LEMMA PlannedGood ==
    ASSUME template \in Templates, NEW s \in WorkflowState, Good(template, s),
           NEW D \in SUBSET Tasks, Doomed(s, D)
    PROVE  Good(template, [s EXCEPT !.tasks = [t \in Tasks |-> Planned(s, t, D)]])
  <1> DEFINE w == [s EXCEPT !.tasks = [t \in Tasks |-> Planned(s, t, D)]]
  <1>1. /\ w \in WorkflowState /\ w.status = s.status
        /\ w.satisfied = s.satisfied /\ w.verdict = s.verdict
        /\ \A t \in Tasks : w.tasks[t] = Planned(s, t, D)
    BY PlannedType
  <1> HIDE DEF w
  <1>2. s.satisfied \subseteq Tasks
    BY DEF WorkflowState
  <1>3. \A t \in Tasks : s.tasks[t] \notin Pending => w.tasks[t] = s.tasks[t]
    BY <1>1 DEF Planned
  <1>4. \A t \in Tasks : s.tasks[t] \in Pending =>
            /\ w.tasks[t] \in Pending \cup {"skipped"}
            /\ w.tasks[t] = "ready" =>
                  s.tasks[t] = "ready" \/ \A d \in template.deps[t] : Done(s, d)
    BY <1>1 DEF Planned, Pending, DependsOn
  <1>5. \A t \in w.satisfied : w.tasks[t] = "skipped"
    BY <1>1, <1>2, <1>3 DEF Good, Sound, Pending
  <1>6. \A t \in Tasks : Done(s, t) => Done(w, t)
    BY <1>1, <1>3 DEF Done, Pending
  <1>7. Sound(template, w)
    <2>1. \A t \in Tasks : w.tasks[t] \in Opened =>
              s.tasks[t] \in Opened \/ \A d \in template.deps[t] : Done(s, d)
      BY <1>3, <1>4 DEF Opened, Pending
    <2> QED
      BY <1>1, <1>5, <1>6, <2>1, SoundStep DEF Good
  <1>8. Vouched(template, w)
    BY <1>1 DEF Good, Vouched
  <1>9. Pauses(template, w)
    BY <1>1, <1>3, <1>4 DEF Good, Pauses, OnePaused, NonePaused, Pending
  <1> QED
    BY <1>7, <1>8, <1>9 DEF Good, w
--------------------------------------------------------------------------------
(***************************************************************************)
(* Initial states and steps.                                               *)
(***************************************************************************)
LEMMA NatMin ==
    ASSUME NEW S \in SUBSET Nat, S # {}
    PROVE  \E n \in S : \A k \in S : n <= k
  <1> DEFINE R == OpToRel(<, Nat)
  <1>1. IsWellFoundedOn(R, Nat)
    BY NatLessThanWellFounded
  <1>2. \A x, y \in Nat : x < y => <<x, y>> \in R
    BY DEF OpToRel
  <1> HIDE DEF R
  <1>3. \E x \in S : \A y \in S : ~(<<y, x>> \in R)
    BY <1>1, WFMin
  <1>4. \A x, y \in S : ~(<<y, x>> \in R) => x <= y
    BY <1>2
  <1> QED
    BY <1>3, <1>4

\* _find_ready_task finds one when there is one.
LEMMA NextReadyIsReady ==
    ASSUME NEW s \in WorkflowState, ReadyTasks(s) # {}
    PROVE  NextReady(s) \in ReadyTasks(s)
  <1> DEFINE S == {Position[t] : t \in ReadyTasks(s)}
  <1>1. ReadyTasks(s) \subseteq Tasks
    BY DEF ReadyTasks
  <1>2. S \in SUBSET Nat /\ S # {}
    BY <1>1, PositionAssumption
  <1>3. PICK n \in S : \A k \in S : n <= k
    BY <1>2, NatMin
  <1>4. PICK t \in ReadyTasks(s) : n = Position[t]
    BY <1>3
  <1>5. \A u \in ReadyTasks(s) : Position[t] <= Position[u]
    BY <1>3, <1>4
  <1> QED
    BY <1>4, <1>5 DEF NextReady

LEMMA InitIInv == Init => IInv
  <1> SUFFICES ASSUME Init PROVE IInv
    OBVIOUS
  <1>1. row \in WorkflowState
    BY DEF Init, WorkflowState, RunStatus, TaskStatus
  <1>2. TypeOK
    <2>1. changed \in BOOLEAN
      BY DEF Init
    <2>2. faults \in 0..MaxFaults /\ resumes \in 0..MaxResumes
      BY BoundsAssumption DEF Init
    <2>3. template \in Templates /\ mem \in WorkflowState /\ pc \in Pc
          /\ current \in Tasks \cup {NoTask} /\ pc # "executing"
      BY <1>1 DEF Init, Pc
    <2> QED
      BY <1>1, <2>1, <2>2, <2>3 DEF TypeOK
  <1>3. Good(template, row)
    BY DEF Init, Good, Sound, Vouched, Pauses, NonePaused
  <1> QED
    BY <1>2, <1>3 DEF Init, IInv

\* What every step that saves what it has in memory needs.
LEMMA SavedStep ==
    ASSUME template \in Templates, template' = template,
           mem' \in WorkflowState, Good(template, mem'),
           row' = mem',
           pc' \in Pc \ {"recovering", "starting"},
           current' \in Tasks \cup {NoTask},
           pc' = "executing" => current' \in Tasks /\ mem'.tasks[current'] = "running",
           changed' \in BOOLEAN, faults' \in 0..MaxFaults, resumes' \in 0..MaxResumes
    PROVE  IInv'
  <1>1. TypeOK'
    BY DEF TypeOK
  <1>2. Good(template', row') /\ Good(template', mem')
    OBVIOUS
  <1> QED
    BY <1>1, <1>2 DEF IInv

\* A crash, and a step that ends with the engine giving the run up.
LEMMA ForgetStep ==
    ASSUME IInv, Forget, template' = template,
           row' \in WorkflowState, Good(template, row'),
           faults' \in 0..MaxFaults, resumes' \in 0..MaxResumes
    PROVE  IInv'
  <1>1. pc' \in Pc \ {"recovering", "starting"} /\ pc' # "executing"
    BY DEF Forget, Pc
  <1> QED
    BY <1>1, SavedStep DEF Forget, IInv, TypeOK

\* The end of an executor's work.
LEMMA FinishedStep ==
    ASSUME IInv, pc = "executing", NEW s \in WorkflowState, Good(template, s),
           s.tasks[current] = "running", NEW st \in {"completed", "failed"}, Finished(s, st)
    PROVE  IInv'
  <1>1. template \in Templates /\ current \in Tasks
    BY DEF IInv, TypeOK
  <1>2. st \in TaskStatus
    BY DEF TaskStatus
  <1>3. mem' \in WorkflowState
    BY <1>1, <1>2, TaskFields DEF Finished
  <1>4. Good(template, mem')
    BY <1>1, FinishGood DEF Finished
  <1> QED
    BY <1>1, <1>3, <1>4, SavedStep DEF Finished, Save, IInv, TypeOK, Pc

LEMMA ClaimStep == IInv /\ Claim => IInv'
  <1> SUFFICES ASSUME IInv, Claim PROVE IInv'
    OBVIOUS
  <1>1. /\ template \in Templates /\ row \in WorkflowState /\ Good(template, row)
    BY DEF IInv, TypeOK
  <1>2. /\ mem' = Recovered(row) /\ row' = row /\ template' = template
        /\ pc' \in {"recovering", "starting"} /\ current' = current
    BY DEF Claim
  <1>3. /\ mem' \in WorkflowState /\ Good(template, mem') /\ Interrupted(row, mem')
        /\ mem'.status \in {"created", "running"} /\ mem'.satisfied = row.satisfied
    BY <1>1, <1>2, RecoveredGood, RecoveredFields DEF Claim
  <1>4. TypeOK'
    BY <1>2, <1>3 DEF IInv, TypeOK, Claim, Pc
  <1> QED
    BY <1>1, <1>2, <1>3, <1>4 DEF IInv

LEMMA SaveRecoveryStep == IInv /\ SaveRecovery => IInv'
  <1> SUFFICES ASSUME IInv, SaveRecovery PROVE IInv'
    OBVIOUS
  <1>1. TypeOK'
    BY DEF IInv, TypeOK, SaveRecovery, Pc
  <1> QED
    BY <1>1 DEF IInv, SaveRecovery, Interrupted

\* The last round that is on record may be applied to a good state again.
LEMMA GoodReconcilable ==
    ASSUME template \in Templates, NEW s \in WorkflowState, Good(template, s)
    PROVE  Reconcilable(s)
  <1> SUFFICES ASSUME NEW t \in LastRound(s)
               PROVE  BranchApplies(s, template.role[t], s.verdict[t])
    BY DEF Reconcilable
  <1>1. t \in Tasks
    BY DEF LastRound, DecidedIn, With
  <1>2. CASE template.role[t] = "review_1" /\ s.verdict[t] = "approve"
    <2>1. \A u \in Excused : u \in s.satisfied
      BY <1>1, <1>2 DEF Good, Vouched, Excused, With
    <2> QED
      BY <2>1 DEF BranchApplies, Excusable, Good, Sound
  <1> QED
    BY <1>2 DEF BranchApplies

LEMMA StartStep == IInv /\ Start => IInv'
  <1> SUFFICES ASSUME IInv, Start PROVE IInv'
    OBVIOUS
  <1> DEFINE s == [mem EXCEPT !.status = "running"]
  <1>1. /\ template \in Templates /\ mem \in WorkflowState /\ row \in WorkflowState
        /\ Good(template, mem) /\ Good(template, row)
        /\ mem.status \in {"created", "running"} /\ template' = template
        /\ faults' \in 0..MaxFaults /\ resumes' \in 0..MaxResumes
    BY DEF IInv, TypeOK, Start
  <1>2. /\ s \in WorkflowState /\ s.status = "running" /\ s.tasks = mem.tasks
        /\ s.satisfied = mem.satisfied /\ s.verdict = mem.verdict
    BY <1>1, StatusFields DEF RunStatus
  <1> HIDE DEF s
  <1>3. Good(template, s)
    BY <1>1, <1>2 DEF Good, Sound, Vouched, Pauses, NonePaused, Done
  <1>4. Reconcilable(s)
    BY <1>1, <1>2, <1>3, GoodReconcilable
  <1>5. /\ mem' = Reconciled(s) /\ row' = mem' /\ pc' = "scheduling"
        /\ current' = current /\ changed' = changed
    BY <1>4 DEF Start, Save, s
  <1>6. Reconciled(s) \in WorkflowState /\ Good(template, Reconciled(s))
    <2>1. CASE LastRound(s) = {}
      BY <2>1, <1>2, <1>3 DEF Reconciled
    <2>2. CASE LastRound(s) # {}
      <3>1. PICK t \in LastRound(s) :
                Reconciled(s) = Branched(s, template.role[t], s.verdict[t])
        BY <2>2 DEF Reconciled
      <3>2. t \in Tasks /\ s.verdict[t] # "none"
        BY DEF LastRound, DecidedIn, With
      <3>3. s.verdict[t] \in Verdict
        BY <1>2, <3>2 DEF WorkflowState
      <3>4. BranchApplies(s, template.role[t], s.verdict[t])
        BY <1>4 DEF Reconcilable
      <3> QED
        BY <1>1, <1>2, <1>3, <3>1, <3>3, <3>4, BranchedGood DEF Good
    <2> QED
      BY <2>1, <2>2
  <1> QED
    BY <1>1, <1>5, <1>6, SavedStep DEF IInv, TypeOK, Pc

LEMMA ScheduleStep == IInv /\ Schedule => IInv'
  <1> SUFFICES ASSUME IInv, Schedule PROVE IInv'
    OBVIOUS
  <1>1. /\ template \in Templates /\ mem \in WorkflowState /\ row \in WorkflowState
        /\ Good(template, mem) /\ Good(template, row) /\ mem.satisfied = row.satisfied
        /\ mem.tasks = row.tasks /\ template' = template
        /\ faults' \in 0..MaxFaults /\ resumes' \in 0..MaxResumes
    BY DEF IInv, TypeOK, Schedule
  <1>2. CASE ~Schedulable(mem)
    <2>1. Forget /\ row' = row
      BY <1>2 DEF Schedule
    <2> QED
      BY <1>1, <2>1, ForgetStep
  <1>3. CASE Schedulable(mem)
    <2>1. PICK D \in SUBSET Tasks :
              /\ Doomed(mem, D)
              /\ mem' = [mem EXCEPT !.tasks = [t \in Tasks |-> Planned(mem, t, D)]]
      BY <1>3 DEF Schedule
    <2>2. mem' \in WorkflowState /\ mem'.satisfied = mem.satisfied
      BY <1>1, <2>1, PlannedType
    <2>3. Good(template, mem')
      BY <1>1, <2>1, PlannedGood
    <2>4. /\ row' = IF mem'.tasks # mem.tasks THEN mem' ELSE row
          /\ pc' = "dispatching" /\ current' = current
      BY <1>3 DEF Schedule
    <2>5. changed' \in BOOLEAN
      BY <1>3 DEF Schedule
    <2>6. TypeOK'
      BY <1>1, <2>2, <2>4, <2>5 DEF IInv, TypeOK, Pc
    <2> QED
      BY <1>1, <2>2, <2>3, <2>4, <2>6 DEF IInv
  <1> QED
    BY <1>2, <1>3

\* A ready task is made running.
LEMMA StartedGood ==
    ASSUME template \in Templates, mem \in WorkflowState, Good(template, mem),
           NEW t \in ReadyTasks(mem)
    PROVE  /\ StartedMem(t) \in WorkflowState /\ Good(template, StartedMem(t))
           /\ StartedMem(t).tasks[t] = "running" /\ t \in Tasks
  <1> DEFINE w == StartedMem(t)
  <1>1. t \in Tasks /\ mem.tasks[t] = "ready"
    BY DEF ReadyTasks
  <1>2. /\ w \in WorkflowState /\ w.status = mem.status
        /\ w.satisfied = mem.satisfied /\ w.verdict = mem.verdict
        /\ \A u \in Tasks : w.tasks[u] = IF u = t THEN "running" ELSE mem.tasks[u]
    <2>1. "running" \in TaskStatus
      BY DEF TaskStatus
    <2> QED
      BY <1>1, <2>1, TaskFields DEF StartedMem
  <1> HIDE DEF w
  <1>3. mem.satisfied \subseteq Tasks
    BY DEF WorkflowState
  <1>4. \A u \in w.satisfied : w.tasks[u] = "skipped"
    BY <1>1, <1>2, <1>3 DEF Good, Sound
  <1>5. \A u \in Tasks : Done(mem, u) => Done(w, u)
    BY <1>1, <1>2 DEF Done
  <1>6. Sound(template, w)
    BY <1>1, <1>2, <1>4, <1>5, SoundStep DEF Good, Opened
  <1>7. Vouched(template, w)
    BY <1>2 DEF Good, Vouched
  <1>8. Pauses(template, w)
    BY <1>1, <1>2 DEF Good, Pauses, OnePaused, NonePaused
  <1> QED
    BY <1>1, <1>2, <1>6, <1>7, <1>8 DEF Good, w

LEMMA StartTaskStep == IInv /\ (StartTask \/ AbandonTask) => IInv'
  <1> SUFFICES ASSUME IInv, StartTask \/ AbandonTask PROVE IInv'
    OBVIOUS
  <1>1. /\ template \in Templates /\ mem \in WorkflowState /\ Good(template, mem)
        /\ ReadyTasks(mem) # {}
    BY DEF IInv, TypeOK, StartTask, AbandonTask
  <1>2. NextReady(mem) \in ReadyTasks(mem)
    BY <1>1, NextReadyIsReady
  <1>3. /\ mem' \in WorkflowState /\ Good(template, mem') /\ row' = mem'
        /\ mem'.tasks[NextReady(mem)] = "running" /\ NextReady(mem) \in Tasks
    BY <1>1, <1>2, StartedGood DEF StartTask, AbandonTask, Save
  <1>4. CASE StartTask
    BY <1>1, <1>3, <1>4, SavedStep DEF StartTask, IInv, TypeOK, Pc
  <1>5. CASE AbandonTask
    <2>1. faults' \in 0..MaxFaults
      BY <1>5, BoundsAssumption DEF AbandonTask, IInv, TypeOK
    <2> QED
      BY <1>1, <1>3, <1>5, <2>1, SavedStep DEF AbandonTask, IInv, TypeOK, Pc
  <1> QED
    BY <1>4, <1>5

LEMMA NothingReadyStep == IInv /\ NothingReady => IInv'
  <1> SUFFICES ASSUME IInv, NothingReady PROVE IInv'
    OBVIOUS
  <1>1. pc' \in Pc \ {"recovering", "starting"} /\ pc' # "executing" /\ pc = "dispatching"
    BY DEF NothingReady, Pc
  <1>2. UNCHANGED <<template, row, mem, current, changed, faults, resumes>>
    BY DEF NothingReady
  <1>3. TypeOK'
    BY <1>1, <1>2 DEF IInv, TypeOK
  <1> QED
    BY <1>1, <1>2, <1>3 DEF IInv

LEMMA FinalizeStep == IInv /\ Finalize => IInv'
  <1> SUFFICES ASSUME IInv, Finalize PROVE IInv'
    OBVIOUS
  <1>1. /\ template \in Templates /\ mem \in WorkflowState /\ Good(template, mem)
        /\ template' = template /\ faults' \in 0..MaxFaults /\ resumes' \in 0..MaxResumes
        /\ Forget /\ row' = [mem EXCEPT !.status = Resolved(mem)]
    BY DEF IInv, TypeOK, Finalize
  <1>2. Resolved(mem) \in RunStatus
    BY <1>1 DEF Resolved, WorkflowState, RunStatus
  <1>3. /\ row' \in WorkflowState /\ row'.status = Resolved(mem) /\ row'.tasks = mem.tasks
        /\ row'.satisfied = mem.satisfied /\ row'.verdict = mem.verdict
    BY <1>1, <1>2, StatusFields
  <1>4. Pauses(template, row')
    <2>1. \/ Resolved(mem) = mem.status
          \/ AllTerminal(mem) /\ Resolved(mem) \in RunTerminal
      BY DEF Resolved, RunTerminal, AllTerminal
    <2>2. AllTerminal(mem) => NonePaused(mem)
      BY DEF AllTerminal, TaskTerminal, NonePaused
    <2> QED
      BY <1>1, <1>3, <2>1, <2>2 DEF Good, Pauses, OnePaused, NonePaused, RunTerminal
  <1>5. Good(template, row')
    BY <1>1, <1>3, <1>4 DEF Good, Sound, Vouched, Done
  <1> QED
    BY <1>1, <1>3, <1>5, ForgetStep

\* What an executor may rely on.
LEMMA AtExecution ==
    ASSUME IInv, NEW roles, Executing(roles)
    PROVE  /\ pc = "executing" /\ template \in Templates /\ current \in Tasks
           /\ mem \in WorkflowState /\ Good(template, mem)
           /\ mem.tasks[current] = "running" /\ template.role[current] \in roles
  BY DEF Executing, IInv, TypeOK

LEMMA CheckpointStep == IInv /\ Checkpoint => IInv'
  <1> SUFFICES ASSUME IInv, Checkpoint PROVE IInv'
    OBVIOUS
  <1>1. /\ pc = "executing" /\ template \in Templates /\ current \in Tasks
        /\ mem \in WorkflowState /\ Good(template, mem) /\ mem.tasks[current] = "running"
    BY AtExecution DEF Checkpoint
  <1>2. /\ mem' \in WorkflowState /\ mem'.status = mem.status /\ mem'.tasks = mem.tasks
        /\ mem'.satisfied = mem.satisfied /\ mem'.verdict = mem.verdict
    BY <1>1 DEF Checkpoint, WorkflowState
  <1>3. Good(template, mem')
    BY <1>1, <1>2 DEF Good, Sound, Vouched, Pauses, OnePaused, NonePaused, Done
  <1> QED
    BY <1>1, <1>2, <1>3, SavedStep DEF Checkpoint, Save, IInv, TypeOK, Pc

\* TaskCompletes, ReportRevised, Finalized and TaskFails
LEMMA PlainFinishStep ==
    ASSUME IInv, NEW roles, Executing(roles), NEW st \in {"completed", "failed"},
           Finished(mem, st)
    PROVE  IInv'
  BY AtExecution, FinishedStep

\* GateCheckpoint, ReadinessAssessed and AnalysisCompletes: the insufficient outcome
\* skips what is pending downstream.
LEMMA InsufficientGood ==
    ASSUME IInv, NEW roles, Executing(roles)
    PROVE  LET w == FoundInsufficient(mem)
           IN  w \in WorkflowState /\ Good(template, w) /\ w.tasks[current] = "running"
  <1> DEFINE T == PendingIn(mem, With(DownstreamRoles))
             v == Skipped(mem, T)
             w == [v EXCEPT !.insufficient = TRUE]
  <1>1. /\ template \in Templates /\ current \in Tasks /\ mem \in WorkflowState
        /\ Good(template, mem) /\ mem.tasks[current] = "running"
    BY AtExecution
  <1>2. \A t \in T : mem.tasks[t] \in Pending
    BY DEF PendingIn
  <1> HIDE DEF T
  <1>3. v \in WorkflowState /\ Good(template, v) /\ v.tasks[current] = "running"
    <2>1. current \notin T
      BY <1>1, <1>2 DEF Pending
    <2> QED
      BY <1>1, <1>2, <2>1, SkippedFields, SkipGood
  <1> HIDE DEF v
  <1>4. /\ w \in WorkflowState /\ w.status = v.status /\ w.tasks = v.tasks
        /\ w.satisfied = v.satisfied /\ w.verdict = v.verdict
    BY <1>3 DEF WorkflowState
  <1> HIDE DEF w
  <1>5. Good(template, w) /\ w.tasks[current] = "running"
    BY <1>3, <1>4 DEF Good, Sound, Vouched, Pauses, OnePaused, NonePaused, Done
  <1> QED
    BY <1>4, <1>5 DEF w, v, T, FoundInsufficient

LEMMA ProgressFields ==
    ASSUME NEW s \in WorkflowState, NEW t \in Tasks
    PROVE  LET w == [s EXCEPT !.progress = @ \cup {t}]
           IN  /\ w \in WorkflowState /\ w.status = s.status /\ w.tasks = s.tasks
               /\ w.satisfied = s.satisfied /\ w.verdict = s.verdict
               /\ w.insufficient = s.insufficient
  BY DEF WorkflowState

LEMMA GateCheckpointStep == IInv /\ GateCheckpoint => IInv'
  <1> SUFFICES ASSUME IInv, GateCheckpoint PROVE IInv'
    OBVIOUS
  <1> DEFINE w == FoundInsufficient(mem)
  <1>1. Executing({"acquisition"})
    BY DEF GateCheckpoint
  <1>2. pc = "executing" /\ template \in Templates /\ current \in Tasks
    BY <1>1, AtExecution
  <1>3. w \in WorkflowState /\ Good(template, w) /\ w.tasks[current] = "running"
    BY <1>1, InsufficientGood
  <1>4. /\ mem' = [w EXCEPT !.progress = @ \cup {current}] /\ row' = mem'
        /\ template' = template /\ pc' = pc /\ current' = current /\ changed' = changed
        /\ faults' = faults /\ resumes' = resumes
    BY DEF GateCheckpoint, Save
  <1> HIDE DEF w
  <1>5. /\ mem' \in WorkflowState /\ mem'.status = w.status /\ mem'.tasks = w.tasks
        /\ mem'.satisfied = w.satisfied /\ mem'.verdict = w.verdict
    BY <1>2, <1>3, <1>4, ProgressFields
  <1>6. Good(template, mem') /\ mem'.tasks[current] = "running"
    BY <1>3, <1>5 DEF Good, Sound, Vouched, Pauses, OnePaused, NonePaused, Done
  <1>7. /\ changed \in BOOLEAN /\ faults \in 0..MaxFaults /\ resumes \in 0..MaxResumes
    BY DEF IInv, TypeOK
  <1> QED
    BY <1>2, <1>4, <1>5, <1>6, <1>7, SavedStep DEF Pc

LEMMA AssessedStep == IInv /\ (ReadinessAssessed \/ AnalysisCompletes) => IInv'
  <1> SUFFICES ASSUME IInv, ReadinessAssessed \/ AnalysisCompletes PROVE IInv'
    OBVIOUS
  <1> DEFINE w == FoundInsufficient(mem)
  <1>1. Executing({"readiness", "acquisition"}) \/ Executing({"analysis"})
    BY DEF ReadinessAssessed, AnalysisCompletes
  <1>2. /\ pc = "executing" /\ mem \in WorkflowState /\ Good(template, mem)
        /\ mem.tasks[current] = "running"
    BY <1>1, AtExecution
  <1>3. w \in WorkflowState /\ Good(template, w) /\ w.tasks[current] = "running"
    BY <1>1, InsufficientGood
  <1>4. Finished(mem, "completed") \/ Finished(w, "completed")
    BY DEF ReadinessAssessed, AnalysisCompletes
  <1> HIDE DEF w
  <1> QED
    BY <1>2, <1>3, <1>4, FinishedStep

LEMMA ReviewDecidesStep == IInv /\ ReviewDecides => IInv'
  <1> SUFFICES ASSUME IInv, ReviewDecides PROVE IInv'
    OBVIOUS
  <1>1. /\ pc = "executing" /\ template \in Templates /\ current \in Tasks
        /\ mem \in WorkflowState /\ Good(template, mem) /\ mem.tasks[current] = "running"
    BY AtExecution DEF ReviewDecides
  <1> DEFINE round == template.role[current]
  <1>2. PICK v \in Verdict :
            /\ BranchApplies(mem, round, v)
            /\ Finished(Branched([mem EXCEPT !.verdict[current] = v], round, v), "completed")
    BY DEF ReviewDecides
  <1> DEFINE s == [mem EXCEPT !.verdict[current] = v]
             w == Branched(s, round, v)
  <1>3. /\ s \in WorkflowState /\ s.status = mem.status
        /\ s.satisfied = mem.satisfied /\ s.tasks = mem.tasks
        /\ \A u \in Tasks : s.verdict[u] = IF u = current THEN v ELSE mem.verdict[u]
    BY <1>1, VerdictFields
  <1>4. Finished(w, "completed")
    BY <1>2
  <1> HIDE DEF s
  <1>5. Sound(template, s) /\ Pauses(template, s)
    BY <1>1, <1>3 DEF Good, Sound, Pauses, OnePaused, NonePaused, Done
  <1>6. ~(round = "review_1" /\ v = "approve") => Vouched(template, s)
    BY <1>1, <1>3 DEF Good, Vouched
  <1>7. BranchApplies(s, round, v)
    BY <1>2, <1>3 DEF BranchApplies, Excusable
  <1> HIDE DEF round
  <1>8. /\ w \in WorkflowState /\ Good(template, w)
        /\ \A t \in Tasks : \/ w.tasks[t] = s.tasks[t]
                            \/ s.tasks[t] \in Pending \cup {"skipped"}
    BY <1>1, <1>3, <1>5, <1>6, <1>7, BranchedGood
  <1>9. w.tasks[current] = "running"
    BY <1>1, <1>3, <1>8 DEF Pending
  <1> HIDE DEF w
  <1> QED
    BY <1>1, <1>4, <1>8, <1>9, FinishedStep

LEMMA TaskPausesStep == IInv /\ TaskPauses => IInv'
  <1> SUFFICES ASSUME IInv, TaskPauses PROVE IInv'
    OBVIOUS
  <1>1. /\ pc = "executing" /\ template \in Templates /\ current \in Tasks
        /\ mem \in WorkflowState /\ Good(template, mem) /\ mem.tasks[current] = "running"
        /\ template.role[current] \in {"finalization", "boundary"} /\ mem.status = "running"
    BY AtExecution DEF TaskPauses
  <1>2. /\ mem' \in WorkflowState /\ mem'.status = "paused"
        /\ mem'.satisfied = mem.satisfied /\ mem'.verdict = mem.verdict
        /\ \A u \in Tasks : mem'.tasks[u] = IF u = current THEN "paused" ELSE mem.tasks[u]
    BY <1>1 DEF TaskPauses, WorkflowState, TaskStatus, RunStatus
  <1>3. mem.satisfied \subseteq Tasks
    BY <1>1 DEF WorkflowState
  <1>4. \A u \in mem'.satisfied : mem'.tasks[u] = "skipped"
    BY <1>1, <1>2, <1>3 DEF Good, Sound
  <1>5. \A u \in Tasks : Done(mem, u) => Done(mem', u)
    BY <1>1, <1>2 DEF Done
  <1>6. Sound(template, mem')
    <2>1. Sound(template, mem)
      BY <1>1 DEF Good
    <2>2. \A u \in Tasks : mem'.tasks[u] \in Opened =>
              mem.tasks[u] \in Opened \/ \A d \in template.deps[u] : Done(mem, d)
      BY <1>1, <1>2 DEF Opened
    <2> QED
      BY <1>1, <1>2, <1>4, <1>5, <2>1, <2>2, SoundStep
  <1>7. Vouched(template, mem')
    BY <1>1, <1>2 DEF Good, Vouched
  <1>8. Pauses(template, mem')
    BY <1>1, <1>2 DEF Good, Pauses, OnePaused, NonePaused
  <1>9. Good(template, mem')
    BY <1>6, <1>7, <1>8 DEF Good
  <1> QED
    BY <1>1, <1>2, <1>9, SavedStep DEF TaskPauses, Save, IInv, TypeOK, Pc
--------------------------------------------------------------------------------
(***************************************************************************)
(* Writers of a paused run.                                                *)
(***************************************************************************)
\* resume_paused_task and the presentation worker change one paused task and
\* the status of the run.
LEMMA UnpausedGood ==
    ASSUME NEW m \in Templates, NEW s \in WorkflowState, Good(m, s), s.status = "paused",
           NEW t \in Tasks, s.tasks[t] = "paused",
           NEW st \in {"ready", "completed", "failed"}, NEW rs \in {"running", "completed", "failed"}
    PROVE  LET w == [s EXCEPT !.tasks[t] = st, !.status = rs]
           IN  w \in WorkflowState /\ Good(m, w)
  <1> DEFINE w == [s EXCEPT !.tasks[t] = st, !.status = rs]
  <1>1. /\ w \in WorkflowState /\ w.status = rs
        /\ w.satisfied = s.satisfied /\ w.verdict = s.verdict
        /\ \A u \in Tasks : w.tasks[u] = IF u = t THEN st ELSE s.tasks[u]
    BY DEF WorkflowState, TaskStatus, RunStatus
  <1> HIDE DEF w
  <1>2. s.satisfied \subseteq Tasks
    BY DEF WorkflowState
  <1>3. \A u \in w.satisfied : w.tasks[u] = "skipped"
    BY <1>1, <1>2 DEF Good, Sound
  <1>4. \A u \in Tasks : Done(s, u) => Done(w, u)
    BY <1>1 DEF Done
  <1>5. Sound(m, w)
    BY <1>1, <1>3, <1>4, SoundStep DEF Good, Opened
  <1>6. Vouched(m, w)
    BY <1>1 DEF Good, Vouched
  <1>7. Pauses(m, w)
    BY <1>1 DEF Good, Pauses, OnePaused, NonePaused
  <1> QED
    BY <1>1, <1>5, <1>6, <1>7 DEF Good, w

LEMMA ResumeTaskStep == IInv /\ ResumeTask => IInv'
  <1> SUFFICES ASSUME IInv, ResumeTask PROVE IInv'
    OBVIOUS
  <1>1. PICK t \in PausedTasks : row' = [row EXCEPT !.tasks[t] = "ready", !.status = "running"]
    BY DEF ResumeTask
  <1>2. /\ t \in Tasks /\ row.tasks[t] = "paused" /\ row.status = "paused"
        /\ template \in Templates /\ row \in WorkflowState /\ Good(template, row)
    BY DEF PausedTasks, ResumeTask, IInv, TypeOK
  <1>3. row' \in WorkflowState /\ Good(template, row')
    BY <1>1, <1>2, UnpausedGood
  <1>4. resumes' \in 0..MaxResumes
    BY BoundsAssumption DEF ResumeTask, IInv, TypeOK
  <1> QED
    BY <1>3, <1>4, ForgetStep DEF ResumeTask, IInv, TypeOK

LEMMA SettlePausedStep == IInv /\ SettlePaused => IInv'
  <1> SUFFICES ASSUME IInv, SettlePaused PROVE IInv'
    OBVIOUS
  <1>1. PICK t \in PausedTasks, outcome \in RunTerminal :
            row' = [row EXCEPT !.tasks[t] = outcome, !.status = outcome]
    BY DEF SettlePaused
  <1>2. /\ t \in Tasks /\ row.tasks[t] = "paused" /\ row.status = "paused"
        /\ template \in Templates /\ row \in WorkflowState /\ Good(template, row)
    BY DEF PausedTasks, SettlePaused, IInv, TypeOK
  <1>3. row' \in WorkflowState /\ Good(template, row')
    BY <1>1, <1>2, UnpausedGood DEF RunTerminal
  <1> QED
    BY <1>3, ForgetStep DEF SettlePaused, IInv, TypeOK

LEMMA CrashStep == IInv /\ Crash => IInv'
  <1> SUFFICES ASSUME IInv, Crash PROVE IInv'
    OBVIOUS
  <1>1. faults' \in 0..MaxFaults
    BY BoundsAssumption DEF Crash, IInv, TypeOK
  <1> QED
    BY <1>1, ForgetStep DEF Crash, IInv, TypeOK

LEMMA StutterStep == IInv /\ UNCHANGED vars => IInv'
  <1> SUFFICES ASSUME IInv, UNCHANGED vars PROVE IInv'
    OBVIOUS
  <1>1. TypeOK'
    BY DEF IInv, TypeOK, vars
  <1> QED
    BY <1>1 DEF IInv, vars

LEMMA NextIInv == IInv /\ [Next]_vars => IInv'
  <1> SUFFICES ASSUME IInv, [Next]_vars PROVE IInv'
    OBVIOUS
  <1>1. ASSUME Claim \/ SaveRecovery \/ Start \/ Schedule \/ StartTask \/ AbandonTask
               \/ NothingReady \/ Finalize PROVE IInv'
    BY <1>1, ClaimStep, SaveRecoveryStep, StartStep, ScheduleStep, StartTaskStep,
       NothingReadyStep, FinalizeStep
  <1>2. ASSUME TaskCompletes \/ ReportRevised \/ Finalized \/ TaskFails PROVE IInv'
    <2>1. CASE TaskCompletes
      BY <2>1, PlainFinishStep DEF TaskCompletes
    <2>2. CASE ReportRevised
      BY <2>2, PlainFinishStep DEF ReportRevised
    <2>3. CASE Finalized
      BY <2>3, PlainFinishStep DEF Finalized
    <2>4. CASE TaskFails
      BY <2>4, PlainFinishStep DEF TaskFails
    <2> QED
      BY <1>2, <2>1, <2>2, <2>3, <2>4
  <1>3. ASSUME ReadinessAssessed \/ AnalysisCompletes \/ ReviewDecides \/ TaskPauses
               \/ Checkpoint \/ GateCheckpoint PROVE IInv'
    BY <1>3, AssessedStep, ReviewDecidesStep, TaskPausesStep, CheckpointStep,
       GateCheckpointStep
  <1>4. ASSUME ResumeTask \/ SettlePaused \/ Crash PROVE IInv'
    BY <1>4, ResumeTaskStep, SettlePausedStep, CrashStep
  <1> QED
    BY <1>1, <1>2, <1>3, <1>4, StutterStep DEF Next, Engine

THEOREM IInvHolds == Spec => []IInv
  BY InitIInv, NextIInv, PTL DEF Spec
--------------------------------------------------------------------------------
(***************************************************************************)
(* Theorems.                                                               *)
(***************************************************************************)
\* The run, its copy in memory and the engine's place keep their types.
THEOREM TypeCorrect == Spec => []TypeOK
  <1>1. IInv => TypeOK
    BY DEF IInv
  <1> QED
    BY <1>1, IInvHolds, PTL

\* Whatever the template and whatever crashed, was abandoned or resumed before,
\* the scheduler's validation and the reconciliation of the review branch accept
\* the run.
THEOREM NeverRaises == Spec => []EngineNeverRaises
  <1>1. IInv => EngineNeverRaises
    <2> SUFFICES ASSUME IInv PROVE EngineNeverRaises
      OBVIOUS
    <2>1. template \in Templates /\ mem \in WorkflowState /\ Good(template, mem)
      BY DEF IInv, TypeOK
    <2>2. Schedulable(mem)
      BY <2>1 DEF Schedulable, Good, Sound, DependsOn
    <2>3. Reconcilable(mem)
      BY <2>1, GoodReconcilable
    <2> QED
      BY <2>2, <2>3 DEF EngineNeverRaises
  <1> QED
    BY <1>1, IInvHolds, PTL

\* A run is PAUSED exactly when one of its tasks is, which waits for somebody.
THEOREM PausedOnce == Spec => []PausedAtOneBoundary
  <1>1. IInv => PausedAtOneBoundary
    <2> SUFFICES ASSUME IInv PROVE PausedAtOneBoundary
      OBVIOUS
    <2>1. Pauses(template, row)
      BY DEF IInv, Good
    <2>2. CASE row.status = "paused"
      <3>1. PICK t \in Tasks : /\ template.role[t] \in {"boundary", "finalization"}
                               /\ \A u \in Tasks : row.tasks[u] = "paused" <=> u = t
        BY <2>1, <2>2 DEF Pauses, OnePaused
      <3>2. PausedTasks = {t}
        BY <3>1 DEF PausedTasks
      <3> QED
        BY <2>2, <3>1, <3>2 DEF PausedAtOneBoundary, With
    <2>3. CASE row.status # "paused"
      BY <2>1, <2>3 DEF Pauses, NonePaused, PausedTasks, PausedAtOneBoundary
    <2> QED
      BY <2>2, <2>3
  <1> QED
    BY <1>1, IInvHolds, PTL
--------------------------------------------------------------------------------
(***************************************************************************)
(* Every step moves the tasks of the row as TaskGraph allows.              *)
(***************************************************************************)
OpenStatus == {"ready", "running", "paused"}

\* What a step may make of one task.
TaskStep(r, w, t) ==
    \/ w.tasks[t] = r.tasks[t]
    \/ r.tasks[t] \in Pending \cup {"running", "skipped"} /\ w.tasks[t] = "skipped"
    \/ r.tasks[t] \in OpenStatus /\ w.tasks[t] \in OpenStatus \cup {"completed", "failed"}
    \/ r.tasks[t] \in {"created", "waiting"} /\ w.tasks[t] \in {"created", "waiting"}
    \/ /\ r.tasks[t] \in {"created", "waiting"} /\ w.tasks[t] = "ready"
       /\ \A d \in DependsOn(t) : Done(r, d)
RowStep(r, w) == r.satisfied \subseteq w.satisfied /\ \A t \in Tasks : TaskStep(r, w, t)

MovesOnly == \A t \in Tasks : PhaseOf(t)' # PhaseOf(t) => Graph!Moves(t, PhaseOf(t)')

LEMMA RowStepMoves == IInv /\ RowStep(row, row') => MovesOnly
  <1> SUFFICES ASSUME IInv, RowStep(row, row'), NEW t \in Tasks, PhaseOf(t)' # PhaseOf(t)
               PROVE  Graph!Moves(t, PhaseOf(t)')
    BY DEF MovesOnly
  <1>1. /\ row \in WorkflowState /\ TaskStep(row, row', t) /\ row.satisfied \subseteq row'.satisfied
        /\ DependsOn(t) \subseteq Tasks
    BY TemplatesAssumption DEF IInv, TypeOK, RowStep, DependsOn
  <1>2. row.tasks[t] \in TaskStatus
    BY <1>1 DEF WorkflowState
  <1>3. \A d \in DependsOn(t) : Done(row, d) => PhaseOf(d) \in {"done", "excused"}
    BY DEF Done, PhaseOf
  <1>4. CASE row'.tasks[t] = row.tasks[t]
    <2>1. PhaseOf(t) = "skipped" /\ PhaseOf(t)' = "excused"
      BY <1>1, <1>2, <1>4 DEF PhaseOf, TaskStatus
    <2> QED
      BY <2>1 DEF Graph!Moves
  <1>5. CASE row.tasks[t] \in Pending \cup {"running", "skipped"} /\ row'.tasks[t] = "skipped"
    <2>1. PhaseOf(t) \in {"pending", "open", "skipped", "excused"}
          /\ PhaseOf(t)' \in {"skipped", "excused"}
      BY <1>5 DEF PhaseOf, Pending
    <2>2. PhaseOf(t) = "excused" => PhaseOf(t)' = "excused"
      BY <1>1, <1>5 DEF PhaseOf, Pending
    <2> QED
      BY <2>1, <2>2 DEF Graph!Moves
  <1>6. CASE /\ row.tasks[t] \in OpenStatus
             /\ row'.tasks[t] \in OpenStatus \cup {"completed", "failed"}
    <2>1. PhaseOf(t) = "open" /\ PhaseOf(t)' \in {"open", "done", "failed"}
      BY <1>6 DEF PhaseOf, OpenStatus
    <2> QED
      BY <2>1 DEF Graph!Moves
  <1>7. CASE row.tasks[t] \in {"created", "waiting"} /\ row'.tasks[t] \in {"created", "waiting"}
    BY <1>7 DEF PhaseOf
  <1>8. CASE /\ row.tasks[t] \in {"created", "waiting"} /\ row'.tasks[t] = "ready"
             /\ \A d \in DependsOn(t) : Done(row, d)
    <2>1. PhaseOf(t) = "pending" /\ PhaseOf(t)' = "open"
      BY <1>8 DEF PhaseOf
    <2>2. Graph!Met(t)
      BY <1>1, <1>3, <1>8 DEF Graph!Met, DependsOn
    <2> QED
      BY <2>1, <2>2 DEF Graph!Moves
  <1> QED
    BY <1>1, <1>4, <1>5, <1>6, <1>7, <1>8 DEF TaskStep

LEMMA RowSame == ASSUME row' = row PROVE RowStep(row, row')
  BY DEF RowStep, TaskStep

\* An executor may have excused or skipped tasks before its own ended.
LEMMA FinishedMoves ==
    ASSUME IInv, pc = "executing", NEW s \in WorkflowState,
           mem.satisfied \subseteq s.satisfied,
           \A t \in Tasks : \/ s.tasks[t] = mem.tasks[t]
                            \/ /\ mem.tasks[t] \in Pending \cup {"skipped"}
                               /\ s.tasks[t] = "skipped",
           NEW st \in {"completed", "failed"}, Finished(s, st)
    PROVE  RowStep(row, row')
  <1>1. /\ current \in Tasks /\ mem.tasks = row.tasks /\ mem.satisfied = row.satisfied
        /\ mem.tasks[current] = "running"
    BY DEF IInv, TypeOK
  <1>2. st \in TaskStatus
    BY DEF TaskStatus
  <1>3. /\ row'.satisfied = s.satisfied
        /\ \A u \in Tasks : row'.tasks[u] = IF u = current THEN st ELSE s.tasks[u]
    BY <1>1, <1>2, TaskFields DEF Finished, Save
  <1>4. ASSUME NEW t \in Tasks PROVE TaskStep(row, row', t)
    <2>1. CASE t = current
      BY <1>1, <1>3, <2>1 DEF TaskStep, OpenStatus
    <2>2. CASE t # current
      BY <1>1, <1>3, <2>2 DEF TaskStep
    <2> QED
      BY <2>1, <2>2
  <1> QED
    BY <1>1, <1>3, <1>4 DEF RowStep

\* What the insufficient outcome makes of the tasks.
LEMMA InsufficientFields ==
    ASSUME mem \in WorkflowState
    PROVE  LET w == FoundInsufficient(mem)
           IN  /\ w \in WorkflowState /\ w.satisfied = mem.satisfied
               /\ \A t \in Tasks : \/ w.tasks[t] = mem.tasks[t]
                                   \/ mem.tasks[t] \in Pending /\ w.tasks[t] = "skipped"
  <1> DEFINE T == PendingIn(mem, With(DownstreamRoles))
             v == Skipped(mem, T)
             w == [v EXCEPT !.insufficient = TRUE]
  <1>1. \A t \in T : mem.tasks[t] \in Pending
    BY DEF PendingIn
  <1> HIDE DEF T
  <1>2. /\ v \in WorkflowState /\ v.satisfied = mem.satisfied
        /\ \A t \in Tasks : v.tasks[t] = IF t \in T THEN "skipped" ELSE mem.tasks[t]
    BY SkippedFields
  <1> HIDE DEF v
  <1>3. w \in WorkflowState /\ w.satisfied = v.satisfied /\ w.tasks = v.tasks
    BY <1>2 DEF WorkflowState
  <1> HIDE DEF w
  <1>4. \A t \in Tasks : \/ w.tasks[t] = mem.tasks[t]
                         \/ mem.tasks[t] \in Pending /\ w.tasks[t] = "skipped"
    BY <1>1, <1>2, <1>3
  <1> QED
    BY <1>2, <1>3, <1>4 DEF w, v, T, FoundInsufficient

LEMMA ExecutorMoves ==
    IInv /\ (\/ TaskCompletes \/ ReadinessAssessed \/ AnalysisCompletes \/ ReviewDecides
             \/ ReportRevised \/ Finalized \/ TaskFails) => RowStep(row, row')
  <1> SUFFICES ASSUME IInv,
                      \/ TaskCompletes \/ ReadinessAssessed \/ AnalysisCompletes
                      \/ ReviewDecides \/ ReportRevised \/ Finalized \/ TaskFails
               PROVE  RowStep(row, row')
    OBVIOUS
  <1>1. pc = "executing" /\ mem \in WorkflowState
    BY DEF TaskCompletes, ReadinessAssessed, AnalysisCompletes, ReviewDecides,
           ReportRevised, Finalized, TaskFails, Executing, IInv, TypeOK
  <1> DEFINE w == FoundInsufficient(mem)
  <1>2. /\ w \in WorkflowState /\ w.satisfied = mem.satisfied
        /\ \A t \in Tasks : \/ w.tasks[t] = mem.tasks[t]
                            \/ mem.tasks[t] \in Pending /\ w.tasks[t] = "skipped"
    BY <1>1, InsufficientFields
  <1>3. CASE Finished(mem, "completed") \/ Finished(mem, "failed")
    BY <1>1, <1>3, FinishedMoves
  <1>4. CASE Finished(w, "completed")
    <2> HIDE DEF w
    <2> QED
      BY <1>1, <1>2, <1>4, FinishedMoves
  <1>5. CASE ReviewDecides
    <2> DEFINE round == template.role[current]
    <2>1. /\ current \in Tasks /\ template \in Templates /\ Good(template, mem)
      BY <1>1 DEF IInv, TypeOK
    <2>2. PICK v \in Verdict :
              /\ BranchApplies(mem, round, v)
              /\ Finished(Branched([mem EXCEPT !.verdict[current] = v], round, v), "completed")
      BY <1>5 DEF ReviewDecides
    <2> DEFINE s == [mem EXCEPT !.verdict[current] = v]
    <2>3. /\ s \in WorkflowState /\ s.status = mem.status
          /\ s.satisfied = mem.satisfied /\ s.tasks = mem.tasks
          /\ \A u \in Tasks : s.verdict[u] = IF u = current THEN v ELSE mem.verdict[u]
      BY <1>1, <2>1, VerdictFields
    <2>4. Finished(Branched(s, round, v), "completed")
      BY <2>2
    <2> HIDE DEF s
    <2>5. Sound(template, s) /\ Pauses(template, s)
      BY <2>1, <2>3 DEF Good, Sound, Pauses, OnePaused, NonePaused, Done
    <2>6. ~(round = "review_1" /\ v = "approve") => Vouched(template, s)
      BY <2>1, <2>3 DEF Good, Vouched
    <2>7. BranchApplies(s, round, v)
      BY <2>2, <2>3 DEF BranchApplies, Excusable
    <2> HIDE DEF round
    <2>8. /\ Branched(s, round, v) \in WorkflowState
          /\ s.satisfied \subseteq Branched(s, round, v).satisfied
          /\ \A t \in Tasks : \/ Branched(s, round, v).tasks[t] = s.tasks[t]
                              \/ /\ s.tasks[t] \in Pending \cup {"skipped"}
                                 /\ Branched(s, round, v).tasks[t] = "skipped"
      BY <2>1, <2>3, <2>5, <2>6, <2>7, BranchedGood
    <2> QED
      BY <1>1, <2>3, <2>4, <2>8, FinishedMoves
  <1>6. \/ Finished(mem, "completed") \/ Finished(mem, "failed")
        \/ Finished(w, "completed") \/ ReviewDecides
    BY DEF TaskCompletes, ReadinessAssessed, AnalysisCompletes, ReportRevised, Finalized,
           TaskFails
  <1> QED
    BY <1>3, <1>4, <1>5, <1>6

\* The one step that saves a recovery together with what the review branch
\* makes of it.
LEMMA StartMoves == IInv /\ Start => RowStep(row, row')
  <1> SUFFICES ASSUME IInv, Start PROVE RowStep(row, row')
    OBVIOUS
  <1> DEFINE s == [mem EXCEPT !.status = "running"]
  <1>1. /\ template \in Templates /\ mem \in WorkflowState /\ row \in WorkflowState
        /\ Good(template, mem) /\ mem.status \in {"created", "running"}
        /\ Interrupted(row, mem) /\ mem.satisfied = row.satisfied
    BY DEF IInv, TypeOK, Start
  <1>2. /\ s \in WorkflowState /\ s.status = "running" /\ s.tasks = mem.tasks
        /\ s.satisfied = mem.satisfied /\ s.verdict = mem.verdict
    BY <1>1, StatusFields DEF RunStatus
  <1> HIDE DEF s
  <1>3. Good(template, s)
    BY <1>1, <1>2 DEF Good, Sound, Vouched, Pauses, NonePaused, Done
  <1>4. Reconcilable(s)
    BY <1>1, <1>2, <1>3, GoodReconcilable
  <1>5. row' = Reconciled(s)
    BY <1>4 DEF Start, Save, s
  <1>6. /\ s.satisfied \subseteq Reconciled(s).satisfied
        /\ \A t \in Tasks : \/ Reconciled(s).tasks[t] = s.tasks[t]
                            \/ /\ s.tasks[t] \in Pending \cup {"skipped"}
                               /\ Reconciled(s).tasks[t] = "skipped"
    <2>1. CASE LastRound(s) = {}
      BY <2>1 DEF Reconciled
    <2>2. CASE LastRound(s) # {}
      <3>1. PICK t \in LastRound(s) :
                Reconciled(s) = Branched(s, template.role[t], s.verdict[t])
        BY <2>2 DEF Reconciled
      <3>2. t \in Tasks /\ s.verdict[t] # "none"
        BY DEF LastRound, DecidedIn, With
      <3>3. s.verdict[t] \in Verdict
        BY <1>2, <3>2 DEF WorkflowState
      <3>4. BranchApplies(s, template.role[t], s.verdict[t])
        BY <1>4 DEF Reconcilable
      <3> QED
        BY <1>1, <1>2, <1>3, <3>1, <3>3, <3>4, BranchedGood DEF Good
    <2> QED
      BY <2>1, <2>2
  <1>7. ASSUME NEW t \in Tasks PROVE TaskStep(row, row', t)
    <2>1. CASE mem.tasks[t] = row.tasks[t]
      BY <1>2, <1>5, <1>6, <2>1 DEF TaskStep
    <2>2. CASE row.tasks[t] = "running" /\ mem.tasks[t] \in {"ready", "failed"}
      BY <1>2, <1>5, <1>6, <2>2 DEF TaskStep, OpenStatus, Pending
    <2> QED
      BY <1>1, <2>1, <2>2 DEF Interrupted
  <1> QED
    BY <1>1, <1>2, <1>5, <1>6, <1>7 DEF RowStep

LEMMA ScheduleMoves == IInv /\ Schedule => RowStep(row, row')
  <1> SUFFICES ASSUME IInv, Schedule, row' # row PROVE RowStep(row, row')
    BY RowSame
  <1>1. mem \in WorkflowState /\ mem.tasks = row.tasks /\ mem.satisfied = row.satisfied
    BY DEF IInv, TypeOK, Schedule
  <1>2. PICK D \in SUBSET Tasks :
            /\ row' = mem'
            /\ mem' = [mem EXCEPT !.tasks = [t \in Tasks |-> Planned(mem, t, D)]]
    BY DEF Schedule
  <1>3. /\ row'.satisfied = row.satisfied
        /\ \A t \in Tasks : row'.tasks[t] = Planned(mem, t, D)
    BY <1>1, <1>2, PlannedType
  <1>4. ASSUME NEW t \in Tasks PROVE TaskStep(row, row', t)
    <2>1. \/ Planned(mem, t, D) = mem.tasks[t]
          \/ mem.tasks[t] \in Pending /\ Planned(mem, t, D) = "skipped"
          \/ mem.tasks[t] = "created" /\ Planned(mem, t, D) = "waiting"
          \/ /\ mem.tasks[t] \in Pending /\ Planned(mem, t, D) = "ready"
             /\ \A d \in DependsOn(t) : Done(mem, d)
      BY DEF Planned, Pending
    <2>2. \A d : Done(mem, d) => Done(row, d)
      BY <1>1 DEF Done
    <2> QED
      BY <1>1, <1>3, <2>1, <2>2 DEF TaskStep, Pending, OpenStatus
  <1> QED
    BY <1>3, <1>4 DEF RowStep

\* Steps that change at most one task of the row.
LEMMA OneTaskMoves ==
    ASSUME IInv, row' \in WorkflowState, NEW u \in Tasks, row'.satisfied = row.satisfied,
           row.tasks[u] \in OpenStatus,
           row'.tasks[u] \in OpenStatus \cup {"completed", "failed"},
           \A t \in Tasks \ {u} : row'.tasks[t] = row.tasks[t]
    PROVE  RowStep(row, row')
  BY DEF RowStep, TaskStep

LEMMA StartTaskMoves == IInv /\ (StartTask \/ AbandonTask) => RowStep(row, row')
  <1> SUFFICES ASSUME IInv, StartTask \/ AbandonTask PROVE RowStep(row, row')
    OBVIOUS
  <1> DEFINE u == NextReady(mem)
  <1>1. /\ mem \in WorkflowState /\ ReadyTasks(mem) # {} /\ row' = StartedMem(u)
        /\ mem.tasks = row.tasks /\ mem.satisfied = row.satisfied
    BY DEF IInv, TypeOK, StartTask, AbandonTask, Save
  <1>2. u \in Tasks /\ mem.tasks[u] = "ready"
    BY <1>1, NextReadyIsReady DEF ReadyTasks
  <1> HIDE DEF u
  <1>3. "running" \in TaskStatus
    BY DEF TaskStatus
  <1>4. /\ row' \in WorkflowState /\ row'.satisfied = mem.satisfied
        /\ \A t \in Tasks : row'.tasks[t] = IF t = u THEN "running" ELSE mem.tasks[t]
    BY <1>1, <1>2, <1>3, TaskFields DEF StartedMem
  <1> QED
    BY <1>1, <1>2, <1>4, OneTaskMoves DEF OpenStatus

LEMMA PauseMoves == IInv /\ TaskPauses => RowStep(row, row')
  <1> SUFFICES ASSUME IInv, TaskPauses PROVE RowStep(row, row')
    OBVIOUS
  <1>1. /\ current \in Tasks /\ mem \in WorkflowState /\ mem.tasks[current] = "running"
        /\ mem.tasks = row.tasks /\ mem.satisfied = row.satisfied
    BY DEF TaskPauses, Executing, IInv, TypeOK
  <1>2. /\ row' \in WorkflowState /\ row'.satisfied = mem.satisfied
        /\ \A u \in Tasks : row'.tasks[u] = IF u = current THEN "paused" ELSE mem.tasks[u]
    BY <1>1 DEF TaskPauses, Save, WorkflowState, TaskStatus, RunStatus
  <1> QED
    BY <1>1, <1>2, OneTaskMoves DEF OpenStatus

LEMMA UnpauseMoves == IInv /\ (ResumeTask \/ SettlePaused) => RowStep(row, row')
  <1> SUFFICES ASSUME IInv, ResumeTask \/ SettlePaused PROVE RowStep(row, row')
    OBVIOUS
  <1>1. PICK u \in PausedTasks, st \in {"ready", "completed", "failed"},
             rs \in {"running", "completed", "failed"} :
            row' = [row EXCEPT !.tasks[u] = st, !.status = rs]
    BY DEF ResumeTask, SettlePaused, RunTerminal
  <1>2. u \in Tasks /\ row.tasks[u] = "paused" /\ row \in WorkflowState
    BY DEF PausedTasks, IInv, TypeOK
  <1>3. /\ row' \in WorkflowState /\ row'.satisfied = row.satisfied
        /\ \A t \in Tasks : row'.tasks[t] = IF t = u THEN st ELSE row.tasks[t]
    BY <1>1, <1>2 DEF WorkflowState, TaskStatus, RunStatus
  <1> QED
    BY <1>2, <1>3, OneTaskMoves DEF OpenStatus

\* SaveRecovery, Checkpoint and Finalize
LEMMA OtherMoves == IInv /\ (SaveRecovery \/ Checkpoint \/ Finalize) => RowStep(row, row')
  <1> SUFFICES ASSUME IInv, SaveRecovery \/ Checkpoint \/ Finalize PROVE RowStep(row, row')
    OBVIOUS
  <1>1. mem \in WorkflowState /\ mem.satisfied = row.satisfied
    BY DEF IInv, TypeOK
  <1>2. CASE SaveRecovery
    <2>1. row' = mem /\ Interrupted(row, mem)
      BY <1>2 DEF SaveRecovery, IInv
    <2> QED
      BY <1>1, <2>1 DEF Interrupted, RowStep, TaskStep, OpenStatus
  <1>3. CASE Checkpoint \/ Finalize
    <2>1. row'.tasks = mem.tasks /\ row'.satisfied = mem.satisfied /\ mem.tasks = row.tasks
      BY <1>1, <1>3 DEF Checkpoint, Finalize, Executing, Save, WorkflowState, IInv
    <2> QED
      BY <1>1, <2>1 DEF RowStep, TaskStep
  <1> QED
    BY <1>2, <1>3

LEMMA GateCheckpointMoves == IInv /\ GateCheckpoint => RowStep(row, row')
  <1> SUFFICES ASSUME IInv, GateCheckpoint PROVE RowStep(row, row')
    OBVIOUS
  <1> DEFINE w == FoundInsufficient(mem)
  <1>1. /\ mem \in WorkflowState /\ pc = "executing" /\ current \in Tasks
        /\ mem.tasks = row.tasks /\ mem.satisfied = row.satisfied
        /\ row' = [w EXCEPT !.progress = @ \cup {current}]
    BY DEF IInv, TypeOK, GateCheckpoint, Executing, Save
  <1>2. /\ w \in WorkflowState /\ w.satisfied = mem.satisfied
        /\ \A t \in Tasks : \/ w.tasks[t] = mem.tasks[t]
                            \/ mem.tasks[t] \in Pending /\ w.tasks[t] = "skipped"
    BY <1>1, InsufficientFields
  <1> HIDE DEF w
  <1>3. row'.tasks = w.tasks /\ row'.satisfied = w.satisfied
    BY <1>1, <1>2, ProgressFields
  <1> QED
    BY <1>1, <1>2, <1>3 DEF RowStep, TaskStep

LEMMA NextMoves == IInv /\ Next => MovesOnly
  <1> SUFFICES ASSUME IInv, Next PROVE RowStep(row, row')
    BY RowStepMoves
  <1>1. CASE Claim \/ NothingReady \/ Crash
    BY <1>1, RowSame DEF Claim, NothingReady, Crash
  <1>2. CASE Schedule \/ Start
    BY <1>2, StartMoves, ScheduleMoves
  <1>3. CASE StartTask \/ AbandonTask \/ TaskPauses \/ ResumeTask \/ SettlePaused
    BY <1>3, StartTaskMoves, PauseMoves, UnpauseMoves
  <1>4. CASE SaveRecovery \/ Checkpoint \/ Finalize
    BY <1>4, OtherMoves
  <1>5. CASE \/ TaskCompletes \/ ReadinessAssessed \/ AnalysisCompletes \/ ReviewDecides
             \/ ReportRevised \/ Finalized \/ TaskFails
    BY <1>5, ExecutorMoves
  <1>6. CASE GateCheckpoint
    BY <1>6, GateCheckpointMoves
  <1> QED
    BY <1>1, <1>2, <1>3, <1>4, <1>5, <1>6 DEF Next, Engine

\* In every template, and whatever crashes, a task of the row opens only after
\* everything it depends on is done or excused, settles once, and is given up or
\* excused only as TaskGraph says: no step, not even the one that saves a recovery
\* together with a reconciliation of the review branch, moves a task otherwise.
THEOREM TasksMoveInOrder == Spec => [][MovesOnly]_vars
  BY NextMoves, IInvHolds, PTL DEF Spec
--------------------------------------------------------------------------------
(***************************************************************************)
(* What the records of a run vouch for: the second inductive invariant.    *)
(* It needs the shape of the templates.                                    *)
(***************************************************************************)
ReviewRoles == {"review", "review_1", "review_2"}
ExcusableRoles == {"revision", "review_2"}

\* A review that has ended has a verdict, and no other task.
VerdictsRecorded(m, s) ==
    \A t \in Tasks : s.verdict[t] # "none" <=>
                         s.tasks[t] = "completed" /\ m.role[t] \in ReviewRoles

\* Only the revision and the second review are excused, and only by an approval.
ExcusesEarned(m, s) ==
    \A u \in s.satisfied :
        /\ m.role[u] \in ExcusableRoles
        /\ \E t \in Tasks : m.role[t] = "review_1" /\ s.verdict[t] = "approve"

Rejected(m, s, t) == m.role[t] = "review_1" /\ s.verdict[t] = "reject"
TurnedDown(m, s, t) ==
    \/ Rejected(m, s, t)
    \/ m.role[t] = "review_2" /\ s.verdict[t] \in {"revise", "reject"}

\* A round that turned the report down has closed the finalization.
FinalizationClosed(m, s) ==
    \A t, f \in Tasks : TurnedDown(m, s, t) /\ m.role[f] = "finalization" =>
                            s.tasks[f] \in {"skipped", "failed"}

\* Nothing behind a gate opens before the gate is passed.
GatesPassed(m, s) ==
    \A gate \in GateRoles : \A t, g \in Tasks :
        m.role[t] \in Behind(gate) /\ s.tasks[t] \in Opened /\ m.role[g] = gate =>
            s.tasks[g] = "completed"

\* An insufficient outcome has closed everything that would be written from it.
NothingWritten(m, s) ==
    s.insufficient =>
        \A t \in Tasks : m.role[t] \in DownstreamRoles \ {"analysis"} =>
                             s.tasks[t] \in {"skipped", "failed"}

\* Why tasks are given up.
Cause(m, s) ==
    \/ s.insufficient
    \/ \E t \in Tasks : s.tasks[t] = "failed"
    \/ \E t \in Tasks : TurnedDown(m, s, t)
SkipsHaveCause(m, s) ==
    \A t \in Tasks : s.tasks[t] = "skipped" => t \in s.satisfied \/ Cause(m, s)

\* After a rejection in the first round nothing is revised or reviewed again.
RejectionStands(m, s) ==
    (\E t \in Tasks : Rejected(m, s, t)) =>
        \A u \in Tasks : /\ m.role[u] = "revision" => s.tasks[u] # "completed"
                         /\ m.role[u] = "review_2" => s.tasks[u] \notin Opened

Recorded(m, s) ==
    /\ VerdictsRecorded(m, s) /\ ExcusesEarned(m, s) /\ FinalizationClosed(m, s)
    /\ GatesPassed(m, s) /\ NothingWritten(m, s) /\ SkipsHaveCause(m, s)
    /\ RejectionStands(m, s)

\* What the status of the run says of its tasks.
FailureShown(m, s) ==
    s.status = "failed" =>
        /\ (\E t \in Tasks : s.tasks[t] = "failed") \/ \E t \in Tasks : TurnedDown(m, s, t)
        /\ \A u \in Tasks : \/ s.tasks[u] \in TaskTerminal
                            \/ /\ m.role[u] \in ExcusableRoles
                               /\ \E t \in Tasks : Rejected(m, s, t)
CompletionShown(m, s) ==
    s.status = "completed" =>
        /\ \A t \in Tasks : s.tasks[t] \in {"completed", "skipped"}
        /\ \A f \in Tasks : m.role[f] = "finalization" =>
                                s.tasks[f] = "completed" \/ s.insufficient

Reported(m, s) ==
    /\ (\E t \in Tasks : TurnedDown(m, s, t)) => s.status = "failed"
    /\ FailureShown(m, s) /\ CompletionShown(m, s)

Earned(m, s) == Recorded(m, s) /\ Reported(m, s)

\* Where the engine may stand while the run has a status.
Placed ==
    /\ pc \notin {"recovering", "starting"} => mem = row
    /\ pc \in {"recovering", "starting"} => row.status \in {"created", "running"}
    /\ pc \in {"scheduling", "dispatching", "executing"} => row.status \in {"running", "failed"}
    /\ pc = "finalizing" => row.status \in {"running", "failed", "paused"}

EarnedInv == Earned(template, row) /\ Earned(template, mem) /\ Placed
--------------------------------------------------------------------------------
(***************************************************************************)
(* What the shape of a template gives.                                     *)
(***************************************************************************)
\* If a set of tasks holds what `goal` depends on, and with a task what that one
\* depends on, up to the tasks of the roles `beside`, then it holds every task that
\* leads to `goal`.
LEMMA AllLead ==
    ASSUME NEW m \in Templates, NEW goal \in Tasks, NEW roles, LeadsTo(m, goal, roles), NEW C,
           \A v \in Tasks : m.role[v] \notin roles /\ (v = goal \/ v \in C) =>
               \A u \in m.deps[v] : m.role[u] \notin roles => u \in C
    PROVE  \A u \in Tasks : m.role[u] \notin roles /\ u # goal => u \in C
  <1> DEFINE Left == {u \in Tasks : m.role[u] \notin roles /\ u # goal /\ u \notin C}
             S == {Position[goal] - Position[u] : u \in Left}
  <1>1. \A u \in Left : Position[u] < Position[goal]
    BY DEF LeadsTo, Playing
  <1>2. S \in SUBSET Nat
    BY <1>1, PositionAssumption
  <1> SUFFICES ASSUME Left # {} PROVE FALSE
    OBVIOUS
  <1>3. S # {}
    OBVIOUS
  <1>4. PICK n \in S : \A k \in S : n <= k
    BY <1>2, <1>3, NatMin
  <1>5. PICK u \in Left : n = Position[goal] - Position[u]
    OBVIOUS
  <1>6. PICK v \in Tasks : m.role[v] \notin roles /\ u \in m.deps[v]
    BY DEF LeadsTo, Playing
  <1>7. Position[u] < Position[v]
    BY <1>6, TemplatesAssumption
  <1>8. v # goal /\ v \notin C
    BY <1>6
  <1>9. v \in Left /\ Position[goal] - Position[v] \in S
    BY <1>6, <1>8
  <1>10. /\ Position[goal] \in Nat /\ Position[u] \in Nat /\ Position[v] \in Nat
         /\ n <= Position[goal] - Position[v]
    BY <1>4, <1>5, <1>6, <1>9, PositionAssumption
  <1> QED
    BY <1>5, <1>7, <1>10

\* Two tasks cannot both come before the other.
LEMMA OnlyOne ==
    ASSUME NEW m \in Templates, NEW t \in Tasks, NEW u \in Tasks,
           NEW role \in {"review_1", "review_2", "finalization"},
           m.role[t] = role, m.role[u] = role
    PROVE  t = u
  <1> SUFFICES ASSUME t # u PROVE FALSE
    OBVIOUS
  <1>1. OneLine(m)
    BY ShapeAssumption
  <1>2. PICK roles : role \notin roles /\ LeadsTo(m, t, roles) /\ LeadsTo(m, u, roles)
    <2>1. CASE role = "review_1"
      BY <1>1, <2>1 DEF OneLine, Playing
    <2>2. CASE role = "review_2"
      BY <1>1, <2>2 DEF OneLine, Playing
    <2>3. CASE role = "finalization"
      BY <1>1, <2>3 DEF OneLine, Playing
    <2> QED
      BY <2>1, <2>2, <2>3
  <1>3. Position[t] < Position[u] /\ Position[u] < Position[t]
    BY <1>2 DEF LeadsTo, Playing
  <1> QED
    BY <1>3, PositionAssumption

\* When a task is open, everything that leads to it is completed, if what was
\* excused is beside.
LEMMA CompletedBefore ==
    ASSUME NEW m \in Templates, NEW s \in WorkflowState, Sound(m, s),
           NEW goal \in Tasks, s.tasks[goal] \in Opened,
           NEW roles, LeadsTo(m, goal, roles),
           \A u \in s.satisfied : m.role[u] \in roles
    PROVE  \A u \in Tasks : m.role[u] \notin roles /\ u # goal => s.tasks[u] = "completed"
  <1> DEFINE C == {u \in Tasks : s.tasks[u] = "completed"}
  <1>1. \A v \in Tasks : v = goal \/ v \in C =>
            \A u \in m.deps[v] : m.role[u] \notin roles => u \in C
    BY TemplatesAssumption DEF Sound, Opened, Done
  <1>2. \A u \in Tasks : m.role[u] \notin roles /\ u # goal => u \in C
    <2> HIDE DEF C
    <2> QED
      BY <1>1, AllLead
  <1> QED
    BY <1>2
--------------------------------------------------------------------------------
(***************************************************************************)
(* What a step keeps of the records.                                       *)
(***************************************************************************)
StepsFrom(s, w) == \A t \in Tasks : TaskStep(s, w, t)

\* Settled tasks stay as they are.
LEMMA SettledStay ==
    ASSUME NEW s, NEW w, StepsFrom(s, w), NEW t \in Tasks
    PROVE  /\ s.tasks[t] \in TaskTerminal => w.tasks[t] = s.tasks[t]
           /\ w.tasks[t] \in Opened =>
                 s.tasks[t] \in Opened \/ \A d \in DependsOn(t) : Done(s, d)
  BY DEF StepsFrom, TaskStep, TaskTerminal, Opened, OpenStatus, Pending

\* A task that is opened behind a gate finds the gate passed: the gate is among its
\* dependencies, or another task behind it is, which was opened before.
LEMMA GatesKept ==
    ASSUME template \in Templates, NEW s \in WorkflowState, NEW w \in WorkflowState,
           Recorded(template, s), StepsFrom(s, w)
    PROVE  GatesPassed(template, w)
  <1> SUFFICES ASSUME NEW gate \in GateRoles, NEW t \in Tasks, NEW g \in Tasks,
                      template.role[t] \in Behind(gate), w.tasks[t] \in Opened,
                      template.role[g] = gate
               PROVE  s.tasks[g] = "completed"
    BY SettledStay DEF GatesPassed, TaskTerminal
  <1> DEFINE After(u) == u \in Tasks /\ template.role[u] \in Behind(gate)
  <1>1. \A u : After(u) /\ s.tasks[u] \in Opened => s.tasks[g] = "completed"
    BY DEF Recorded, GatesPassed
  <1>2. CASE s.tasks[t] \in Opened
    BY <1>1, <1>2
  <1>3. CASE \A d \in template.deps[t] : Done(s, d)
    <2>1. \/ g \in template.deps[t]
          \/ \E d \in template.deps[t] : After(d)
      BY ShapeAssumption DEF GatesComeFirst, Playing
    <2>2. s.satisfied # {} => \E u : After(u) /\ s.tasks[u] = "completed"
      <3> SUFFICES ASSUME s.satisfied # {}
                   PROVE  \E u : After(u) /\ s.tasks[u] = "completed"
        OBVIOUS
      <3>1. PICK u \in Tasks : template.role[u] = "review_1" /\ s.verdict[u] = "approve"
        BY DEF Recorded, ExcusesEarned
      <3>2. s.tasks[u] = "completed"
        BY <3>1 DEF Recorded, VerdictsRecorded
      <3> QED
        BY <3>1, <3>2 DEF DownstreamRoles, GateRoles, Behind
    <2>3. CASE g \in template.deps[t]
      <3>1. g \notin s.satisfied
        BY DEF Recorded, ExcusesEarned, ExcusableRoles, GateRoles
      <3> QED
        BY <1>3, <2>3, <3>1 DEF Done
    <2>4. CASE \E d \in template.deps[t] : After(d)
      <3>1. PICK d \in template.deps[t] : After(d)
        BY <2>4
      <3>2. s.tasks[d] = "completed" \/ s.satisfied # {}
        BY <1>3 DEF Done
      <3>3. \E u : After(u) /\ s.tasks[u] = "completed"
        BY <2>2, <3>1, <3>2
      <3> QED
        BY <1>1, <3>3 DEF Opened
    <2> QED
      BY <2>1, <2>3, <2>4
  <1> QED
    BY <1>2, <1>3, SettledStay DEF DependsOn

\* A cause stays one.
LEMMA CauseKept ==
    ASSUME NEW s \in WorkflowState, NEW w \in WorkflowState, StepsFrom(s, w),
           Cause(template, s), s.insufficient => w.insufficient,
           \A t \in Tasks : s.verdict[t] # "none" => w.verdict[t] = s.verdict[t]
    PROVE  Cause(template, w)
  <1>1. \A t \in Tasks : TurnedDown(template, s, t) => TurnedDown(template, w, t)
    BY DEF TurnedDown, Rejected
  <1> QED
    BY <1>1, SettledStay DEF Cause, TaskTerminal

\* While a rejection stands the second review cannot open: the revision it depends
\* on is neither completed nor excused.
LEMMA NoSecondReview ==
    ASSUME template \in Templates, NEW s \in WorkflowState, Recorded(template, s),
           NEW t \in Tasks, template.role[t] = "review_1", s.verdict[t] # "approve",
           \A v \in Tasks : template.role[v] = "revision" => s.tasks[v] # "completed",
           NEW u \in Tasks, template.role[u] = "review_2"
    PROVE  ~(\A d \in template.deps[u] : Done(s, d))
  <1> SUFFICES ASSUME \A d \in template.deps[u] : Done(s, d) PROVE FALSE
    OBVIOUS
  <1>1. PICK d \in template.deps[u] : d \in Tasks /\ template.role[d] = "revision"
    BY ShapeAssumption DEF RoundsInOrder, Playing
  <1>2. d \in s.satisfied
    BY <1>1 DEF Done
  <1>3. PICK v \in Tasks : template.role[v] = "review_1" /\ s.verdict[v] = "approve"
    BY <1>2 DEF Recorded, ExcusesEarned
  <1> QED
    BY <1>3, OnlyOne

\* Every step that records no verdict, excuse or outcome.
LEMMA RecordedKept ==
    ASSUME template \in Templates, NEW s \in WorkflowState, NEW w \in WorkflowState,
           Recorded(template, s), StepsFrom(s, w),
           w.verdict = s.verdict, w.satisfied = s.satisfied, w.insufficient = s.insufficient,
           \A t \in Tasks : w.tasks[t] = "skipped" =>
               s.tasks[t] = "skipped" \/ Cause(template, s),
           \A t \in Tasks : w.tasks[t] = "completed" =>
               \/ s.tasks[t] = "completed"
               \/ /\ template.role[t] \notin ReviewRoles
                  /\ template.role[t] = "revision" =>
                        \A u \in Tasks : ~Rejected(template, s, u)
    PROVE  Recorded(template, w)
  <1>1. VerdictsRecorded(template, w)
    BY SettledStay DEF Recorded, VerdictsRecorded, TaskTerminal
  <1>2. ExcusesEarned(template, w)
    BY DEF Recorded, ExcusesEarned
  <1>3. \A t \in Tasks : /\ Rejected(template, w, t) <=> Rejected(template, s, t)
                         /\ TurnedDown(template, w, t) <=> TurnedDown(template, s, t)
    BY DEF Rejected, TurnedDown
  <1>4. FinalizationClosed(template, w)
    <2>1. FinalizationClosed(template, s)
      BY DEF Recorded
    <2> QED
      BY <1>3, <2>1, SettledStay DEF FinalizationClosed, TaskTerminal
  <1>5. GatesPassed(template, w)
    BY GatesKept
  <1>6. NothingWritten(template, w)
    BY SettledStay DEF Recorded, NothingWritten, TaskTerminal
  <1>7. SkipsHaveCause(template, w)
    <2>1. Cause(template, s) => Cause(template, w)
      BY CauseKept
    <2> QED
      BY <2>1 DEF Recorded, SkipsHaveCause
  <1>8. RejectionStands(template, w)
    <2> SUFFICES ASSUME NEW t \in Tasks, Rejected(template, s, t), NEW u \in Tasks
                 PROVE  /\ template.role[u] = "revision" => w.tasks[u] # "completed"
                        /\ template.role[u] = "review_2" => w.tasks[u] \notin Opened
      BY <1>3 DEF RejectionStands
    <2>1. \A v \in Tasks : /\ template.role[v] = "revision" => s.tasks[v] # "completed"
                           /\ template.role[v] = "review_2" => s.tasks[v] \notin Opened
      BY DEF Recorded, RejectionStands
    <2>2. template.role[u] = "review_2" => w.tasks[u] \notin Opened
      <3> SUFFICES ASSUME template.role[u] = "review_2" PROVE w.tasks[u] \notin Opened
        OBVIOUS
      <3>1. ~(\A d \in template.deps[u] : Done(s, d))
        BY <2>1, NoSecondReview DEF Rejected
      <3> QED
        BY <2>1, <3>1, SettledStay DEF DependsOn
    <2> QED
      BY <2>1, <2>2
  <1> QED
    BY <1>1, <1>2, <1>4, <1>5, <1>6, <1>7, <1>8 DEF Recorded

\* Every step that leaves the status of the run alone.
LEMMA ReportedKept ==
    ASSUME NEW s \in WorkflowState, NEW w \in WorkflowState,
           Reported(template, s), StepsFrom(s, w),
           w.verdict = s.verdict, w.status = s.status, s.status # "completed"
    PROVE  Reported(template, w)
  <1>1. \A t \in Tasks : /\ Rejected(template, w, t) <=> Rejected(template, s, t)
                         /\ TurnedDown(template, w, t) <=> TurnedDown(template, s, t)
    BY DEF Rejected, TurnedDown
  <1>2. \A t \in Tasks : s.tasks[t] \in TaskTerminal => w.tasks[t] = s.tasks[t]
    BY SettledStay
  <1>3. FailureShown(template, w)
    <2> SUFFICES ASSUME s.status = "failed" PROVE FailureShown(template, w)
      BY DEF FailureShown
    <2>1. /\ \/ \E t \in Tasks : s.tasks[t] = "failed"
             \/ \E t \in Tasks : TurnedDown(template, s, t)
          /\ \A u \in Tasks : \/ s.tasks[u] \in TaskTerminal
                              \/ /\ template.role[u] \in ExcusableRoles
                                 /\ \E t \in Tasks : Rejected(template, s, t)
      BY DEF Reported, FailureShown
    <2>2. \/ \E t \in Tasks : w.tasks[t] = "failed"
          \/ \E t \in Tasks : TurnedDown(template, w, t)
      BY <1>1, <1>2, <2>1 DEF TaskTerminal
    <2>3. \A u \in Tasks : \/ w.tasks[u] \in TaskTerminal
                           \/ /\ template.role[u] \in ExcusableRoles
                              /\ \E t \in Tasks : Rejected(template, w, t)
      BY <1>1, <1>2, <2>1
    <2> QED
      BY <2>2, <2>3 DEF FailureShown
  <1> QED
    BY <1>1, <1>3 DEF Reported, CompletionShown

\* A run that has not failed was not turned down: it may be started, paused and
\* resumed.
LEMMA ReportedOpen ==
    ASSUME NEW s, NEW w, Reported(template, s), s.status # "failed",
           w.verdict = s.verdict, w.status \in {"created", "running", "paused"}
    PROVE  Reported(template, w)
  BY DEF Reported, FailureShown, CompletionShown, TurnedDown, Rejected

LEMMA EarnedKept ==
    ASSUME template \in Templates, NEW s \in WorkflowState, NEW w \in WorkflowState,
           Earned(template, s), StepsFrom(s, w),
           w.verdict = s.verdict, w.satisfied = s.satisfied, w.insufficient = s.insufficient,
           \A t \in Tasks : w.tasks[t] = "skipped" =>
               s.tasks[t] = "skipped" \/ Cause(template, s),
           \A t \in Tasks : w.tasks[t] = "completed" =>
               \/ s.tasks[t] = "completed"
               \/ /\ template.role[t] \notin ReviewRoles
                  /\ template.role[t] = "revision" =>
                        \A u \in Tasks : ~Rejected(template, s, u),
           \/ w.status = s.status /\ s.status # "completed"
           \/ s.status # "failed" /\ w.status \in {"created", "running", "paused"}
    PROVE  Earned(template, w)
  BY RecordedKept, ReportedKept, ReportedOpen DEF Earned

\* The verdicts of a recovery are those of the row, because no interrupted task has
\* one.
LEMMA RecoveredEarned ==
    ASSUME template \in Templates, NEW s \in WorkflowState, Earned(template, s),
           s.status \in {"created", "running"}
    PROVE  Earned(template, Recovered(s))
  <1> DEFINE w == Recovered(s)
  <1>1. /\ w \in WorkflowState /\ w.status = s.status /\ w.satisfied = s.satisfied
        /\ w.insufficient = s.insufficient
        /\ \A t \in Tasks : w.verdict[t] =
               IF s.tasks[t] = "completed" THEN s.verdict[t] ELSE "none"
        /\ \A t \in Tasks : s.tasks[t] # "running" => w.tasks[t] = s.tasks[t]
        /\ \A t \in Tasks : s.tasks[t] = "running" => w.tasks[t] \in {"ready", "failed"}
    BY RecoveredFields
  <1> HIDE DEF w
  <1>2. w.verdict = s.verdict
    <2>1. \A t \in Tasks : w.verdict[t] = s.verdict[t]
      BY <1>1 DEF Earned, Recorded, VerdictsRecorded
    <2>2. /\ w.verdict \in [Tasks -> Verdict \cup {"none"}]
          /\ s.verdict \in [Tasks -> Verdict \cup {"none"}]
      BY <1>1 DEF WorkflowState
    <2> QED
      BY <2>1, <2>2
  <1>3. StepsFrom(s, w)
    BY <1>1 DEF StepsFrom, TaskStep, OpenStatus
  <1>4. Earned(template, w)
    BY <1>1, <1>2, <1>3, EarnedKept
  <1> QED
    BY <1>4 DEF w

\* A pass skips what is behind a lost task, and the first task it skips is behind
\* one that was lost before.
LEMMA DoomedHasCause ==
    ASSUME template \in Templates, NEW s \in WorkflowState, Recorded(template, s),
           NEW D \in SUBSET Tasks, Doomed(s, D), D # {}
    PROVE  Cause(template, s)
  <1> DEFINE S == {Position[t] : t \in D}
  <1>1. S \in SUBSET Nat /\ S # {}
    BY PositionAssumption
  <1>2. PICK n \in S : \A k \in S : n <= k
    BY <1>1, NatMin
  <1>3. PICK t \in D : n = Position[t]
    BY <1>2
  <1>4. PICK d \in template.deps[t] : Lost(s, d) \/ d \in D
    BY <1>3 DEF Doomed, DependsOn
  <1>5. d \in Tasks /\ Position[d] < Position[t]
    BY <1>3, <1>4, TemplatesAssumption
  <1>6. d \notin D
    <2> SUFFICES ASSUME d \in D PROVE FALSE
      OBVIOUS
    <2>1. Position[t] <= Position[d]
      BY <1>2, <1>3
    <2> QED
      BY <1>5, <2>1, PositionAssumption
  <1>7. Lost(s, d)
    BY <1>4, <1>6
  <1> QED
    BY <1>5, <1>7 DEF Lost, Recorded, SkipsHaveCause, Cause
--------------------------------------------------------------------------------
(***************************************************************************)
(* Every action keeps the records in order.                                *)
(***************************************************************************)
LEMMA InitEarned == Init => EarnedInv
  <1> SUFFICES ASSUME Init PROVE EarnedInv
    OBVIOUS
  <1>1. /\ row.status = "created" /\ row.satisfied = {} /\ row.insufficient = FALSE
        /\ \A t \in Tasks : row.tasks[t] = "created" /\ row.verdict[t] = "none"
    BY DEF Init
  <1>2. \A t \in Tasks : ~TurnedDown(template, row, t) /\ ~Rejected(template, row, t)
    BY <1>1 DEF TurnedDown, Rejected
  <1>3. Recorded(template, row)
    BY <1>1, <1>2 DEF Recorded, VerdictsRecorded, ExcusesEarned, FinalizationClosed,
       GatesPassed, NothingWritten, SkipsHaveCause, RejectionStands, Opened
  <1>4. Reported(template, row)
    BY <1>1, <1>2 DEF Reported, FailureShown, CompletionShown
  <1> QED
    BY <1>3, <1>4 DEF EarnedInv, Earned, Placed, Init

LEMMA SavedEarned ==
    ASSUME template' = template, mem' = row', Earned(template, row'),
           pc' \notin {"recovering", "starting"},
           pc' \in {"scheduling", "dispatching", "executing"} =>
               row'.status \in {"running", "failed"},
           pc' = "finalizing" => row'.status \in {"running", "failed", "paused"}
    PROVE  EarnedInv'
  BY DEF EarnedInv, Placed

LEMMA ForgottenEarned ==
    ASSUME template' = template, Forget, Earned(template, row')
    PROVE  EarnedInv'
  BY SavedEarned DEF Forget

LEMMA ClaimEarned == IInv /\ EarnedInv /\ (Claim \/ SaveRecovery) => EarnedInv'
  <1> SUFFICES ASSUME IInv, EarnedInv, Claim \/ SaveRecovery PROVE EarnedInv'
    OBVIOUS
  <1>1. template \in Templates /\ row \in WorkflowState
    BY DEF IInv, TypeOK
  <1>2. CASE Claim
    <2>1. /\ row.status \in {"created", "running"} /\ mem' = Recovered(row) /\ row' = row
          /\ template' = template /\ pc' \in {"recovering", "starting"}
      BY <1>2 DEF Claim
    <2>2. Earned(template, row) /\ Earned(template, mem')
      BY <1>1, <2>1, RecoveredEarned DEF EarnedInv
    <2> QED
      BY <2>1, <2>2 DEF EarnedInv, Placed
  <1>3. CASE SaveRecovery
    <2>1. mem.status \in {"created", "running"} /\ Earned(template, mem)
      BY <1>3 DEF SaveRecovery, IInv, EarnedInv
    <2> QED
      BY <1>3, <2>1 DEF SaveRecovery, EarnedInv, Placed
  <1> QED
    BY <1>2, <1>3

\* A run that was not turned down is reconciled already.
LEMMA ReconciledSame ==
    ASSUME template \in Templates, NEW s \in WorkflowState, Good(template, s),
           \A t \in Tasks : ~TurnedDown(template, s, t)
    PROVE  LET w == Reconciled(s)
           IN  /\ w \in WorkflowState /\ w.status = s.status /\ w.verdict = s.verdict
               /\ w.satisfied = s.satisfied /\ w.insufficient = s.insufficient
               /\ \A t \in Tasks : w.tasks[t] = s.tasks[t]
  <1>1. CASE Reconciled(s) = s
    BY <1>1
  <1>2. CASE Reconciled(s) # s
    <2>1. PICK t \in LastRound(s) :
              Reconciled(s) = Branched(s, template.role[t], s.verdict[t])
      BY <1>2 DEF Reconciled
    <2>2. /\ t \in Tasks /\ template.role[t] \in {"review_1", "review_2"}
          /\ s.verdict[t] # "none"
      BY DEF LastRound, DecidedIn, With
    <2>3. s.verdict[t] \in Verdict
      BY <2>2 DEF WorkflowState
    <2>4. template.role[t] = "review_1" /\ s.verdict[t] = "approve" /\ Reconciled(s) = Excuse(s)
      BY <1>2, <2>1, <2>2, <2>3 DEF Branched, TurnedDown, Rejected, Verdict
    <2>5. Excused \subseteq s.satisfied
      BY <2>2, <2>4 DEF Good, Vouched, Excused, With
    <2>6. \A u \in Excused : s.tasks[u] = "skipped"
      BY <2>5 DEF Good, Sound
    <2>7. s.satisfied \cup Excused = s.satisfied
      BY <2>5
    <2>8. /\ Excuse(s) \in WorkflowState /\ Excuse(s).status = s.status
          /\ Excuse(s).verdict = s.verdict /\ Excuse(s).insufficient = s.insufficient
          /\ Excuse(s).satisfied = s.satisfied \cup Excused
          /\ \A u \in Tasks : Excuse(s).tasks[u] =
                                 IF u \in Excused THEN "skipped" ELSE s.tasks[u]
      BY ExcuseFields
    <2> QED
      BY <2>4, <2>6, <2>7, <2>8
  <1> QED
    BY <1>1, <1>2

LEMMA StartEarned == IInv /\ EarnedInv /\ Start => EarnedInv'
  <1> SUFFICES ASSUME IInv, EarnedInv, Start PROVE EarnedInv'
    OBVIOUS
  <1> DEFINE s == [mem EXCEPT !.status = "running"]
             w == Reconciled(s)
  <1>1. /\ template \in Templates /\ mem \in WorkflowState /\ Good(template, mem)
        /\ mem.status \in {"created", "running"} /\ template' = template
        /\ Earned(template, mem)
    BY DEF IInv, EarnedInv, TypeOK, Start
  <1>2. /\ s \in WorkflowState /\ s.status = "running" /\ s.tasks = mem.tasks
        /\ s.satisfied = mem.satisfied /\ s.verdict = mem.verdict
        /\ s.insufficient = mem.insufficient
    BY <1>1, StatusFields DEF RunStatus
  <1>3. Start => IF Reconcilable(s) THEN mem' = w /\ Save /\ pc' = "scheduling" ELSE TRUE
    BY DEF Start
  <1> HIDE DEF s
  <1>4. Good(template, s)
    BY <1>1, <1>2 DEF Good, Sound, Vouched, Pauses, NonePaused, Done
  <1>5. mem' = w /\ row' = w /\ pc' = "scheduling"
    BY <1>1, <1>2, <1>3, <1>4, GoodReconcilable DEF Save
  <1>6. \A t \in Tasks : ~TurnedDown(template, mem, t)
    BY <1>1 DEF Earned, Reported
  <1>7. \A t \in Tasks : ~TurnedDown(template, s, t)
    BY <1>2, <1>6 DEF TurnedDown, Rejected
  <1>8. /\ w \in WorkflowState /\ w.status = "running" /\ w.verdict = mem.verdict
        /\ w.satisfied = mem.satisfied /\ w.insufficient = mem.insufficient
        /\ \A t \in Tasks : w.tasks[t] = mem.tasks[t]
    BY <1>1, <1>2, <1>4, <1>7, ReconciledSame
  <1> HIDE DEF w
  <1>9. StepsFrom(mem, w)
    BY <1>8 DEF StepsFrom, TaskStep
  <1>10. Earned(template, w)
    BY <1>1, <1>8, <1>9, EarnedKept
  <1> QED
    BY <1>1, <1>5, <1>8, <1>10, SavedEarned

LEMMA ScheduleEarned == IInv /\ EarnedInv /\ Schedule => EarnedInv'
  <1> SUFFICES ASSUME IInv, EarnedInv, Schedule PROVE EarnedInv'
    OBVIOUS
  <1>1. /\ template \in Templates /\ template' = template /\ mem = row /\ row \in WorkflowState
        /\ Earned(template, row) /\ row.status \in {"running", "failed"}
    BY DEF IInv, EarnedInv, TypeOK, Placed, Schedule
  <1>2. CASE ~Schedulable(mem)
    <2>1. Forget /\ row' = row
      BY <1>2 DEF Schedule
    <2> QED
      BY <1>1, <2>1, ForgottenEarned
  <1>3. CASE Schedulable(mem)
    <2>1. PICK D \in SUBSET Tasks :
              /\ Doomed(row, D)
              /\ mem' = [row EXCEPT !.tasks = [t \in Tasks |-> Planned(row, t, D)]]
      BY <1>1, <1>3 DEF Schedule
    <2>2. /\ mem' \in WorkflowState /\ mem'.status = row.status /\ mem'.verdict = row.verdict
          /\ mem'.satisfied = row.satisfied /\ mem'.insufficient = row.insufficient
          /\ \A t \in Tasks : mem'.tasks[t] = Planned(row, t, D)
      BY <1>1, <2>1, PlannedType
    <2>3. row' = mem' /\ pc' = "dispatching"
      <3>1. row' = (IF mem'.tasks # row.tasks THEN mem' ELSE row) /\ pc' = "dispatching"
        BY <1>1, <1>3 DEF Schedule
      <3>2. mem'.tasks = row.tasks => mem' = row
        BY <1>1, <2>1 DEF WorkflowState
      <3> QED
        BY <3>1, <3>2
    <2>4. StepsFrom(row, row')
      BY ScheduleMoves DEF RowStep, StepsFrom
    <2>5. \A t \in Tasks : \/ row'.tasks[t] = row.tasks[t]
                           \/ row'.tasks[t] \in {"ready", "waiting"}
                           \/ row'.tasks[t] = "skipped" /\ t \in D
      BY <2>2, <2>3 DEF Planned
    <2>6. D # {} => Cause(template, row)
      BY <1>1, <2>1, DoomedHasCause DEF Earned
    <2>7. Earned(template, row')
      BY <1>1, <2>2, <2>3, <2>4, <2>5, <2>6, EarnedKept
    <2> QED
      BY <1>1, <2>2, <2>3, <2>7, SavedEarned
  <1> QED
    BY <1>2, <1>3

LEMMA StartTaskEarned == IInv /\ EarnedInv /\ (StartTask \/ AbandonTask) => EarnedInv'
  <1> SUFFICES ASSUME IInv, EarnedInv, StartTask \/ AbandonTask PROVE EarnedInv'
    OBVIOUS
  <1> DEFINE u == NextReady(mem)
  <1>1. /\ template \in Templates /\ template' = template /\ mem = row /\ row \in WorkflowState
        /\ Earned(template, row) /\ row.status \in {"running", "failed"}
        /\ ReadyTasks(mem) # {} /\ mem' = StartedMem(u) /\ row' = mem'
        /\ pc' \in {"executing", "scheduling"}
    BY DEF IInv, EarnedInv, TypeOK, Placed, StartTask, AbandonTask, Save
  <1>2. u \in Tasks
    BY <1>1, NextReadyIsReady DEF ReadyTasks
  <1> HIDE DEF u
  <1>3. "running" \in TaskStatus
    BY DEF TaskStatus
  <1>4. /\ row' \in WorkflowState /\ row'.status = row.status /\ row'.verdict = row.verdict
        /\ row'.satisfied = row.satisfied /\ row'.insufficient = row.insufficient
        /\ \A t \in Tasks : row'.tasks[t] = IF t = u THEN "running" ELSE row.tasks[t]
    BY <1>1, <1>2, <1>3, TaskFields DEF StartedMem
  <1>5. StepsFrom(row, row')
    BY StartTaskMoves DEF RowStep, StepsFrom
  <1>6. Earned(template, row')
    BY <1>1, <1>4, <1>5, EarnedKept
  <1> QED
    BY <1>1, <1>4, <1>6, SavedEarned

LEMMA NothingReadyEarned == IInv /\ EarnedInv /\ NothingReady => EarnedInv'
  BY DEF NothingReady, EarnedInv, Placed

LEMMA CrashEarned == IInv /\ EarnedInv /\ Crash => EarnedInv'
  BY ForgottenEarned DEF Crash, EarnedInv

LEMMA CheckpointEarned == IInv /\ EarnedInv /\ Checkpoint => EarnedInv'
  <1> SUFFICES ASSUME IInv, EarnedInv, Checkpoint PROVE EarnedInv'
    OBVIOUS
  <1>1. /\ template \in Templates /\ template' = template /\ mem = row /\ row \in WorkflowState
        /\ Earned(template, row) /\ row.status \in {"running", "failed"} /\ current \in Tasks
        /\ mem' = [row EXCEPT !.progress = @ \cup {current}] /\ row' = mem' /\ pc' = "executing"
    BY DEF IInv, EarnedInv, TypeOK, Placed, Checkpoint, Executing, Save
  <1>2. /\ row' \in WorkflowState /\ row'.status = row.status /\ row'.verdict = row.verdict
        /\ row'.satisfied = row.satisfied /\ row'.insufficient = row.insufficient
        /\ row'.tasks = row.tasks
    BY <1>1 DEF WorkflowState
  <1>3. StepsFrom(row, row')
    BY <1>2 DEF StepsFrom, TaskStep
  <1>4. Earned(template, row')
    BY <1>1, <1>2, <1>3, EarnedKept
  <1> QED
    BY <1>1, <1>2, <1>4, SavedEarned

\* The end of an executor's work that records no verdict.
LEMMA FinishedEarned ==
    ASSUME IInv, EarnedInv, pc = "executing", NEW s \in WorkflowState, Earned(template, s),
           s.tasks[current] = "running", s.status \in {"running", "failed"},
           NEW st \in {"completed", "failed"}, Finished(s, st),
           st = "completed" =>
               /\ template.role[current] \notin ReviewRoles
               /\ template.role[current] = "revision" =>
                     \A u \in Tasks : ~Rejected(template, s, u)
    PROVE  EarnedInv'
  <1>1. template \in Templates /\ current \in Tasks /\ st \in TaskStatus
    BY DEF IInv, TypeOK, TaskStatus
  <1>2. /\ template' = template /\ mem' = [s EXCEPT !.tasks[current] = st] /\ row' = mem'
        /\ pc' = "scheduling"
    BY DEF Finished, Save
  <1>3. /\ row' \in WorkflowState /\ row'.status = s.status /\ row'.verdict = s.verdict
        /\ row'.satisfied = s.satisfied /\ row'.insufficient = s.insufficient
        /\ \A u \in Tasks : row'.tasks[u] = IF u = current THEN st ELSE s.tasks[u]
    BY <1>1, <1>2, TaskFields
  <1>4. StepsFrom(s, row')
    BY <1>3 DEF StepsFrom, TaskStep, OpenStatus
  <1>5. Earned(template, row')
    BY <1>1, <1>3, <1>4, EarnedKept
  <1> QED
    BY <1>2, <1>3, <1>5, SavedEarned

\* What an executor may rely on, about the row it will save.
LEMMA AtWork ==
    ASSUME IInv, EarnedInv, NEW roles, Executing(roles)
    PROVE  /\ pc = "executing" /\ template \in Templates /\ current \in Tasks
           /\ mem = row /\ mem \in WorkflowState /\ Good(template, mem)
           /\ Earned(template, mem) /\ mem.status \in {"running", "failed"}
           /\ mem.tasks[current] = "running" /\ template.role[current] \in roles
  BY AtExecution DEF EarnedInv, Placed

\* TaskCompletes, ReportRevised, Finalized and TaskFails
LEMMA PlainFinishEarned ==
    IInv /\ EarnedInv /\ (TaskCompletes \/ ReportRevised \/ Finalized \/ TaskFails)
        => EarnedInv'
  <1> SUFFICES ASSUME IInv, EarnedInv,
                      TaskCompletes \/ ReportRevised \/ Finalized \/ TaskFails
               PROVE  EarnedInv'
    OBVIOUS
  <1>1. CASE TaskCompletes
    <2>1. /\ Executing({"search", "stage", "report", "boundary"})
          /\ Finished(mem, "completed")
      BY <1>1 DEF TaskCompletes
    <2> QED
      BY <2>1, AtWork, FinishedEarned DEF ReviewRoles
  <1>2. CASE ReportRevised
    <2>1. /\ Executing({"revision"}) /\ Finished(mem, "completed")
          /\ \E t \in With({"review_1"}) : mem.verdict[t] = "revise"
      BY <1>2 DEF ReportRevised
    <2>2. template \in Templates
      BY DEF IInv, TypeOK
    <2>3. PICK t \in Tasks : template.role[t] = "review_1" /\ mem.verdict[t] = "revise"
      BY <2>1 DEF With
    <2>4. \A u \in Tasks : ~Rejected(template, mem, u)
      BY <2>2, <2>3, OnlyOne DEF Rejected
    <2> QED
      BY <2>1, <2>4, AtWork, FinishedEarned DEF ReviewRoles
  <1>3. CASE Finalized
    <2>1. Executing({"finalization"}) /\ Finished(mem, "completed")
      BY <1>3 DEF Finalized
    <2> QED
      BY <2>1, AtWork, FinishedEarned DEF ReviewRoles
  <1>4. CASE TaskFails
    <2>1. Executing(Roles) /\ Finished(mem, "failed")
      BY <1>4 DEF TaskFails
    <2> QED
      BY <2>1, AtWork, FinishedEarned
  <1> QED
    BY <1>1, <1>2, <1>3, <1>4

\* While a gate is running nothing downstream of it is open, so that the outcome
\* closes all that is written.
LEMMA InsufficientEarned ==
    ASSUME template \in Templates, NEW s \in WorkflowState, Earned(template, s),
           NEW g \in Tasks, s.tasks[g] = "running",
           template.role[g] \in GateRoles, s.status # "completed"
    PROVE  LET w == FoundInsufficient(s)
           IN  /\ w \in WorkflowState /\ Earned(template, w)
               /\ w.tasks[g] = "running" /\ w.status = s.status
  <1> DEFINE T == PendingIn(s, With(DownstreamRoles))
             v == Skipped(s, T)
             w == [v EXCEPT !.insufficient = TRUE]
  <1>1. \A t \in Tasks : t \in T <=> s.tasks[t] \in Pending
                                       /\ template.role[t] \in DownstreamRoles
    BY DEF PendingIn, With
  <1> HIDE DEF T
  <1>2. /\ v \in WorkflowState /\ v.status = s.status /\ v.verdict = s.verdict
        /\ v.satisfied = s.satisfied /\ v.insufficient = s.insufficient
        /\ \A t \in Tasks : v.tasks[t] = IF t \in T THEN "skipped" ELSE s.tasks[t]
    BY SkippedFields
  <1> HIDE DEF v
  <1>3. /\ w \in WorkflowState /\ w.status = v.status /\ w.verdict = v.verdict
        /\ w.satisfied = v.satisfied /\ w.insufficient = TRUE /\ w.tasks = v.tasks
    BY <1>2 DEF WorkflowState
  <1> HIDE DEF w
  <1>4. /\ w.status = s.status /\ w.verdict = s.verdict /\ w.satisfied = s.satisfied
        /\ \A t \in Tasks : w.tasks[t] = IF t \in T THEN "skipped" ELSE s.tasks[t]
    BY <1>2, <1>3
  <1>5. StepsFrom(s, w)
    BY <1>1, <1>4 DEF StepsFrom, TaskStep
  <1>6. \A t \in Tasks : /\ Rejected(template, w, t) <=> Rejected(template, s, t)
                         /\ TurnedDown(template, w, t) <=> TurnedDown(template, s, t)
    BY <1>4 DEF Rejected, TurnedDown
  <1>7. VerdictsRecorded(template, w)
    BY <1>1, <1>4 DEF Earned, Recorded, VerdictsRecorded, Pending
  <1>8. ExcusesEarned(template, w)
    BY <1>4 DEF Earned, Recorded, ExcusesEarned
  <1>9. FinalizationClosed(template, w)
    <2>1. FinalizationClosed(template, s)
      BY DEF Earned, Recorded
    <2> QED
      BY <1>5, <1>6, <2>1, SettledStay DEF FinalizationClosed, TaskTerminal
  <1>10. GatesPassed(template, w)
    BY <1>3, <1>5, GatesKept DEF Earned
  <1>11. NothingWritten(template, w)
    <2> SUFFICES ASSUME NEW t \in Tasks, template.role[t] \in DownstreamRoles \ {"analysis"}
                 PROVE  w.tasks[t] \in {"skipped", "failed"}
      BY DEF NothingWritten
    <2>1. template.role[t] \in Behind(template.role[g])
      BY DEF DownstreamRoles, GateRoles, Behind
    <2>2. s.tasks[t] \notin Opened
      BY <2>1 DEF Earned, Recorded, GatesPassed
    <2>3. s.tasks[t] \in TaskStatus
      BY DEF WorkflowState
    <2> QED
      BY <1>1, <1>4, <2>2, <2>3 DEF TaskStatus, Opened, Pending
  <1>12. SkipsHaveCause(template, w)
    BY <1>3 DEF SkipsHaveCause, Cause
  <1>13. RejectionStands(template, w)
    BY <1>4, <1>6 DEF Earned, Recorded, RejectionStands, Opened
  <1>14. Recorded(template, w)
    BY <1>7, <1>8, <1>9, <1>10, <1>11, <1>12, <1>13 DEF Recorded
  <1>15. Reported(template, w)
    BY <1>3, <1>4, <1>5, ReportedKept DEF Earned
  <1>16. w.tasks[g] = "running"
    BY <1>1, <1>4 DEF Pending
  <1> QED
    BY <1>3, <1>4, <1>14, <1>15, <1>16 DEF Earned, w, v, T, FoundInsufficient

LEMMA GateCheckpointEarned == IInv /\ EarnedInv /\ GateCheckpoint => EarnedInv'
  <1> SUFFICES ASSUME IInv, EarnedInv, GateCheckpoint PROVE EarnedInv'
    OBVIOUS
  <1> DEFINE w == FoundInsufficient(mem)
  <1>1. Executing({"acquisition"})
    BY DEF GateCheckpoint
  <1>2. /\ pc = "executing" /\ template \in Templates /\ current \in Tasks
        /\ mem \in WorkflowState /\ Earned(template, mem)
        /\ mem.status \in {"running", "failed"} /\ mem.tasks[current] = "running"
        /\ template.role[current] = "acquisition"
    BY <1>1, AtWork
  <1>3. template.role[current] \in GateRoles /\ mem.status # "completed"
    BY <1>2 DEF GateRoles
  <1>4. /\ w \in WorkflowState /\ Earned(template, w)
        /\ w.tasks[current] = "running" /\ w.status = mem.status
    BY <1>2, <1>3, InsufficientEarned
  <1>5. /\ row' = [w EXCEPT !.progress = @ \cup {current}] /\ mem' = row'
        /\ template' = template /\ pc' = "executing"
    BY <1>2 DEF GateCheckpoint, Save
  <1> HIDE DEF w
  <1>6. /\ row' \in WorkflowState /\ row'.status = w.status /\ row'.tasks = w.tasks
        /\ row'.satisfied = w.satisfied /\ row'.verdict = w.verdict
        /\ row'.insufficient = w.insufficient
    BY <1>2, <1>4, <1>5, ProgressFields
  <1>7. StepsFrom(w, row')
    BY <1>6 DEF StepsFrom, TaskStep
  <1>8. Earned(template, row')
    BY <1>2, <1>4, <1>6, <1>7, EarnedKept
  <1> QED
    BY <1>2, <1>4, <1>5, <1>6, <1>8, SavedEarned

LEMMA AssessedEarned ==
    IInv /\ EarnedInv /\ (ReadinessAssessed \/ AnalysisCompletes) => EarnedInv'
  <1> SUFFICES ASSUME IInv, EarnedInv, ReadinessAssessed \/ AnalysisCompletes
               PROVE  EarnedInv'
    OBVIOUS
  <1> DEFINE w == FoundInsufficient(mem)
  <1>1. Executing({"readiness", "acquisition"}) \/ Executing({"analysis"})
    BY DEF ReadinessAssessed, AnalysisCompletes
  <1>2. /\ pc = "executing" /\ template \in Templates /\ current \in Tasks
        /\ mem \in WorkflowState /\ Earned(template, mem)
        /\ mem.status \in {"running", "failed"} /\ mem.tasks[current] = "running"
        /\ template.role[current] \in GateRoles
    BY <1>1, AtWork DEF GateRoles
  <1>3. /\ w \in WorkflowState /\ Earned(template, w)
        /\ w.tasks[current] = "running" /\ w.status = mem.status
    BY <1>2, InsufficientEarned
  <1>4. Finished(mem, "completed") \/ Finished(w, "completed")
    BY DEF ReadinessAssessed, AnalysisCompletes
  <1> HIDE DEF w
  <1> QED
    BY <1>2, <1>3, <1>4, FinishedEarned DEF ReviewRoles, GateRoles

\* What a review makes of the run.
ReviewedAs(s, w, t, v) ==
    LET round == template.role[t]
        down == \/ round = "review_1" /\ v = "reject"
                \/ round = "review_2" /\ v \in {"revise", "reject"}
    IN  /\ w \in WorkflowState /\ w.insufficient = s.insufficient
        /\ \A u \in Tasks : w.verdict[u] = IF u = t THEN v ELSE s.verdict[u]
        /\ w.tasks[t] = "completed"
        /\ \A u \in Tasks \ {t} :
              \/ w.tasks[u] = s.tasks[u]
              \/ /\ s.tasks[u] \in Pending \cup {"skipped"} /\ w.tasks[u] = "skipped"
                 /\ down \/ u \in w.satisfied
        /\ down => \A f \in Tasks : template.role[f] = "finalization" /\ s.tasks[f] \in Pending =>
                                        w.tasks[f] = "skipped"
        /\ w.satisfied = IF round = "review_1" /\ v = "approve"
                         THEN s.satisfied \cup Excused ELSE s.satisfied
        /\ w.status = IF down /\ s.status = "running" THEN "failed" ELSE s.status

LEMMA ReviewForm ==
    ASSUME template \in Templates, NEW s \in WorkflowState, NEW t \in Tasks, NEW v \in Verdict,
           s.tasks[t] = "running", template.role[t] \in ReviewRoles,
           BranchApplies(s, template.role[t], v)
    PROVE  ReviewedAs(s, [Branched([s EXCEPT !.verdict[t] = v], template.role[t], v)
                             EXCEPT !.tasks[t] = "completed"], t, v)
  <1> DEFINE round == template.role[t]
             x == [s EXCEPT !.verdict[t] = v]
             b == Branched(x, round, v)
             w == [b EXCEPT !.tasks[t] = "completed"]
             down == \/ round = "review_1" /\ v = "reject"
                     \/ round = "review_2" /\ v \in {"revise", "reject"}
             approved == round = "review_1" /\ v = "approve"
  <1>1. /\ x \in WorkflowState /\ x.status = s.status /\ x.insufficient = s.insufficient
        /\ x.satisfied = s.satisfied /\ x.tasks = s.tasks
        /\ \A u \in Tasks : x.verdict[u] = IF u = t THEN v ELSE s.verdict[u]
    BY VerdictFields
  <1>2. \/ approved /\ b = Excuse(x) /\ Excusable(s)
        \/ down /\ b = FailRun(Skipped(x, Blocked(x)))
        \/ ~approved /\ ~down /\ b = x
    BY DEF Branched, BranchApplies, ReviewRoles, Verdict
  <1> HIDE DEF x
  <1>3. /\ b \in WorkflowState /\ b.verdict = x.verdict /\ b.insufficient = x.insufficient
        /\ b.tasks[t] = "running"
        /\ \A u \in Tasks :
              \/ b.tasks[u] = s.tasks[u]
              \/ /\ s.tasks[u] \in Pending \cup {"skipped"} /\ b.tasks[u] = "skipped"
                 /\ down \/ u \in b.satisfied
        /\ down => \A f \in Tasks : template.role[f] = "finalization" /\ s.tasks[f] \in Pending =>
                                        b.tasks[f] = "skipped"
        /\ b.satisfied = IF approved THEN s.satisfied \cup Excused ELSE s.satisfied
        /\ b.status = IF down /\ s.status = "running" THEN "failed" ELSE s.status
    <2>1. ~(approved /\ down)
      OBVIOUS
    <2>2. CASE approved /\ b = Excuse(x) /\ Excusable(s)
      <3>1. /\ Excuse(x) \in WorkflowState /\ Excuse(x).status = x.status
            /\ Excuse(x).verdict = x.verdict /\ Excuse(x).insufficient = x.insufficient
            /\ Excuse(x).satisfied = x.satisfied \cup Excused
            /\ \A u \in Tasks : Excuse(x).tasks[u] =
                                   IF u \in Excused THEN "skipped" ELSE x.tasks[u]
        BY <1>1, ExcuseFields
      <3>2. \A u \in Excused : s.tasks[u] \in Pending \cup {"skipped"}
        BY <2>2 DEF Excusable
      <3>3. ~down
        BY <2>1, <2>2
      <3> HIDE DEF b, approved, down
      <3> QED
        BY <1>1, <2>2, <3>1, <3>2, <3>3 DEF Pending
    <2>3. CASE down /\ b = FailRun(Skipped(x, Blocked(x)))
      <3> DEFINE k == Skipped(x, Blocked(x))
      <3>1. /\ k \in WorkflowState /\ k.status = x.status /\ k.satisfied = x.satisfied
            /\ k.verdict = x.verdict /\ k.insufficient = x.insufficient
            /\ \A u \in Tasks : k.tasks[u] = IF u \in Blocked(x) THEN "skipped" ELSE x.tasks[u]
        BY <1>1, SkippedFields
      <3> HIDE DEF k
      <3>2. /\ FailRun(k) \in WorkflowState
            /\ FailRun(k).status = (IF k.status = "running" THEN "failed" ELSE k.status)
            /\ FailRun(k).satisfied = k.satisfied /\ FailRun(k).verdict = k.verdict
            /\ FailRun(k).insufficient = k.insufficient /\ FailRun(k).tasks = k.tasks
        BY <3>1, FailRunFields
      <3>3. \A u \in Tasks : u \in Blocked(x) <=> s.tasks[u] \in Pending
                                                   /\ template.role[u] = "finalization"
        BY <1>1 DEF Blocked, PendingIn, With
      <3>4. b = FailRun(k) /\ down /\ ~approved
        BY <2>1, <2>3 DEF k
      <3> HIDE DEF b, approved, down
      <3> QED
        BY <1>1, <3>1, <3>2, <3>3, <3>4 DEF Pending
    <2>4. CASE ~approved /\ ~down /\ b = x
      <3> HIDE DEF b, approved, down
      <3> QED
        BY <1>1, <2>4
    <2> QED
      BY <1>2, <2>2, <2>3, <2>4
  <1> HIDE DEF b
  <1>4. /\ w \in WorkflowState /\ w.status = b.status /\ w.insufficient = b.insufficient
        /\ w.satisfied = b.satisfied /\ w.verdict = b.verdict
        /\ \A u \in Tasks : w.tasks[u] = IF u = t THEN "completed" ELSE b.tasks[u]
    <2>1. "completed" \in TaskStatus
      BY DEF TaskStatus
    <2> QED
      BY <1>3, <2>1, TaskFields
  <1> HIDE DEF w, round, down, approved
  <1>5. /\ w \in WorkflowState /\ w.insufficient = s.insufficient
        /\ \A u \in Tasks : w.verdict[u] = IF u = t THEN v ELSE s.verdict[u]
        /\ w.tasks[t] = "completed"
        /\ \A u \in Tasks \ {t} :
              \/ w.tasks[u] = s.tasks[u]
              \/ /\ s.tasks[u] \in Pending \cup {"skipped"} /\ w.tasks[u] = "skipped"
                 /\ down \/ u \in w.satisfied
        /\ w.satisfied = IF approved THEN s.satisfied \cup Excused ELSE s.satisfied
        /\ w.status = IF down /\ s.status = "running" THEN "failed" ELSE s.status
    BY <1>1, <1>3, <1>4
  <1>6. down => \A f \in Tasks : template.role[f] = "finalization" /\ s.tasks[f] \in Pending =>
                                     w.tasks[f] = "skipped"
    <2>1. s.tasks[t] \notin Pending
      BY DEF Pending
    <2> QED
      BY <1>3, <1>4, <2>1
  <1> QED
    BY <1>5, <1>6 DEF ReviewedAs, w, b, x, round, down, approved

\* While a review runs, nothing it leads to is open, and the revision that follows
\* it is not done.
LEMMA BeforeReview ==
    ASSUME template \in Templates, NEW s \in WorkflowState, Good(template, s),
           Recorded(template, s), NEW t \in Tasks, s.tasks[t] = "running",
           template.role[t] \in {"review_1", "review_2"}
    PROVE  /\ \A f \in Tasks : template.role[f] = "finalization" => s.tasks[f] \notin Opened
           /\ template.role[t] = "review_1" =>
                 \A u \in Tasks : /\ template.role[u] = "revision" => s.tasks[u] \notin Opened
                                  /\ template.role[u] = "review_2" => s.tasks[u] \notin Opened
  <1>1. ~Done(s, t) /\ s.verdict[t] = "none"
    BY DEF Done, Recorded, VerdictsRecorded
  <1>2. \A u \in Tasks : s.tasks[u] \in Opened => \A d \in template.deps[u] : Done(s, d)
    BY DEF Good, Sound, Opened
  <1>3. ASSUME NEW f \in Tasks, template.role[f] = "finalization"
        PROVE  s.tasks[f] \notin Opened
    <2>1. t \in template.deps[f]
      BY <1>3, ShapeAssumption DEF RoundsInOrder, Playing
    <2> QED
      BY <1>1, <1>2, <2>1
  <1>4. ASSUME NEW u \in Tasks, template.role[u] = "revision", template.role[t] = "review_1"
        PROVE  s.tasks[u] \notin Opened
    <2>1. t \in template.deps[u]
      BY <1>4, ShapeAssumption DEF RoundsInOrder, Playing
    <2> QED
      BY <1>1, <1>2, <2>1
  <1>5. ASSUME NEW u \in Tasks, template.role[u] = "review_2", template.role[t] = "review_1"
        PROVE  s.tasks[u] \notin Opened
    <2>1. \A v \in Tasks : template.role[v] = "revision" => s.tasks[v] # "completed"
      BY <1>4, <1>5 DEF Opened
    <2>2. ~(\A d \in template.deps[u] : Done(s, d))
      BY <1>1, <1>5, <2>1, NoSecondReview
    <2> QED
      BY <1>2, <2>2
  <1> QED
    BY <1>3, <1>4, <1>5

LEMMA ReviewStepsFrom ==
    ASSUME NEW s \in WorkflowState, NEW w, NEW t \in Tasks, NEW v, s.tasks[t] = "running",
           ReviewedAs(s, w, t, v)
    PROVE  StepsFrom(s, w)
  BY DEF ReviewedAs, StepsFrom, TaskStep, OpenStatus

LEMMA ReviewRecorded ==
    ASSUME template \in Templates, NEW s \in WorkflowState, Good(template, s),
           Recorded(template, s), NEW t \in Tasks, s.tasks[t] = "running",
           template.role[t] \in ReviewRoles, NEW v \in Verdict,
           NEW w \in WorkflowState, ReviewedAs(s, w, t, v)
    PROVE  Recorded(template, w)
  <1>1. /\ s.verdict[t] = "none" /\ v # "none"
        /\ \A u \in Tasks : w.verdict[u] = IF u = t THEN v ELSE s.verdict[u]
        /\ w.insufficient = s.insufficient /\ w.tasks[t] = "completed"
        /\ \A u \in Tasks \ {t} : w.tasks[u] = s.tasks[u] \/ w.tasks[u] = "skipped"
        /\ \A u \in Tasks \ {t} : w.tasks[u] = "completed" => s.tasks[u] = "completed"
        /\ s.satisfied \subseteq w.satisfied
    BY DEF ReviewedAs, Recorded, VerdictsRecorded, Verdict
  <1>2. StepsFrom(s, w)
    BY ReviewStepsFrom
  <1>3. \A u \in Tasks : s.verdict[u] # "none" => w.verdict[u] = s.verdict[u]
    BY <1>1
  <1>4. VerdictsRecorded(template, w)
    <2> SUFFICES ASSUME NEW u \in Tasks
                 PROVE  w.verdict[u] # "none" <=>
                            w.tasks[u] = "completed" /\ template.role[u] \in ReviewRoles
      BY DEF VerdictsRecorded
    <2>1. CASE u = t
      BY <1>1, <2>1
    <2>2. CASE u # t
      <3>1. s.tasks[u] = "completed" => w.tasks[u] = "completed"
        BY <1>2, SettledStay DEF TaskTerminal
      <3> QED
        BY <1>1, <2>2, <3>1 DEF Recorded, VerdictsRecorded
    <2> QED
      BY <2>1, <2>2
  <1>5. ExcusesEarned(template, w)
    <2> SUFFICES ASSUME NEW u \in w.satisfied
                 PROVE  /\ template.role[u] \in ExcusableRoles
                        /\ \E x \in Tasks : template.role[x] = "review_1" /\ w.verdict[x] = "approve"
      BY DEF ExcusesEarned
    <2>1. CASE u \in s.satisfied
      BY <1>3, <2>1 DEF Recorded, ExcusesEarned
    <2>2. CASE u \notin s.satisfied
      <3>1. template.role[t] = "review_1" /\ v = "approve" /\ u \in Excused
        BY <2>2 DEF ReviewedAs
      <3> QED
        BY <1>1, <3>1 DEF Excused, With, ExcusableRoles
    <2> QED
      BY <2>1, <2>2
  <1>6. FinalizationClosed(template, w)
    <2> SUFFICES ASSUME NEW x \in Tasks, NEW f \in Tasks, TurnedDown(template, w, x),
                        template.role[f] = "finalization"
                 PROVE  w.tasks[f] \in {"skipped", "failed"}
      BY DEF FinalizationClosed
    <2>1. CASE x # t
      <3>1. TurnedDown(template, s, x)
        BY <1>1, <2>1 DEF TurnedDown, Rejected
      <3>2. s.tasks[f] \in {"skipped", "failed"}
        BY <3>1 DEF Recorded, FinalizationClosed
      <3> QED
        BY <1>2, <3>2, SettledStay DEF TaskTerminal
    <2>2. CASE x = t
      <3>1. /\ template.role[t] \in {"review_1", "review_2"}
            /\ \/ template.role[t] = "review_1" /\ v = "reject"
               \/ template.role[t] = "review_2" /\ v \in {"revise", "reject"}
        BY <1>1, <2>2 DEF TurnedDown, Rejected
      <3>2. s.tasks[f] \notin Opened /\ s.tasks[f] \in TaskStatus
        BY <3>1, BeforeReview DEF WorkflowState
      <3>3. s.tasks[f] \in Pending => w.tasks[f] = "skipped"
        BY <3>1 DEF ReviewedAs
      <3> QED
        BY <1>2, <3>2, <3>3, SettledStay DEF TaskStatus, TaskTerminal, Opened, Pending
    <2> QED
      BY <2>1, <2>2
  <1>7. GatesPassed(template, w)
    BY <1>2, GatesKept
  <1>8. NothingWritten(template, w)
    BY <1>1, <1>2, SettledStay DEF Recorded, NothingWritten, TaskTerminal
  <1>9. SkipsHaveCause(template, w)
    <2> SUFFICES ASSUME NEW u \in Tasks, w.tasks[u] = "skipped"
                 PROVE  u \in w.satisfied \/ Cause(template, w)
      BY DEF SkipsHaveCause
    <2>1. CASE s.tasks[u] = "skipped"
      <3>1. u \in s.satisfied \/ Cause(template, s)
        BY <2>1 DEF Recorded, SkipsHaveCause
      <3>2. Cause(template, s) => Cause(template, w)
        BY <1>1, <1>2, <1>3, CauseKept
      <3> QED
        BY <1>1, <3>1, <3>2
    <2>2. CASE s.tasks[u] # "skipped"
      <3>1. u # t
        BY <1>1
      <3>2. \/ u \in w.satisfied
            \/ template.role[t] = "review_1" /\ v = "reject"
            \/ template.role[t] = "review_2" /\ v \in {"revise", "reject"}
        BY <2>2, <3>1 DEF ReviewedAs
      <3>3. u \in w.satisfied \/ TurnedDown(template, w, t)
        BY <1>1, <3>2 DEF TurnedDown, Rejected
      <3> QED
        BY <3>3 DEF Cause
    <2> QED
      BY <2>1, <2>2
  <1>10. RejectionStands(template, w)
    <2> SUFFICES ASSUME NEW x \in Tasks, Rejected(template, w, x), NEW u \in Tasks
                 PROVE  /\ template.role[u] = "revision" => w.tasks[u] # "completed"
                        /\ template.role[u] = "review_2" => w.tasks[u] \notin Opened
      BY DEF RejectionStands
    <2>1. /\ template.role[u] = "revision" => s.tasks[u] # "completed"
          /\ template.role[u] = "review_2" => s.tasks[u] \notin Opened
      <3>1. CASE x # t
        <4>1. Rejected(template, s, x)
          BY <1>1, <3>1 DEF Rejected
        <4> QED
          BY <4>1 DEF Recorded, RejectionStands
      <3>2. CASE x = t
        <4>1. template.role[t] = "review_1"
          BY <3>2 DEF Rejected
        <4> QED
          BY <4>1, BeforeReview DEF Opened
      <3> QED
        BY <3>1, <3>2
    <2>2. template.role[u] = "review_2" => u # t
      BY <2>1 DEF Opened
    <2>3. template.role[u] = "revision" => u # t
      BY DEF ReviewRoles
    <2> QED
      BY <1>1, <2>1, <2>2, <2>3 DEF Opened
  <1> QED
    BY <1>4, <1>5, <1>6, <1>7, <1>8, <1>9, <1>10 DEF Recorded

\* A review that turns the report down finds every other task settled: those it
\* depends on are completed, and the finalization it closes itself.
LEMMA ReviewReported ==
    ASSUME template \in Templates, NEW s \in WorkflowState, Good(template, s),
           Earned(template, s), NEW t \in Tasks, s.tasks[t] = "running",
           template.role[t] \in ReviewRoles, NEW v \in Verdict,
           NEW w \in WorkflowState, ReviewedAs(s, w, t, v), Recorded(template, w),
           s.status \in {"running", "failed"}
    PROVE  Reported(template, w)
  <1>1. /\ s.verdict[t] = "none"
        /\ \A u \in Tasks : w.verdict[u] = IF u = t THEN v ELSE s.verdict[u]
        /\ w.tasks[t] = "completed"
    BY DEF ReviewedAs, Earned, Recorded, VerdictsRecorded
  <1>2. StepsFrom(s, w)
    BY ReviewStepsFrom
  <1>3. TurnedDown(template, w, t) <=> \/ template.role[t] = "review_1" /\ v = "reject"
                                       \/ template.role[t] = "review_2" /\ v \in {"revise", "reject"}
    BY <1>1 DEF TurnedDown, Rejected
  <1>4. w.status = IF TurnedDown(template, w, t) THEN "failed" ELSE s.status
    BY <1>3 DEF ReviewedAs
  <1>5. \A u \in Tasks \ {t} : /\ TurnedDown(template, w, u) <=> TurnedDown(template, s, u)
                               /\ Rejected(template, w, u) <=> Rejected(template, s, u)
    BY <1>1 DEF TurnedDown, Rejected
  <1>6. ~TurnedDown(template, s, t) /\ ~Rejected(template, s, t)
    BY <1>1 DEF TurnedDown, Rejected
  <1>7. (\E u \in Tasks : TurnedDown(template, w, u)) => w.status = "failed"
    <2>1. (\E u \in Tasks : TurnedDown(template, s, u)) => s.status = "failed"
      BY DEF Earned, Reported
    <2> QED
      BY <1>4, <1>5, <2>1
  <1>8. FailureShown(template, w)
    <2>1. CASE TurnedDown(template, w, t)
      <3> SUFFICES ASSUME NEW u \in Tasks, w.tasks[u] \notin TaskTerminal
                   PROVE  template.role[u] \in ExcusableRoles /\ Rejected(template, w, t)
        BY <2>1 DEF FailureShown
      <3>1. u # t /\ template.role[u] # "finalization"
        BY <1>1, <2>1 DEF TaskTerminal, Recorded, FinalizationClosed
      <3>2. s.tasks[u] # "completed"
        BY <1>2, SettledStay DEF TaskTerminal
      <3>3. s.tasks[t] \in Opened /\ Sound(template, s) /\ OneLine(template)
        BY ShapeAssumption DEF Opened, Good
      <3>4. CASE template.role[t] = "review_1"
        <4>1. LeadsTo(template, t, {"revision", "review_2", "finalization"})
          BY <3>3, <3>4 DEF OneLine, Playing
        <4>2. \A x \in s.satisfied : template.role[x] \in {"revision", "review_2", "finalization"}
          BY DEF Earned, Recorded, ExcusesEarned, ExcusableRoles
        <4>3. template.role[u] \in {"revision", "review_2", "finalization"}
          BY <3>1, <3>2, <3>3, <4>1, <4>2, CompletedBefore
        <4>4. Rejected(template, w, t)
          BY <2>1, <3>4 DEF TurnedDown
        <4> QED
          BY <3>1, <4>3, <4>4 DEF ExcusableRoles
      <3>5. CASE template.role[t] = "review_2"
        <4>1. LeadsTo(template, t, {"finalization"})
          BY <3>3, <3>5 DEF OneLine, Playing
        <4>2. s.satisfied = {}
          <5> SUFFICES ASSUME s.satisfied # {} PROVE FALSE
            OBVIOUS
          <5>1. PICK x \in Tasks : template.role[x] = "review_1" /\ s.verdict[x] = "approve"
            BY DEF Earned, Recorded, ExcusesEarned
          <5>2. t \in s.satisfied
            BY <3>5, <5>1 DEF Good, Vouched
          <5> QED
            BY <5>2 DEF Good, Sound
        <4>3. template.role[u] \in {"finalization"}
          BY <3>1, <3>2, <3>3, <4>1, <4>2, CompletedBefore
        <4> QED
          BY <3>1, <4>3
      <3> QED
        BY <1>3, <2>1, <3>4, <3>5
    <2>2. CASE ~TurnedDown(template, w, t)
      <3> SUFFICES ASSUME s.status = "failed" PROVE FailureShown(template, w)
        BY <1>4, <2>2 DEF FailureShown
      <3>1. /\ \/ \E u \in Tasks : s.tasks[u] = "failed"
               \/ \E u \in Tasks : TurnedDown(template, s, u)
            /\ \A u \in Tasks : \/ s.tasks[u] \in TaskTerminal
                                \/ /\ template.role[u] \in ExcusableRoles
                                   /\ \E x \in Tasks : Rejected(template, s, x)
        BY DEF Earned, Reported, FailureShown
      <3>2. \A u \in Tasks : s.tasks[u] \in TaskTerminal => w.tasks[u] = s.tasks[u]
        BY <1>2, SettledStay
      <3>3. \/ \E u \in Tasks : w.tasks[u] = "failed"
            \/ \E u \in Tasks : TurnedDown(template, w, u)
        BY <1>5, <1>6, <3>1, <3>2 DEF TaskTerminal
      <3>4. \A u \in Tasks : \/ w.tasks[u] \in TaskTerminal
                             \/ /\ template.role[u] \in ExcusableRoles
                                /\ \E x \in Tasks : Rejected(template, w, x)
        BY <1>5, <1>6, <3>1, <3>2
      <3> QED
        BY <3>3, <3>4 DEF FailureShown
    <2> QED
      BY <2>1, <2>2
  <1> QED
    BY <1>4, <1>7, <1>8 DEF Reported, CompletionShown

LEMMA ReviewDecidesEarned == IInv /\ EarnedInv /\ ReviewDecides => EarnedInv'
  <1> SUFFICES ASSUME IInv, EarnedInv, ReviewDecides PROVE EarnedInv'
    OBVIOUS
  <1>1. /\ template \in Templates /\ current \in Tasks /\ mem \in WorkflowState
        /\ Good(template, mem) /\ Earned(template, mem) /\ mem.status \in {"running", "failed"}
        /\ mem.tasks[current] = "running" /\ template.role[current] \in ReviewRoles
    BY AtWork DEF ReviewDecides, ReviewRoles
  <1> DEFINE round == template.role[current]
             made(v) == [Branched([mem EXCEPT !.verdict[current] = v], round, v)
                             EXCEPT !.tasks[current] = "completed"]
  <1>2. PICK v \in Verdict :
            /\ BranchApplies(mem, round, v)
            /\ Finished(Branched([mem EXCEPT !.verdict[current] = v], round, v), "completed")
    BY DEF ReviewDecides
  <1>3. mem' = made(v) /\ row' = mem' /\ pc' = "scheduling" /\ template' = template
    BY <1>2 DEF Finished, Save
  <1>4. ReviewedAs(mem, made(v), current, v)
    BY <1>1, <1>2, ReviewForm
  <1> HIDE DEF made, round
  <1>5. made(v) \in WorkflowState /\ made(v).status \in {"running", "failed"}
    BY <1>1, <1>4 DEF ReviewedAs
  <1>6. Recorded(template, made(v))
    BY <1>1, <1>4, <1>5, ReviewRecorded DEF Earned
  <1>7. Reported(template, made(v))
    BY <1>1, <1>4, <1>5, <1>6, ReviewReported
  <1> QED
    BY <1>3, <1>5, <1>6, <1>7, SavedEarned DEF Earned

LEMMA TaskPausesEarned == IInv /\ EarnedInv /\ TaskPauses => EarnedInv'
  <1> SUFFICES ASSUME IInv, EarnedInv, TaskPauses PROVE EarnedInv'
    OBVIOUS
  <1>1. /\ template \in Templates /\ current \in Tasks /\ mem = row /\ row \in WorkflowState
        /\ Earned(template, row) /\ row.tasks[current] = "running" /\ row.status = "running"
        /\ mem' = [row EXCEPT !.tasks[current] = "paused", !.status = "paused",
                              !.progress = @ \cup {current}]
        /\ row' = mem' /\ pc' = "finalizing" /\ template' = template
    BY AtWork DEF TaskPauses, Save
  <1>2. /\ row' \in WorkflowState /\ row'.status = "paused" /\ row'.verdict = row.verdict
        /\ row'.satisfied = row.satisfied /\ row'.insufficient = row.insufficient
        /\ \A u \in Tasks : row'.tasks[u] = IF u = current THEN "paused" ELSE row.tasks[u]
    BY <1>1 DEF WorkflowState, TaskStatus, RunStatus
  <1>3. StepsFrom(row, row')
    BY PauseMoves DEF RowStep, StepsFrom
  <1>4. /\ Recorded(template, row)
        /\ \A u \in Tasks : row'.tasks[u] = "skipped" => row.tasks[u] = "skipped"
        /\ \A u \in Tasks : row'.tasks[u] = "completed" => row.tasks[u] = "completed"
    BY <1>1, <1>2 DEF Earned
  <1>5. Recorded(template, row')
    <2> DEFINE s == row
               w == row'
    <2>1. /\ template \in Templates /\ s \in WorkflowState /\ w \in WorkflowState
          /\ Recorded(template, s) /\ StepsFrom(s, w)
          /\ w.verdict = s.verdict /\ w.satisfied = s.satisfied /\ w.insufficient = s.insufficient
          /\ \A u \in Tasks : w.tasks[u] = "skipped" => s.tasks[u] = "skipped"
          /\ \A u \in Tasks : w.tasks[u] = "completed" => s.tasks[u] = "completed"
      BY <1>1, <1>2, <1>3, <1>4
    <2> HIDE DEF s, w
    <2>2. Recorded(template, w)
      BY <2>1, RecordedKept
    <2> QED
      BY <2>2 DEF w
  <1>6. Reported(template, row')
    BY <1>1, <1>2, ReportedOpen DEF Earned
  <1> QED
    BY <1>1, <1>2, <1>5, <1>6, SavedEarned DEF Earned

\* The run is reported with what its tasks came to.
LEMMA FinalizeEarned == IInv /\ EarnedInv /\ Finalize => EarnedInv'
  <1> SUFFICES ASSUME IInv, EarnedInv, Finalize PROVE EarnedInv'
    OBVIOUS
  <1>1. /\ template \in Templates /\ template' = template /\ mem = row /\ row \in WorkflowState
        /\ Earned(template, row) /\ row.status \in {"running", "failed", "paused"} /\ Forget
        /\ row' = [row EXCEPT !.status = Resolved(row)]
    BY DEF IInv, EarnedInv, TypeOK, Placed, Finalize
  <1>2. Resolved(row) \in RunStatus
    BY <1>1 DEF Resolved, WorkflowState, RunStatus
  <1>3. /\ row' \in WorkflowState /\ row'.status = Resolved(row) /\ row'.verdict = row.verdict
        /\ row'.satisfied = row.satisfied /\ row'.insufficient = row.insufficient
        /\ row'.tasks = row.tasks
    BY <1>1, <1>2, StatusFields
  <1>4. StepsFrom(row, row')
    BY <1>3 DEF StepsFrom, TaskStep
  <1>5. Recorded(template, row')
    BY <1>1, <1>3, <1>4, RecordedKept DEF Earned
  <1>6. Reported(template, row')
    <2>1. CASE Resolved(row) = row.status
      BY <1>1, <1>3, <1>4, <2>1, ReportedKept DEF Earned
    <2>2. CASE Resolved(row) # row.status
      <3>1. /\ AllTerminal(row) /\ row.status # "failed"
            /\ Resolved(row) = IF \E t \in Tasks : row.tasks[t] = "failed"
                               THEN "failed" ELSE "completed"
        BY <2>2 DEF Resolved, RunTerminal
      <3>2. \A t \in Tasks : ~TurnedDown(template, row, t)
        BY <1>1, <3>1 DEF Earned, Reported
      <3>3. \A t \in Tasks : ~TurnedDown(template, row', t)
        BY <1>3, <3>2 DEF TurnedDown, Rejected
      <3>4. FailureShown(template, row')
        BY <1>3, <3>1 DEF FailureShown, AllTerminal
      <3>5. CompletionShown(template, row')
        <4> SUFFICES ASSUME \A t \in Tasks : row.tasks[t] # "failed"
                     PROVE  /\ \A t \in Tasks : row.tasks[t] \in {"completed", "skipped"}
                            /\ \A f \in Tasks : template.role[f] = "finalization" =>
                                   row.tasks[f] = "completed" \/ row.insufficient
          BY <1>3, <3>1 DEF CompletionShown
        <4>1. \A t \in Tasks : row.tasks[t] \in {"completed", "skipped"}
          BY <3>1 DEF AllTerminal, TaskTerminal
        <4>2. Cause(template, row) => row.insufficient
          BY <3>2 DEF Cause
        <4>3. \A f \in Tasks : template.role[f] = "finalization" => f \notin row.satisfied
          BY <1>1 DEF Earned, Recorded, ExcusesEarned, ExcusableRoles
        <4> QED
          BY <1>1, <4>1, <4>2, <4>3 DEF Earned, Recorded, SkipsHaveCause
      <3> QED
        BY <3>3, <3>4, <3>5 DEF Reported
    <2> QED
      BY <2>1, <2>2
  <1> QED
    BY <1>1, <1>5, <1>6, ForgottenEarned DEF Earned

\* While the finalization is open every other task is done.
LEMMA DoneBeforeFinalization ==
    ASSUME NEW m \in Templates, NEW s \in WorkflowState, Good(m, s), Recorded(m, s),
           NEW f \in Tasks, m.role[f] = "finalization", s.tasks[f] \in Opened
    PROVE  \A u \in Tasks \ {f} : s.tasks[u] = "completed" \/ u \in s.satisfied
  <1>1. Sound(m, s) /\ LeadsTo(m, f, {}) /\ LeadsTo(m, f, {"revision", "review_2"})
    BY ShapeAssumption DEF Good, OneLine, Playing
  <1>2. CASE s.satisfied = {}
    <2>1. \A u \in Tasks : m.role[u] \notin {} /\ u # f => s.tasks[u] = "completed"
      BY <1>1, <1>2, CompletedBefore
    <2> QED
      BY <2>1
  <1>3. CASE s.satisfied # {}
    <2>1. \A u \in s.satisfied : m.role[u] \in {"revision", "review_2"}
      BY DEF Recorded, ExcusesEarned, ExcusableRoles
    <2>2. \A u \in Tasks : m.role[u] \notin {"revision", "review_2"} /\ u # f =>
              s.tasks[u] = "completed"
      BY <1>1, <2>1, CompletedBefore
    <2>3. \E t \in Tasks : m.role[t] = "review_1" /\ s.verdict[t] = "approve"
      BY <1>3 DEF Recorded, ExcusesEarned
    <2>4. \A u \in Tasks : m.role[u] \in {"revision", "review_2"} => u \in s.satisfied
      BY <2>3 DEF Good, Vouched
    <2> QED
      BY <2>2, <2>4
  <1> QED
    BY <1>2, <1>3

LEMMA UnpausedEarned ==
    IInv /\ EarnedInv /\ (ResumeTask \/ SettlePaused) => EarnedInv'
  <1> SUFFICES ASSUME IInv, EarnedInv, ResumeTask \/ SettlePaused PROVE EarnedInv'
    OBVIOUS
  <1>1. /\ template \in Templates /\ template' = template /\ row \in WorkflowState
        /\ Good(template, row) /\ Earned(template, row) /\ row.status = "paused" /\ Forget
    BY DEF IInv, EarnedInv, TypeOK, ResumeTask, SettlePaused
  <1>2. StepsFrom(row, row')
    BY UnpauseMoves DEF RowStep, StepsFrom
  <1>3. CASE ResumeTask
    <2>1. PICK t \in Tasks : row' = [row EXCEPT !.tasks[t] = "ready", !.status = "running"]
      BY <1>3 DEF ResumeTask, PausedTasks
    <2>2. /\ row' \in WorkflowState /\ row'.status = "running" /\ row'.verdict = row.verdict
          /\ row'.satisfied = row.satisfied /\ row'.insufficient = row.insufficient
          /\ \A u \in Tasks : row'.tasks[u] = IF u = t THEN "ready" ELSE row.tasks[u]
      BY <1>1, <2>1 DEF WorkflowState, TaskStatus, RunStatus
    <2>3. Earned(template, row')
      BY <1>1, <1>2, <2>2, EarnedKept
    <2> QED
      BY <1>1, <2>3, ForgottenEarned
  <1>4. CASE SettlePaused
    <2>1. PICK f \in Tasks, outcome \in RunTerminal :
              /\ row.tasks[f] = "paused" /\ template.role[f] = "finalization"
              /\ row' = [row EXCEPT !.tasks[f] = outcome, !.status = outcome]
      BY <1>4 DEF SettlePaused, PausedTasks, With
    <2>2. /\ row' \in WorkflowState /\ row'.status = outcome /\ row'.verdict = row.verdict
          /\ row'.satisfied = row.satisfied /\ row'.insufficient = row.insufficient
          /\ \A u \in Tasks : row'.tasks[u] = IF u = f THEN outcome ELSE row.tasks[u]
      BY <1>1, <2>1 DEF WorkflowState, TaskStatus, RunStatus, RunTerminal
    <2>3. template.role[f] \notin ReviewRoles /\ template.role[f] # "revision"
          /\ outcome # "skipped"
      BY <2>1 DEF ReviewRoles, RunTerminal
    <2>4. Recorded(template, row')
      BY <1>1, <1>2, <2>2, <2>3, RecordedKept DEF Earned
    <2>5. \A u \in Tasks \ {f} : row'.tasks[u] \in {"completed", "skipped"}
      <3>1. \A u \in Tasks \ {f} : row.tasks[u] = "completed" \/ u \in row.satisfied
        BY <1>1, <2>1, DoneBeforeFinalization DEF Opened, Earned
      <3> QED
        BY <1>1, <2>2, <3>1 DEF Good, Sound
    <2>6. \A t \in Tasks : ~TurnedDown(template, row', t)
      BY <1>1, <2>2 DEF Earned, Reported, TurnedDown, Rejected
    <2>7. FailureShown(template, row')
      BY <2>1, <2>2, <2>5 DEF FailureShown, RunTerminal, TaskTerminal
    <2>8. CompletionShown(template, row')
      <3> SUFFICES ASSUME outcome = "completed" PROVE CompletionShown(template, row')
        BY <2>2 DEF CompletionShown
      <3>1. \A g \in Tasks : template.role[g] = "finalization" => g = f
        BY <1>1, <2>1, OnlyOne
      <3> QED
        BY <2>2, <2>5, <3>1 DEF CompletionShown
    <2> QED
      BY <1>1, <2>4, <2>6, <2>7, <2>8, ForgottenEarned DEF Earned, Reported
  <1> QED
    BY <1>3, <1>4

LEMMA NextEarned == IInv /\ EarnedInv /\ [Next]_vars => EarnedInv'
  <1>1. IInv /\ EarnedInv /\ UNCHANGED vars => EarnedInv'
    BY DEF EarnedInv, Placed, vars
  <1>2. IInv /\ EarnedInv /\ Engine => EarnedInv'
    BY ClaimEarned, StartEarned, ScheduleEarned, StartTaskEarned, NothingReadyEarned,
       FinalizeEarned, PlainFinishEarned, AssessedEarned, ReviewDecidesEarned,
       TaskPausesEarned DEF Engine
  <1>3. IInv /\ EarnedInv /\ (\/ AbandonTask \/ Checkpoint \/ GateCheckpoint \/ ResumeTask
                              \/ SettlePaused \/ Crash) => EarnedInv'
    BY StartTaskEarned, CheckpointEarned, GateCheckpointEarned, UnpausedEarned, CrashEarned
  <1> QED
    BY <1>1, <1>2, <1>3 DEF Next

THEOREM EarnedInvHolds == Spec => []EarnedInv
  BY InitEarned, NextEarned, IInvHolds, PTL DEF Spec

\* Whatever is recovered, retried or resumed in between, the finalization of a run
\* under the H3 contract is not even READY unless a review approved the report, and
\* once the research was found insufficient nothing is written from it.
THEOREM DeliveryEarned == Spec => []DeliveryIsEarned
  <1>1. IInv /\ EarnedInv => DeliveryIsEarned
    <2> SUFFICES ASSUME IInv, EarnedInv PROVE DeliveryIsEarned
      OBVIOUS
    <2>1. /\ template \in Templates /\ row \in WorkflowState
          /\ Sound(template, row) /\ Recorded(template, row)
      BY DEF IInv, TypeOK, Good, EarnedInv, Earned
    <2>2. ASSUME With({"review"}) = {}, NEW f \in With({"finalization"}), row.tasks[f] \in Opened
          PROVE  Approved(row)
      <3>1. f \in Tasks /\ template.role[f] = "finalization"
        BY DEF With
      <3>2. PICK r \in Tasks : template.role[r] = "review_2" /\ r \in template.deps[f]
        <4>1. /\ Playing(template, {"review_1", "review_2"}) \subseteq template.deps[f]
              /\ Playing(template, {"review", "review_2"}) # {}
          BY <2>1, <3>1, ShapeAssumption DEF RoundsInOrder, Playing
        <4>2. \A t \in Tasks : template.role[t] # "review"
          BY <2>2 DEF With
        <4> QED
          BY <4>1, <4>2 DEF Playing
      <3>3. Done(row, r)
        BY <2>1, <2>2, <3>1, <3>2 DEF Sound, Opened
      <3>4. CASE r \in row.satisfied
        BY <2>1, <3>4 DEF Recorded, ExcusesEarned, Approved
      <3>5. CASE row.tasks[r] = "completed"
        <4>1. row.verdict[r] \in Verdict
          BY <2>1, <3>2, <3>5 DEF Recorded, VerdictsRecorded, ReviewRoles, WorkflowState
        <4>2. row.verdict[r] \notin {"revise", "reject"}
          BY <2>1, <2>2, <3>1, <3>2 DEF Recorded, FinalizationClosed, TurnedDown, Opened
        <4> QED
          BY <4>1, <4>2 DEF Verdict, Approved
      <3> QED
        BY <3>3, <3>4, <3>5 DEF Done
    <2>3. ASSUME row.insufficient, NEW t \in With(DownstreamRoles \ {"analysis"})
          PROVE  row.tasks[t] \notin Opened
      BY <2>1, <2>3 DEF Recorded, NothingWritten, With, Opened
    <2> QED
      BY <2>2, <2>3 DEF DeliveryIsEarned, Opened
  <1> QED
    BY <1>1, IInvHolds, EarnedInvHolds, PTL

\* A run says COMPLETED only when it delivered or its research was insufficient, and
\* FAILED only when a task failed or a review turned the report down; and what is
\* left open on a finished run that nobody works on was left by a rejection.
THEOREM OutcomeEarned == Spec => []OutcomeIsEarned
  <1>1. EarnedInv => OutcomeIsEarned
    <2> SUFFICES ASSUME EarnedInv PROVE OutcomeIsEarned
      OBVIOUS
    <2>1. FailureShown(template, row) /\ CompletionShown(template, row)
      BY DEF EarnedInv, Earned, Reported
    <2>2. row.status = "completed" =>
              \A t \in With({"finalization"}) : row.tasks[t] = "completed" \/ row.insufficient
      BY <2>1 DEF CompletionShown, With
    <2>3. row.status = "failed" =>
              \/ \E t \in Tasks : row.tasks[t] = "failed"
              \/ \E t \in Tasks : row.verdict[t] = "reject"
              \/ \E t \in With({"review_2"}) : row.verdict[t] = "revise"
      BY <2>1 DEF FailureShown, TurnedDown, Rejected, With
    <2>4. row.status \in RunTerminal =>
              AllTerminal(row) \/ \E t \in With({"review_1"}) : row.verdict[t] = "reject"
      BY <2>1 DEF FailureShown, CompletionShown, Rejected, RunTerminal, TaskTerminal,
                  AllTerminal, With
    <2> QED
      BY <2>2, <2>3, <2>4 DEF OutcomeIsEarned
  <1> QED
    BY <1>1, EarnedInvHolds, PTL
--------------------------------------------------------------------------------
(***************************************************************************)
(* The row implements TaskGraph.                                           *)
(***************************************************************************)
\* Nothing is done any more to a run reported completed.
LEMMA CompletedRests == IInv /\ EarnedInv /\ row.status = "completed" => ~Next
  <1> SUFFICES ASSUME IInv, EarnedInv, row.status = "completed" PROVE ~Next
    OBVIOUS
  <1>1. pc = "idle"
    BY DEF IInv, TypeOK, Pc, EarnedInv, Placed
  <1>2. ~Engine
    BY <1>1 DEF Engine, Claim, SaveRecovery, Start, Schedule, StartTask, NothingReady, Finalize,
                TaskCompletes, ReadinessAssessed, AnalysisCompletes, ReviewDecides,
                ReportRevised, Finalized, TaskPauses, TaskFails, Executing
  <1>3. ~(\/ AbandonTask \/ Checkpoint \/ GateCheckpoint \/ ResumeTask \/ SettlePaused
          \/ Crash)
    BY <1>1 DEF AbandonTask, Checkpoint, GateCheckpoint, Executing, ResumeTask, SettlePaused,
                Crash
  <1> QED
    BY <1>2, <1>3 DEF Next

\* The executors that are still at work when the run was reported failed have
\* nothing that they can complete: the rest of the run is what a rejection left.
LEMMA FailedAtWork ==
    IInv /\ EarnedInv /\ row.status = "failed" =>
        ~(TaskCompletes \/ ReadinessAssessed \/ AnalysisCompletes \/ ReviewDecides
            \/ ReportRevised \/ Finalized \/ TaskPauses \/ GateCheckpoint)
  <1> SUFFICES ASSUME IInv, EarnedInv, row.status = "failed", pc = "executing"
               PROVE  ~(TaskCompletes \/ ReadinessAssessed \/ AnalysisCompletes \/ ReviewDecides
                          \/ ReportRevised \/ Finalized \/ TaskPauses \/ GateCheckpoint)
    BY DEF TaskCompletes, ReadinessAssessed, AnalysisCompletes, ReviewDecides, ReportRevised,
           Finalized, TaskPauses, GateCheckpoint, Executing
  <1>1. /\ template \in Templates /\ current \in Tasks /\ mem = row
        /\ row.tasks[current] = "running" /\ Recorded(template, row) /\ FailureShown(template, row)
    BY DEF IInv, TypeOK, EarnedInv, Placed, Earned, Reported
  <1>2. template.role[current] \in ExcusableRoles /\ \E t \in Tasks : Rejected(template, row, t)
    BY <1>1 DEF FailureShown, TaskTerminal
  <1>3. PICK t \in Tasks : template.role[t] = "review_1" /\ row.verdict[t] = "reject"
    BY <1>2 DEF Rejected
  <1>4. template.role[current] = "revision"
    BY <1>1, <1>2 DEF ExcusableRoles, Recorded, RejectionStands, Opened
  <1>5. ~ReportRevised
    <2> SUFFICES ASSUME NEW u \in With({"review_1"}), row.verdict[u] = "revise" PROVE FALSE
      BY <1>1 DEF ReportRevised
    <2>1. u = t
      BY <1>1, <1>3, OnlyOne DEF With
    <2> QED
      BY <1>3, <2>1
  <1> QED
    BY <1>4, <1>5 DEF TaskCompletes, ReadinessAssessed, AnalysisCompletes, ReviewDecides,
                      Finalized, TaskPauses, GateCheckpoint, Executing

NothingCompletes ==
    /\ row'.status = "failed"
    /\ \A t \in Tasks : row'.tasks[t] = "completed" => row.tasks[t] = "completed"

LEMMA FailedStays == IInv /\ EarnedInv /\ row.status = "failed" /\ Next => NothingCompletes
  <1> SUFFICES ASSUME IInv, EarnedInv, row.status = "failed", Next PROVE NothingCompletes
    OBVIOUS
  <1>1. /\ row \in WorkflowState /\ pc \notin {"recovering", "starting"} /\ mem = row
    BY DEF IInv, TypeOK, EarnedInv, Placed
  <1>2. CASE NothingReady \/ Crash
    BY <1>2 DEF NothingReady, Crash, NothingCompletes
  <1>3. CASE Schedule
    <2>1. row' = row \/ \E D : row' = [row EXCEPT !.tasks = [t \in Tasks |-> Planned(row, t, D)]]
      BY <1>1, <1>3 DEF Schedule
    <2>2. \A D : \A t \in Tasks : Planned(row, t, D) = "completed" => row.tasks[t] = "completed"
      BY DEF Planned
    <2> QED
      BY <1>1, <2>1, <2>2 DEF NothingCompletes, WorkflowState
  <1>4. CASE StartTask \/ AbandonTask
    BY <1>1, <1>4 DEF StartTask, AbandonTask, StartedMem, Save, NothingCompletes, WorkflowState
  <1>5. CASE Finalize
    BY <1>1, <1>5 DEF Finalize, Resolved, RunTerminal, NothingCompletes, WorkflowState
  <1>6. CASE TaskFails
    BY <1>1, <1>6 DEF TaskFails, Finished, Save, NothingCompletes, WorkflowState
  <1>7. CASE Checkpoint
    BY <1>1, <1>7 DEF Checkpoint, Save, NothingCompletes, WorkflowState
  <1>8. ~(Claim \/ SaveRecovery \/ Start \/ ResumeTask \/ SettlePaused)
    BY <1>1 DEF Claim, SaveRecovery, Start, ResumeTask, SettlePaused
  <1> QED
    BY <1>2, <1>3, <1>4, <1>5, <1>6, <1>7, <1>8, FailedAtWork DEF Next, Engine

LEMMA GraphInit == Init => Graph!Init
  BY TemplatesAssumption DEF Init, Graph!Init, PhaseOf, RunTerminal

LEMMA GraphStep ==
    IInv /\ EarnedInv /\ IInv' /\ EarnedInv' /\ [Next]_vars => [Graph!Next]_(Graph!vars)
  <1> DEFINE Phases == [t \in Tasks |-> PhaseOf(t)]
             Told == IF row.status \in RunTerminal THEN row.status ELSE "none"
  <1>1. ASSUME UNCHANGED vars PROVE UNCHANGED Graph!vars
    BY <1>1 DEF vars, Graph!vars, PhaseOf
  <1>2. ASSUME IInv, EarnedInv, IInv', EarnedInv', Next PROVE Graph!Next
    <2>1. template' = template
      BY <1>2 DEF Next, Engine, Claim, SaveRecovery, Start, Schedule, StartTask, NothingReady,
                  Finalize, TaskCompletes, ReadinessAssessed, AnalysisCompletes, ReviewDecides,
                  ReportRevised, Finalized, TaskPauses, TaskFails, Finished, AbandonTask,
                  Checkpoint, GateCheckpoint, ResumeTask, SettlePaused, Crash
    <2>2. Graph!MoveTasks
      <3>1. Phases' \in [Tasks -> Graph!Phase]
        BY <1>2 DEF IInv, TypeOK, WorkflowState, TaskStatus, PhaseOf, Graph!Phase
      <3>2. \A t \in Tasks : Phases'[t] # Phases[t] => Graph!Moves(t, Phases'[t])
        BY <1>2, NextMoves DEF MovesOnly
      <3> QED
        BY <3>1, <3>2 DEF Graph!MoveTasks
    <2>3. row.status # "completed"
      BY <1>2, CompletedRests
    <2>4. CASE row.status = "failed"
      <3>1. NothingCompletes
        BY <1>2, <2>4, FailedStays
      <3>2. Told = "failed" /\ Told' = "failed"
        BY <2>4, <3>1 DEF RunTerminal, NothingCompletes
      <3>3. \A t \in Tasks : PhaseOf(t)' = "done" => PhaseOf(t) = "done"
        BY <1>2, <3>1 DEF NothingCompletes, PhaseOf, IInv, TypeOK, WorkflowState, TaskStatus
      <3> QED
        BY <2>1, <2>2, <3>2, <3>3 DEF Graph!Next, Graph!Progress
    <2>5. CASE row.status \notin RunTerminal /\ row'.status \notin RunTerminal
      <3>1. Told = "none" /\ Told' = "none"
        BY <2>5
      <3> QED
        BY <2>1, <2>2, <3>1 DEF Graph!Next, Graph!Progress
    <2>6. CASE row.status \notin RunTerminal /\ row'.status \in RunTerminal
      <3>1. Told = "none" /\ Told' = row'.status /\ Told' \in {"completed", "failed"}
        BY <2>6 DEF RunTerminal
      <3>2. ASSUME row'.status = "completed", NEW t \in Tasks
            PROVE  PhaseOf(t)' \in Graph!Settled \ {"failed"}
        <4>1. row'.tasks[t] \in {"completed", "skipped"}
          BY <1>2, <3>2 DEF EarnedInv, Earned, Reported, CompletionShown
        <4> QED
          BY <4>1 DEF PhaseOf, Graph!Settled
      <3> QED
        BY <2>1, <2>2, <3>1, <3>2 DEF Graph!Next, Graph!Report
    <2> QED
      BY <2>3, <2>4, <2>5, <2>6 DEF RunTerminal
  <1> QED
    BY <1>1, <1>2

\* The engine, with its crashes, its recoveries and the two writers of a paused run,
\* implements what TaskGraph promises of the row: tasks open in dependency order and
\* settle once, a run reported completed has settled them all and never changes, and
\* on a run reported failed nothing is done any more.
THEOREM ImplementsTaskGraph == Spec => GraphKept
  BY GraphInit, GraphStep, IInvHolds, EarnedInvHolds, PTL DEF Spec, GraphKept, Graph!Spec
--------------------------------------------------------------------------------
(***************************************************************************)
(* What a scheduling pass decides.                                         *)
(***************************************************************************)
\* The scheduler is a function of the state it finds: in every template the
\* equation that stands for the pass over the tasks in topological order has one
\* solution, so a pass always has a plan and two workers would plan the same.
THEOREM OnePass ==
    ASSUME template \in Templates, NEW s
    PROVE  \E D \in SUBSET Tasks : \A E : Doomed(s, E) <=> E = D
  <1> DEFINE Carried(S) == {t \in Tasks : /\ s.tasks[t] \in Pending
                                          /\ \E d \in DependsOn(t) : Lost(s, d) \/ d \in S}
             Closed == {S \in SUBSET Tasks : Carried(S) \subseteq S}
             D0 == {t \in Tasks : \A S \in Closed : t \in S}
  <1>1. Carried(D0) = D0
    <2>1. \A S, T : S \subseteq T => Carried(S) \subseteq Carried(T)
      OBVIOUS
    <2> HIDE DEF Carried
    <2>2. Carried(D0) \in SUBSET Tasks
      BY DEF Carried
    <2>3. Carried(D0) \subseteq D0
      <3> SUFFICES ASSUME NEW S \in Closed PROVE Carried(D0) \subseteq S
        BY <2>2
      <3>1. D0 \subseteq S
        OBVIOUS
      <3> QED
        BY <2>1, <3>1
    <2>4. Carried(D0) \in Closed
      BY <2>1, <2>2, <2>3
    <2> QED
      BY <2>3, <2>4
  <1>2. ASSUME NEW E, NEW D, Carried(E) = E, Carried(D) = D PROVE E \subseteq D
    <2> DEFINE S == {Position[t] : t \in E \ D}
    <2>1. E \subseteq Tasks
      BY <1>2
    <2> SUFFICES ASSUME E \ D # {} PROVE FALSE
      OBVIOUS
    <2>2. S \in SUBSET Nat /\ S # {}
      BY <2>1, PositionAssumption
    <2>3. PICK n \in S : \A k \in S : n <= k
      BY <2>2, NatMin
    <2>4. PICK t \in E \ D : n = Position[t]
      OBVIOUS
    <2>5. PICK d \in DependsOn(t) : s.tasks[t] \in Pending /\ (Lost(s, d) \/ d \in E)
      BY <1>2, <2>4
    <2>6. d \in E \ D
      BY <1>2, <2>1, <2>4, <2>5
    <2>7. Position[d] < Position[t]
      BY <2>1, <2>4, <2>5, TemplatesAssumption DEF DependsOn
    <2>8. Position[t] \in Nat /\ Position[d] \in Nat /\ n <= Position[d]
      BY <2>1, <2>3, <2>4, <2>6, PositionAssumption
    <2> QED
      BY <2>4, <2>7, <2>8
  <1>3. \A E : Doomed(s, E) <=> Carried(E) = E
    BY DEF Doomed
  <1>4. D0 \in SUBSET Tasks
    OBVIOUS
  <1> HIDE DEF Carried, D0
  <1>5. \A E : Carried(E) = E <=> E = D0
    <2> SUFFICES ASSUME NEW E, Carried(E) = E PROVE E = D0
      BY <1>1
    <2> QED
      BY <1>1, <1>2
  <1> QED
    BY <1>3, <1>4, <1>5

\* That solution is the plan of the pass: statuses are planned as the code decides
\* them, each from the statuses planned for its dependencies, exactly if they are
\* those that Schedule writes.  The checks of the pass exclude an excused task that
\* is not skipped.
THEOREM PassPlans ==
    ASSUME template \in Templates, NEW s \in WorkflowState, Schedulable(s),
           NEW D, Doomed(s, D), NEW planned \in [Tasks -> TaskStatus]
    PROVE  (\A t \in Tasks : planned[t] = Decision(s, t, planned))
               <=> planned = [t \in Tasks |-> Planned(s, t, D)]
  <1> DEFINE plan == [t \in Tasks |-> Planned(s, t, D)]
  <1>1. ASSUME NEW t \in Tasks PROVE DependsOn(t) \subseteq Tasks /\ s.tasks[t] \in TaskStatus
    BY TemplatesAssumption DEF DependsOn, WorkflowState
  <1>2. plan \in [Tasks -> TaskStatus]
    BY <1>1 DEF Planned, TaskStatus
  <1>3. ASSUME NEW t \in Tasks PROVE plan[t] = Decision(s, t, plan)
    <2>1. ASSUME NEW d \in DependsOn(t)
          PROVE  /\ plan[d] = "failed" \/ (plan[d] = "skipped" /\ d \notin s.satisfied)
                        <=> Lost(s, d) \/ d \in D
                 /\ plan[d] = "completed" \/ (plan[d] = "skipped" /\ d \in s.satisfied)
                        <=> Done(s, d)
      <3>1. d \in Tasks /\ s.tasks[d] \in TaskStatus /\ plan[d] = Planned(s, d, D)
        BY <1>1
      <3>2. /\ d \in s.satisfied => s.tasks[d] = "skipped"
            /\ d \in D => s.tasks[d] \in Pending
        BY DEF Schedulable, Doomed
      <3> QED
        BY <3>1, <3>2 DEF Planned, Lost, Done, Pending
    <2>2. t \in D <=> s.tasks[t] \in Pending /\ \E d \in DependsOn(t) : Lost(s, d) \/ d \in D
      BY DEF Doomed
    <2>3. plan[t] = Planned(s, t, D)
      OBVIOUS
    <2> HIDE DEF plan
    <2> QED
      BY <2>1, <2>2, <2>3 DEF Planned, Decision
  <1> HIDE DEF plan
  <1>4. ASSUME NEW t \in Tasks, \A d \in DependsOn(t) : planned[d] = plan[d]
        PROVE  Decision(s, t, planned) = Decision(s, t, plan)
    BY <1>4 DEF Decision
  <1>5. ASSUME \A t \in Tasks : planned[t] = Decision(s, t, planned)
        PROVE  \A t \in Tasks : planned[t] = plan[t]
    <2> DEFINE Off == {t \in Tasks : planned[t] # plan[t]}
               S == {Position[t] : t \in Off}
    <2> SUFFICES ASSUME Off # {} PROVE FALSE
      OBVIOUS
    <2>1. S \in SUBSET Nat /\ S # {}
      BY PositionAssumption
    <2>2. PICK n \in S : \A k \in S : n <= k
      BY <2>1, NatMin
    <2>3. PICK t \in Off : n = Position[t]
      OBVIOUS
    <2>4. PICK d \in DependsOn(t) : planned[d] # plan[d]
      BY <1>3, <1>4, <1>5, <2>3
    <2>5. d \in Off /\ Position[d] < Position[t]
      BY <1>1, <2>3, <2>4, TemplatesAssumption DEF DependsOn
    <2>6. Position[t] \in Nat /\ Position[d] \in Nat /\ n <= Position[d]
      BY <2>2, <2>3, <2>5, PositionAssumption
    <2> QED
      BY <2>3, <2>5, <2>6
  <1>6. (\A t \in Tasks : planned[t] = plan[t]) => planned = plan
    BY <1>2
  <1> QED
    BY <1>3, <1>5, <1>6 DEF plan

\* Every pass that the engine makes writes what the code decides task by task, each
\* decision from the statuses planned for the dependencies of its task.
PassFollowsDecisions ==
    pc = "scheduling" /\ pc' = "dispatching" =>
        \A t \in Tasks : mem'.tasks[t] = Decision(mem, t, mem'.tasks)
THEOREM SchedulesAsDecided == Spec => [][PassFollowsDecisions]_vars
  <1>1. ASSUME IInv, Next, pc = "scheduling", pc' = "dispatching"
        PROVE  \A t \in Tasks : mem'.tasks[t] = Decision(mem, t, mem'.tasks)
    <2>1. Schedule
      BY <1>1 DEF Next, Engine, Claim, SaveRecovery, Start, StartTask, NothingReady, Finalize,
                  TaskCompletes, ReadinessAssessed, AnalysisCompletes, ReviewDecides,
                  ReportRevised, Finalized, TaskPauses, TaskFails, Executing, AbandonTask,
                  Checkpoint, GateCheckpoint, ResumeTask, SettlePaused, Crash, Forget
    <2>2. template \in Templates /\ mem \in WorkflowState /\ Schedulable(mem)
      BY <1>1, <2>1 DEF IInv, TypeOK, Schedule, Forget
    <2>3. PICK D \in SUBSET Tasks :
              /\ Doomed(mem, D)
              /\ mem' = [mem EXCEPT !.tasks = [t \in Tasks |-> Planned(mem, t, D)]]
      BY <1>1, <2>1 DEF Schedule, Forget
    <2>4. mem'.tasks = [t \in Tasks |-> Planned(mem, t, D)]
      BY <2>2, <2>3 DEF WorkflowState
    <2>5. mem'.tasks \in [Tasks -> TaskStatus]
      BY <2>2, <2>4 DEF WorkflowState, Planned, TaskStatus
    <2> DEFINE planned == mem'.tasks
    <2> HIDE DEF planned
    <2>6. \A t \in Tasks : planned[t] = Decision(mem, t, planned)
      BY <2>2, <2>3, <2>4, <2>5, PassPlans DEF planned
    <2> QED
      BY <2>6 DEF planned
  <1>2. IInv /\ [Next]_vars => [PassFollowsDecisions]_vars
    BY <1>1 DEF PassFollowsDecisions
  <1> QED
    BY <1>2, IInvHolds, PTL DEF Spec
===============================================================================
