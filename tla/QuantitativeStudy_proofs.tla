----------------------- MODULE QuantitativeStudy_proofs ------------------------
(***************************************************************************)
(* That the stages work on authorized data, and the paid pipeline is       *)
(* dispatched once at most, for any number of operators, datasets and      *)
(* operations out of order.                                                *)
(***************************************************************************)
EXTENDS QuantitativeStudy, TLAPS

\* QC and weights of a study are those of its dataset.
StudyOK(s) == s.qc \in {None, s.dataset} /\ s.weights \in {None, s.dataset}

\* A safe state in a run was authorized.  A run pauses for its set-up or before its
\* Findings, and only there can it have lost its safe state.
RunOK(r) ==
    /\ r.results.safe # NoSafe => Authorized(r.results.safe)
    /\ r.status = "paused" => r.stage = IF r.boundary THEN "quant_findings" ELSE "setup"
    /\ r.status = "running" /\ ~r.boundary /\ r.results.safe = NoSafe =>
          r.stage = "quant_findings"

\* Past its Findings a run has the authority that was granted, and it was consumed.
PaidFor(r, granted, used) ==
    r.stage \in {"report", "over"} => used /\ granted = {r.results.safe}

\* What an operation may rely on between its steps.
OperationOK(o) ==
    /\ StudyOK(seen[o])
    /\ RunOK(held[o]) /\ held[o].status = "paused"
    /\ pc[o] = "resuming" => held[o].boundary
    /\ pc[o] \in {"checked", "binding", "bound", "activating"} =>
          SafeOf(seen[o]) \in Safe /\ Authorized(SafeOf(seen[o]))

\* A copy of the run that the worker goes on with.
Ours(m, granted, used) ==
    /\ m \in Run /\ RunOK(m) /\ PaidFor(m, granted, used)
    /\ m.status = "running" /\ ~m.boundary

\* What the worker may rely on.
WorkerOK ==
    /\ wpc # "idle" => Ours(mem, grants, consumed)
    /\ wpc = "paying" => /\ mem.stage = "quant_findings" /\ mem.results.safe.manifest
                         /\ mem.results.safe \in grants /\ consumed

PaidOnce ==
    /\ \A a, b \in grants : a = b
    /\ paid = IF consumed THEN 1 ELSE 0
    /\ consumed => grants # {}

StudyInv ==
    /\ TypeOK
    /\ StudyOK(study)
    /\ RunOK(run) /\ PaidFor(run, grants, consumed)
    /\ \A o \in Operators : OperationOK(o)
    /\ WorkerOK /\ PaidOnce
--------------------------------------------------------------------------------
(***************************************************************************)
(* Types of the values.                                                    *)
(***************************************************************************)
LEMMA NewValues ==
    /\ NewStudy \in Study /\ StudyOK(NewStudy)
    /\ NoResults \in Results /\ NoResults.safe = NoSafe
    /\ NewRun \in Run /\ RunOK(NewRun) /\ NewRun.status = "paused"
    /\ NewRun.stage = "setup" /\ ~NewRun.boundary
  BY DEF NewStudy, Study, StudyOK, StudyState, NoResults, Results, NewRun, Run, RunOK, Stage

LEMMA UploadedOK ==
    ASSUME NEW d \in Datasets
    PROVE  Uploaded(d) \in Study /\ StudyOK(Uploaded(d))
  BY DEF Uploaded, NewStudy, Study, StudyOK, StudyState

\* Whatever a set-up operation makes of a study is one.
LEMMA EditedOK ==
    ASSUME NEW s \in Study, StudyOK(s), NEW t \in Edited(s)
    PROVE  t \in Study /\ StudyOK(t)
  <1>1. ASSUME NEW d \in Datasets PROVE Cleaned(s, d) \in Study /\ StudyOK(Cleaned(s, d))
    BY DEF Cleaned, NewStudy, Study, StudyOK, StudyState
  <1>2. QualityControlled(s) \in Study /\ StudyOK(QualityControlled(s))
    BY DEF QualityControlled, Study, StudyOK, StudyState
  <1>3. ASSUME NEW ok \in BOOLEAN, s.qc # None
        PROVE  QcDecided(s, ok) \in Study /\ StudyOK(QcDecided(s, ok))
    <2>1. [of |-> s.qc, approved |-> ok] \in Approval
      BY <1>3 DEF Study, Approval
    <2> QED
      BY <2>1 DEF QcDecided, Study, StudyOK, StudyState
  <1>4. Weighted(s) \in Study /\ StudyOK(Weighted(s))
    BY DEF Weighted, Study, StudyOK, StudyState
  <1>5. ASSUME NEW ok \in BOOLEAN, s.weights # None
        PROVE  WeightsDecided(s, ok) \in Study /\ StudyOK(WeightsDecided(s, ok))
    <2>1. [of |-> s.weights, approved |-> ok] \in Approval
      BY <1>5 DEF Study, Approval
    <2> QED
      BY <2>1 DEF WeightsDecided, Study, StudyOK, StudyState
  <1>6. \/ \E d \in Datasets : t = Uploaded(d) \/ t = Cleaned(s, d)
        \/ t = QualityControlled(s) \/ t = Weighted(s)
        \/ \E ok \in BOOLEAN : \/ s.qc # None /\ t = QcDecided(s, ok)
                               \/ s.weights # None /\ t = WeightsDecided(s, ok)
    BY DEF Edited, HasWeights
  <1> QED
    BY <1>1, <1>2, <1>3, <1>4, <1>5, <1>6, UploadedOK

\* A study that may be activated is authorized.
LEMMA CheckedOK ==
    ASSUME NEW s \in Study, StudyOK(s), Current(s.qcApproval, s.qc),
           Current(s.weightApproval, s.weights)
    PROVE  SafeOf(s) \in Safe /\ Authorized(SafeOf(s))
  <1>1. s.qc = s.dataset /\ s.weights = s.dataset /\ s.dataset \in Datasets
    BY DEF Current, StudyOK, Study
  <1>2. ASSUME NEW a \in Approval \cup {NoApproval}, Current(a, s.dataset)
        PROVE  a \in Approval /\ a = [of |-> s.dataset, approved |-> TRUE]
    <2>1. a \in Approval
      BY <1>2 DEF Current, NoApproval
    <2>2. a.of = s.dataset /\ a.approved = TRUE
      BY <1>2, <2>1 DEF Current, Approval
    <2> QED
      BY <2>1, <2>2 DEF Approval
  <1>3. s.qcApproval \in Approval \cup {NoApproval} /\ s.weightApproval \in Approval \cup {NoApproval}
    BY DEF Study
  <1> QED
    BY <1>1, <1>2, <1>3 DEF SafeOf, Safe, Authorized

LEMMA SafeIsNotNoSafe == \A x \in Safe : x # NoSafe
  BY DEF Safe, NoSafe, Datasets, None
--------------------------------------------------------------------------------
(***************************************************************************)
(* The steps of an operator.                                               *)
(***************************************************************************)
\* The end of an operation.
LEMMA ReturnOK ==
    ASSUME StudyInv, NEW o \in Operators, Return(o)
    PROVE  /\ pc' \in [Operators -> Pc] /\ seen' \in [Operators -> Study]
           /\ held' \in [Operators -> Run]
           /\ \A q \in Operators : OperationOK(q)'
  <1>1. /\ pc \in [Operators -> Pc] /\ seen \in [Operators -> Study]
        /\ held \in [Operators -> Run]
        /\ pc' = [pc EXCEPT ![o] = "idle"] /\ seen' = [seen EXCEPT ![o] = NewStudy]
        /\ held' = [held EXCEPT ![o] = NewRun]
    BY DEF StudyInv, TypeOK, Return
  <1>2. pc' \in [Operators -> Pc] /\ seen' \in [Operators -> Study] /\ held' \in [Operators -> Run]
    BY <1>1, NewValues DEF Pc
  <1>3. ASSUME NEW q \in Operators PROVE OperationOK(q)'
    <2>1. CASE q = o
      BY <1>1, <2>1, NewValues DEF OperationOK
    <2>2. CASE q # o
      <3>1. pc'[q] = pc[q] /\ seen'[q] = seen[q] /\ held'[q] = held[q]
        BY <1>1, <2>2
      <3> QED
        BY <3>1 DEF StudyInv, OperationOK
    <2> QED
      BY <2>1, <2>2
  <1> QED
    BY <1>2, <1>3

\* An operator goes on with the study st and the copy h of the run.
LEMMA GoOnOK ==
    ASSUME StudyInv, NEW o \in Operators, NEW st \in Study, NEW h \in Run, NEW l \in Pc,
           pc' = [pc EXCEPT ![o] = l], seen' = [seen EXCEPT ![o] = st],
           held' = [held EXCEPT ![o] = h],
           StudyOK(st), RunOK(h), h.status = "paused", l = "resuming" => h.boundary,
           l \in {"checked", "binding", "bound", "activating"} =>
               SafeOf(st) \in Safe /\ Authorized(SafeOf(st))
    PROVE  /\ pc' \in [Operators -> Pc] /\ seen' \in [Operators -> Study]
           /\ held' \in [Operators -> Run]
           /\ \A q \in Operators : OperationOK(q)'
  <1>1. pc \in [Operators -> Pc] /\ seen \in [Operators -> Study] /\ held \in [Operators -> Run]
    BY DEF StudyInv, TypeOK
  <1>2. pc' \in [Operators -> Pc] /\ seen' \in [Operators -> Study] /\ held' \in [Operators -> Run]
    BY <1>1
  <1>3. ASSUME NEW q \in Operators PROVE OperationOK(q)'
    <2>1. CASE q = o
      <3>1. pc'[q] = l /\ seen'[q] = st /\ held'[q] = h
        BY <1>1, <2>1
      <3> QED
        BY <3>1 DEF OperationOK
    <2>2. CASE q # o
      <3>1. pc'[q] = pc[q] /\ seen'[q] = seen[q] /\ held'[q] = held[q]
        BY <1>1, <2>2
      <3> QED
        BY <3>1 DEF StudyInv, OperationOK
    <2> QED
      BY <2>1, <2>2
  <1> QED
    BY <1>2, <1>3

\* A grant that was consumed is the only one, and stays.
LEMMA GrantStays ==
    ASSUME PaidOnce, NEW x, grants \subseteq {x}, consumed, NEW r, PaidFor(r, grants, consumed)
    PROVE  PaidFor(r, {x}, consumed)
  BY DEF PaidOnce, PaidFor

\* What remains to be shown of a step of an operator.
LEMMA OperatorStep ==
    ASSUME StudyInv,
           pc' \in [Operators -> Pc] /\ seen' \in [Operators -> Study]
               /\ held' \in [Operators -> Run] /\ \A q \in Operators : OperationOK(q)',
           study' \in Study, StudyOK(study'),
           run' \in Run, RunOK(run'), PaidFor(run', grants, consumed),
           current' \subseteq Operators \cup {Worker}, rearmEvent' \in BOOLEAN,
           accidents' \in 0..MaxAccidents,
           UNCHANGED workerVars,
           UNCHANGED <<grants, consumed, paid, analysed>>
    PROVE  StudyInv'
  <1>1. TypeOK'
    BY DEF StudyInv, TypeOK, workerVars
  <1>2. WorkerOK' /\ PaidOnce'
    BY DEF StudyInv, WorkerOK, PaidOnce, workerVars
  <1> QED
    BY <1>1, <1>2 DEF StudyInv

LEMMA StateFacts ==
    ASSUME StudyInv
    PROVE  /\ study \in Study /\ StudyOK(study)
           /\ run \in Run /\ RunOK(run) /\ PaidFor(run, grants, consumed)
           /\ current \subseteq Operators \cup {Worker}
           /\ pc \in [Operators -> Pc] /\ seen \in [Operators -> Study]
           /\ held \in [Operators -> Run]
           /\ rearmEvent \in BOOLEAN /\ accidents \in 0..MaxAccidents
           /\ \A o \in Operators : OperationOK(o)
  BY DEF StudyInv, TypeOK

LEMMA HappensOK ==
    ASSUME StudyInv, NEW b \in BOOLEAN, Happens(b)
    PROVE  accidents' \in 0..MaxAccidents
  BY StateFacts, BoundsAssumption DEF Happens

LEMMA EditStep ==
    ASSUME StudyInv, NEW o \in Operators, Edit(o)
    PROVE  StudyInv'
  <1>1. PICK s \in Edited(study) : seen' = [seen EXCEPT ![o] = s]
    BY DEF Edit
  <1>2. s \in Study /\ StudyOK(s)
    BY StateFacts, EditedOK
  <1>3. /\ pc' = [pc EXCEPT ![o] = "editing"] /\ held' = [held EXCEPT ![o] = held[o]]
        /\ held[o] \in Run /\ RunOK(held[o]) /\ held[o].status = "paused"
    BY StateFacts DEF Edit, OperationOK
  <1>4. "editing" \in Pc
    BY DEF Pc
  <1>5. /\ pc' \in [Operators -> Pc] /\ seen' \in [Operators -> Study]
        /\ held' \in [Operators -> Run] /\ \A q \in Operators : OperationOK(q)'
    BY <1>1, <1>2, <1>3, <1>4, GoOnOK
  <1> QED
    BY <1>5, StateFacts, OperatorStep DEF Edit, semanticVars

\* SaveEdit, SaveAnalyzing, SaveRearmed, ActivationRefused and Interrupt
LEMMA ReturnStep ==
    ASSUME StudyInv, NEW o \in Operators,
           \/ SaveEdit(o) \/ SaveAnalyzing(o) \/ SaveRearmed(o)
           \/ ActivationRefused(o) \/ Interrupt(o)
    PROVE  StudyInv'
  <1>1. /\ Return(o) /\ study' \in {study, seen[o]}
        /\ run' = run /\ current' \subseteq current
        /\ UNCHANGED <<workerVars, semanticVars, rearmEvent, accidents>>
    BY DEF SaveEdit, SaveAnalyzing, SaveRearmed, ActivationRefused, Interrupt
  <1>2. study' \in Study /\ StudyOK(study')
    BY <1>1, StateFacts DEF OperationOK
  <1>3. /\ pc' \in [Operators -> Pc] /\ seen' \in [Operators -> Study]
        /\ held' \in [Operators -> Run] /\ \A q \in Operators : OperationOK(q)'
    BY <1>1, ReturnOK
  <1> QED
    BY <1>1, <1>2, <1>3, StateFacts, OperatorStep DEF semanticVars

LEMMA CheckActivationStep ==
    ASSUME StudyInv, NEW o \in Operators, CheckActivation(o)
    PROVE  StudyInv'
  <1> DEFINE s == [study EXCEPT !.state = "ANALYZING"]
  <1>1. s \in Study /\ StudyOK(s)
    BY StateFacts DEF Study, StudyOK, StudyState
  <1>2. SafeOf(s) = SafeOf(study)
    BY StateFacts DEF SafeOf, Study
  <1>3. SafeOf(study) \in Safe /\ Authorized(SafeOf(study))
    BY StateFacts, CheckedOK DEF CheckActivation
  <1>4. /\ pc' = [pc EXCEPT ![o] = "checked"] /\ seen' = [seen EXCEPT ![o] = s]
        /\ held' = [held EXCEPT ![o] = run] /\ run.status = "paused" /\ "checked" \in Pc
    BY DEF CheckActivation, Load, Pc
  <1> HIDE DEF s
  <1>5. /\ pc' \in [Operators -> Pc] /\ seen' \in [Operators -> Study]
        /\ held' \in [Operators -> Run] /\ \A q \in Operators : OperationOK(q)'
    BY <1>1, <1>2, <1>3, <1>4, StateFacts, GoOnOK
  <1> QED
    BY <1>5, StateFacts, OperatorStep DEF CheckActivation, Load, semanticVars

\* An operator reads the run or its results and goes on.
LEMMA LoadStep ==
    ASSUME StudyInv, NEW o \in Operators, ReadResults(o) \/ LoadPaused(o) \/ LoadBoundary(o)
    PROVE  StudyInv'
  <1>1. /\ seen[o] \in Study /\ StudyOK(seen[o]) /\ RunOK(held[o]) /\ held[o] \in Run
        /\ held[o].status = "paused" /\ run \in Run /\ RunOK(run)
        /\ pc[o] \in {"checked", "bound"} =>
              SafeOf(seen[o]) \in Safe /\ Authorized(SafeOf(seen[o]))
    BY StateFacts DEF OperationOK
  <1>2. /\ UNCHANGED <<study, run, workerVars, semanticVars, rearmEvent, accidents>>
        /\ current' \in {current, current \cup {o}}
    BY DEF ReadResults, LoadPaused, LoadBoundary, Load
  <1>3. seen' = [seen EXCEPT ![o] = seen[o]] \/ Return(o)
    BY StateFacts DEF ReadResults, LoadPaused, LoadBoundary
  <1>4. CASE ReadResults(o)
    <2> DEFINE h == [held[o] EXCEPT !.results = run.results]
    <2>1. h \in Run /\ RunOK(h) /\ h.status = "paused"
      BY <1>1 DEF Run, RunOK
    <2>2. /\ pc' = [pc EXCEPT ![o] = "binding"] /\ held' = [held EXCEPT ![o] = h]
          /\ seen' = [seen EXCEPT ![o] = seen[o]] /\ pc[o] = "checked" /\ "binding" \in Pc
      BY <1>4, StateFacts DEF ReadResults, Pc
    <2> HIDE DEF h
    <2>3. /\ pc' \in [Operators -> Pc] /\ seen' \in [Operators -> Study]
          /\ held' \in [Operators -> Run] /\ \A q \in Operators : OperationOK(q)'
      BY <1>1, <2>1, <2>2, GoOnOK
    <2> QED
      BY <1>2, <2>3, StateFacts, OperatorStep DEF semanticVars
  <1>5. CASE LoadPaused(o)
    <2>1. /\ pc' = [pc EXCEPT ![o] = "activating"] /\ held' = [held EXCEPT ![o] = run]
          /\ seen' = [seen EXCEPT ![o] = seen[o]] /\ pc[o] = "bound"
          /\ run.status = "paused" /\ "activating" \in Pc
      BY <1>5, StateFacts DEF LoadPaused, Load, Pc
    <2>2. /\ pc' \in [Operators -> Pc] /\ seen' \in [Operators -> Study]
          /\ held' \in [Operators -> Run] /\ \A q \in Operators : OperationOK(q)'
      BY <1>1, <2>1, GoOnOK
    <2> QED
      BY <1>2, <2>2, StateFacts, OperatorStep DEF semanticVars
  <1>6. CASE LoadBoundary(o) /\ run.status = "paused" /\ run.boundary
    <2>1. /\ pc' = [pc EXCEPT ![o] = "resuming"] /\ held' = [held EXCEPT ![o] = run]
          /\ seen' = [seen EXCEPT ![o] = seen[o]] /\ "resuming" \in Pc
      BY <1>6, StateFacts DEF LoadBoundary, Load, Pc
    <2>2. /\ pc' \in [Operators -> Pc] /\ seen' \in [Operators -> Study]
          /\ held' \in [Operators -> Run] /\ \A q \in Operators : OperationOK(q)'
      BY <1>1, <1>6, <2>1, GoOnOK
    <2> QED
      BY <1>2, <2>2, StateFacts, OperatorStep DEF semanticVars
  <1>7. CASE LoadBoundary(o) /\ ~(run.status = "paused" /\ run.boundary)
    <2>1. Return(o)
      BY <1>7 DEF LoadBoundary
    <2> QED
      BY <1>2, <2>1, ReturnOK, StateFacts, OperatorStep DEF semanticVars
  <1> QED
    BY <1>4, <1>5, <1>6, <1>7

\* An operator writes the run and goes on with the study it has in its hands.
LEMMA StoreStep ==
    ASSUME StudyInv, NEW o \in Operators, NEW r \in Run, NEW l \in Pc \ {"resuming"},
           NEW b \in BOOLEAN, Store(o, r, l), Happens(b),
           UNCHANGED <<study, workerVars, semanticVars, rearmEvent>>,
           RunOK(r), PaidFor(r, grants, consumed),
           l \in {"checked", "binding", "bound", "activating"} =>
               SafeOf(seen[o]) \in Safe /\ Authorized(SafeOf(seen[o]))
    PROVE  StudyInv'
  <1>1. /\ run' = r /\ current' = {} /\ pc' = [pc EXCEPT ![o] = l]
        /\ held' = [held EXCEPT ![o] = NewRun] /\ seen' = [seen EXCEPT ![o] = seen[o]]
        /\ seen[o] \in Study /\ StudyOK(seen[o])
    BY StateFacts DEF Store, WriteRun, OperationOK
  <1>2. /\ pc' \in [Operators -> Pc] /\ seen' \in [Operators -> Study]
        /\ held' \in [Operators -> Run] /\ \A q \in Operators : OperationOK(q)'
    BY <1>1, NewValues, GoOnOK
  <1>3. accidents' \in 0..MaxAccidents
    BY HappensOK
  <1> QED
    BY <1>1, <1>2, <1>3, StateFacts, OperatorStep DEF semanticVars

LEMMA BindStep ==
    ASSUME StudyInv, NEW o \in Operators, Bind(o)
    PROVE  StudyInv'
  <1> DEFINE r == [held[o] EXCEPT !.results.bound = TRUE]
  <1>1. /\ held[o] \in Run /\ RunOK(held[o]) /\ held[o].status = "paused" /\ pc[o] = "binding"
        /\ SafeOf(seen[o]) \in Safe /\ Authorized(SafeOf(seen[o]))
    BY StateFacts DEF Bind, OperationOK
  <1>2. r \in Run /\ RunOK(r) /\ PaidFor(r, grants, consumed)
    BY <1>1 DEF Run, Results, RunOK, PaidFor
  <1>3. Store(o, r, "bound") /\ Happens(o \notin current) /\ "bound" \in Pc \ {"resuming"}
        /\ UNCHANGED <<study, workerVars, semanticVars, rearmEvent>>
    BY DEF Bind, Pc
  <1> HIDE DEF r
  <1> QED
    BY <1>1, <1>2, <1>3, StoreStep

\* What an activation makes of the run it loaded.
Activated(o) ==
    IF held[o].stage = "setup"
    THEN [held[o] EXCEPT !.status = "running", !.stage = "quant_weight_approval",
                         !.results = [NoResults EXCEPT !.safe = SafeOf(seen[o])]]
    ELSE [held[o] EXCEPT !.status = "running", !.results = NoResults]

LEMMA ActivatedOK ==
    ASSUME StudyInv, NEW o \in Operators, pc[o] = "activating"
    PROVE  /\ Activated(o) \in Run /\ RunOK(Activated(o))
           /\ PaidFor(Activated(o), grants, consumed)
           /\ Activated(o).status = "running"
           /\ ~held[o].boundary => Steady(Activated(o))
  <1>1. /\ held[o] \in Run /\ RunOK(held[o]) /\ held[o].status = "paused"
        /\ SafeOf(seen[o]) \in Safe /\ Authorized(SafeOf(seen[o]))
    BY StateFacts DEF OperationOK
  <1>2. CASE held[o].stage = "setup"
    <2> DEFINE results == [NoResults EXCEPT !.safe = SafeOf(seen[o])]
    <2>1. results \in Results /\ results.safe = SafeOf(seen[o])
      BY <1>1, NewValues DEF Results
    <2>2. SafeOf(seen[o]) # NoSafe /\ ~held[o].boundary
      BY <1>1, <1>2, SafeIsNotNoSafe DEF RunOK
    <2>3. Activated(o) = [held[o] EXCEPT !.status = "running", !.results = results,
                                         !.stage = "quant_weight_approval"]
      BY <1>1, <1>2 DEF Activated, Run
    <2> HIDE DEF results
    <2> QED
      BY <1>1, <2>1, <2>2, <2>3 DEF Run, Stage, RunOK, PaidFor, Steady
  <1>3. CASE held[o].stage # "setup"
    <2>1. Activated(o) = [held[o] EXCEPT !.status = "running", !.results = NoResults]
      BY <1>3 DEF Activated
    <2>2. held[o].boundary /\ held[o].stage = "quant_findings"
      BY <1>1, <1>3 DEF RunOK, Run
    <2> QED
      BY <1>1, <2>1, <2>2, NewValues DEF Run, RunOK, PaidFor
  <1> QED
    BY <1>2, <1>3

LEMMA ActivateStep ==
    ASSUME StudyInv, NEW o \in Operators, Activate(o)
    PROVE  StudyInv'
  <1>1. /\ pc[o] = "activating" /\ Store(o, Activated(o), "activated")
        /\ Happens(o \notin current \/ held[o].boundary)
        /\ UNCHANGED <<study, workerVars, semanticVars, rearmEvent>>
    BY DEF Activate, Activated
  <1>2. (o \notin current \/ held[o].boundary) \in BOOLEAN
    BY StateFacts DEF Run
  <1>3. /\ Activated(o) \in Run /\ RunOK(Activated(o)) /\ PaidFor(Activated(o), grants, consumed)
        /\ "activated" \in Pc \ {"resuming", "checked", "binding", "bound", "activating"}
    BY <1>1, ActivatedOK DEF Pc
  <1> QED
    BY <1>1, <1>2, <1>3, StoreStep

\* What a resumption makes of the run it loaded.
Resumed(o) ==
    [held[o] EXCEPT !.status = "running", !.boundary = FALSE, !.results = run.results]

LEMMA ResumePausedTaskStep ==
    ASSUME StudyInv, NEW o \in Operators, ResumePausedTask(o)
    PROVE  StudyInv'
  <1>1. /\ pc[o] = "resuming" /\ Store(o, Resumed(o), "resumed") /\ Happens(o \notin current)
        /\ UNCHANGED <<study, workerVars, semanticVars, rearmEvent>>
        /\ "resumed" \in Pc \ {"resuming", "checked", "binding", "bound", "activating"}
    BY DEF ResumePausedTask, Resumed, Pc
  <1>2. /\ held[o] \in Run /\ held[o].stage = "quant_findings" /\ run \in Run /\ RunOK(run)
    BY <1>1, StateFacts DEF OperationOK, RunOK
  <1>3. Resumed(o) \in Run /\ RunOK(Resumed(o)) /\ PaidFor(Resumed(o), grants, consumed)
    BY <1>2 DEF Resumed, Run, RunOK, PaidFor
  <1> QED
    BY <1>1, <1>3, StoreStep

LEMMA GrantStep ==
    ASSUME StudyInv, NEW o \in Operators, Grant(o)
    PROVE  StudyInv'
  <1> DEFINE s == [study EXCEPT !.state = "ANALYZING"]
  <1>1. s \in Study /\ StudyOK(s)
    BY StateFacts DEF Study, StudyOK, StudyState
  <1>2. /\ pc' = [pc EXCEPT ![o] = "granted"] /\ seen' = [seen EXCEPT ![o] = s]
        /\ held' = [held EXCEPT ![o] = held[o]] /\ "granted" \in Pc
        /\ held[o] \in Run /\ RunOK(held[o]) /\ held[o].status = "paused"
    BY StateFacts DEF Grant, Pc, OperationOK
  <1> HIDE DEF s
  <1>3. /\ pc' \in [Operators -> Pc] /\ seen' \in [Operators -> Study]
        /\ held' \in [Operators -> Run] /\ \A q \in Operators : OperationOK(q)'
    BY <1>1, <1>2, GoOnOK
  <1>4. /\ grants \subseteq {run.results.safe} /\ grants' = {run.results.safe}
        /\ UNCHANGED <<study, run, current, wpc, mem, consumed, paid, analysed, rearmEvent,
                        accidents>>
    BY DEF Grant, workerVars
  <1>5. run.results.safe \in Safe \cup {NoSafe}
    BY StateFacts DEF Run, Results
  <1>6. ASSUME NEW r, PaidFor(r, grants, consumed)
        PROVE  PaidFor(r, grants', consumed)
    BY <1>4, <1>6, GrantStays DEF StudyInv, PaidFor
  <1>7. TypeOK'
    BY <1>3, <1>4, <1>5 DEF StudyInv, TypeOK
  <1>8. WorkerOK'
    BY <1>4, <1>6 DEF StudyInv, WorkerOK, Ours
  <1>9. PaidOnce'
    BY <1>4 DEF StudyInv, PaidOnce
  <1> QED
    BY <1>3, <1>4, <1>6, <1>7, <1>8, <1>9 DEF StudyInv

LEMMA CheckRearmStep ==
    ASSUME StudyInv, NEW o \in Operators, CheckRearm(o)
    PROVE  StudyInv'
  <1> DEFINE s == IF study.dataset = None THEN NewStudy ELSE Uploaded(study.dataset)
  <1>1. s \in Study /\ StudyOK(s)
    BY StateFacts, NewValues, UploadedOK DEF Study
  <1>2. /\ pc' = [pc EXCEPT ![o] = "rearm"] /\ seen' = [seen EXCEPT ![o] = s]
        /\ held' = [held EXCEPT ![o] = held[o]] /\ "rearm" \in Pc
        /\ held[o] \in Run /\ RunOK(held[o]) /\ held[o].status = "paused"
    BY StateFacts DEF CheckRearm, Pc, OperationOK
  <1> HIDE DEF s
  <1>3. /\ pc' \in [Operators -> Pc] /\ seen' \in [Operators -> Study]
        /\ held' \in [Operators -> Run] /\ \A q \in Operators : OperationOK(q)'
    BY <1>1, <1>2, GoOnOK
  <1> QED
    BY <1>3, StateFacts, OperatorStep DEF CheckRearm, semanticVars

LEMMA RearmStep ==
    ASSUME StudyInv, NEW o \in Operators, Rearm(o) \/ RecordRearm(o)
    PROVE  StudyInv'
  <1>1. CASE Rearm(o)
    <2>1. /\ Store(o, NewRun, "rearming") /\ Happens(o \notin current)
          /\ UNCHANGED <<study, workerVars, semanticVars, rearmEvent>>
          /\ "rearming" \in Pc \ {"resuming", "checked", "binding", "bound", "activating"}
      BY <1>1 DEF Rearm, Pc
    <2>2. PaidFor(NewRun, grants, consumed)
      BY NewValues DEF PaidFor
    <2> QED
      BY <2>1, <2>2, NewValues, StoreStep
  <1>2. CASE RecordRearm(o)
    <2>1. /\ rearmEvent' = TRUE /\ pc' = [pc EXCEPT ![o] = "rearmed"]
          /\ UNCHANGED <<study, run, current, workerVars, semanticVars, accidents>>
          /\ seen' = [seen EXCEPT ![o] = seen[o]] /\ held' = [held EXCEPT ![o] = held[o]]
          /\ seen[o] \in Study /\ StudyOK(seen[o]) /\ held[o] \in Run /\ RunOK(held[o])
          /\ held[o].status = "paused" /\ "rearmed" \in Pc
      BY <1>2, StateFacts DEF RecordRearm, Goto, OperationOK, Pc
    <2>2. /\ pc' \in [Operators -> Pc] /\ seen' \in [Operators -> Study]
          /\ held' \in [Operators -> Run] /\ \A q \in Operators : OperationOK(q)'
      BY <2>1, GoOnOK
    <2> QED
      BY <2>1, <2>2, StateFacts, OperatorStep DEF semanticVars
  <1> QED
    BY <1>1, <1>2
--------------------------------------------------------------------------------
(***************************************************************************)
(* The steps of the worker.                                                *)
(***************************************************************************)
LEMMA WorkerStep ==
    ASSUME StudyInv, UNCHANGED <<study, operatorVars, rearmEvent, accidents, grants>>,
           run' \in Run, RunOK(run'), PaidFor(run', grants, consumed'),
           current' \subseteq Operators \cup {Worker},
           wpc' \in WorkerPc, mem' \in Run, wpc' # "idle" => Ours(mem', grants, consumed'),
           consumed' \in BOOLEAN, analysed' \in BOOLEAN, paid' \in Nat,
           paid' = IF consumed' THEN 1 ELSE 0, consumed' => grants # {},
           wpc' = "paying" => /\ mem'.stage = "quant_findings" /\ mem'.results.safe.manifest
                              /\ mem'.results.safe \in grants /\ consumed'
    PROVE  StudyInv'
  <1>1. TypeOK'
    BY DEF StudyInv, TypeOK, operatorVars
  <1>2. WorkerOK' /\ PaidOnce'
    BY DEF StudyInv, WorkerOK, PaidOnce
  <1>3. StudyOK(study') /\ \A o \in Operators : OperationOK(o)'
    BY DEF StudyInv, OperationOK, operatorVars
  <1> QED
    BY <1>1, <1>2, <1>3 DEF StudyInv

LEMMA WorkerFacts ==
    ASSUME StudyInv
    PROVE  /\ mem \in Run /\ wpc \in WorkerPc /\ paid \in Nat
           /\ consumed \in BOOLEAN /\ analysed \in BOOLEAN
           /\ paid = IF consumed THEN 1 ELSE 0
           /\ consumed => grants # {}
           /\ \A a, b \in grants : a = b
           /\ wpc = "paying" => /\ mem.stage = "quant_findings" /\ mem.results.safe.manifest
                                /\ mem.results.safe \in grants /\ consumed
           /\ wpc # "idle" => Ours(mem, grants, consumed)
  BY DEF StudyInv, TypeOK, WorkerOK, PaidOnce

\* A checkpoint of m, taken or refused.
LEMMA CheckpointOK ==
    ASSUME StudyInv, NEW m \in Run, RunOK(m), PaidFor(m, grants, consumed),
           NEW l \in {"idle", "between", "executing"},
           l # "idle" => Ours(m, grants, consumed), Checkpoint(m, l),
           UNCHANGED <<study, operatorVars, rearmEvent, accidents, grants, consumed, paid>>,
           analysed' \in BOOLEAN
    PROVE  StudyInv'
  <1>1. /\ run' \in Run /\ RunOK(run') /\ PaidFor(run', grants, consumed)
        /\ current' \subseteq Operators \cup {Worker}
    BY StateFacts DEF Checkpoint, WriteRun
  <1>2. /\ wpc' \in {"idle", l} /\ mem' \in {m, NewRun}
        /\ wpc' # "idle" => mem' = m /\ l # "idle"
    BY DEF Checkpoint, Idle
  <1>3. mem' \in Run /\ wpc' \in WorkerPc /\ wpc' # "paying"
    BY <1>2, NewValues DEF WorkerPc
  <1>4. /\ paid' \in Nat /\ consumed' \in BOOLEAN /\ paid' = IF consumed' THEN 1 ELSE 0
        /\ consumed' => grants # {}
    BY WorkerFacts
  <1>5. wpc' # "idle" => Ours(mem', grants, consumed')
    BY <1>2
  <1>6. PaidFor(run', grants, consumed')
    BY <1>1
  <1> QED
    BY <1>1, <1>3, <1>4, <1>5, <1>6, WorkerStep

LEMMA BegunOK ==
    ASSUME NEW m, NEW g, NEW c, Ours(m, g, c), NEW b \in BOOLEAN
    PROVE  Ours([m EXCEPT !.begun = b], g, c)
  BY DEF Ours, Run, RunOK, PaidFor

\* A stage is finished: only past the Findings without a safe state, which the
\* authority that was granted for them is then.
Finished(results, stage) ==
    [mem EXCEPT !.begun = FALSE, !.stage = stage, !.results = results,
                !.status = IF stage = "over" THEN "completed" ELSE @]

LEMMA FinishedOK ==
    ASSUME StudyInv, wpc # "idle", NEW stage \in Stage \ {"setup"}, NEW results \in Results,
           results.safe # NoSafe, Authorized(results.safe),
           stage \in {"report", "over"} => consumed /\ grants = {results.safe},
           Finish(results, stage),
           UNCHANGED <<study, operatorVars, rearmEvent, accidents, grants, consumed, paid>>,
           analysed' \in BOOLEAN
    PROVE  StudyInv'
  <1> DEFINE m == Finished(results, stage)
             l == IF stage = "over" THEN "idle" ELSE "between"
  <1>1. Ours(mem, grants, consumed)
    BY WorkerFacts
  <1>2. /\ m \in Run /\ m.results = results /\ m.stage = stage /\ m.boundary = FALSE
        /\ m.status = IF stage = "over" THEN "completed" ELSE "running"
    BY <1>1 DEF Ours, Run, Finished
  <1>3. Checkpoint(m, l) /\ l \in {"idle", "between", "executing"}
    BY DEF Finish, Finished
  <1> HIDE DEF m
  <1>4. RunOK(m) /\ PaidFor(m, grants, consumed) /\ (l # "idle" => Ours(m, grants, consumed))
    BY <1>2 DEF RunOK, PaidFor, Ours
  <1> HIDE DEF l
  <1> QED
    BY <1>2, <1>3, <1>4, CheckpointOK

\* The worker stops and leaves the run with this status.
LEMMA StoppedOK ==
    ASSUME StudyInv, wpc # "idle", NEW m \in Run, RunOK(m), m.stage = mem.stage,
           m.results.safe = mem.results.safe, Checkpoint(m, "idle"),
           UNCHANGED <<study, operatorVars, semanticVars, rearmEvent, accidents>>
    PROVE  StudyInv'
  <1>1. PaidFor(m, grants, consumed)
    BY WorkerFacts DEF Ours, PaidFor
  <1> QED
    BY <1>1, WorkerFacts, CheckpointOK DEF semanticVars

\* The worker reads the run, and its version.
LEMMA ReadStep ==
    ASSUME StudyInv, LoadRun \/ ReadVersion
    PROVE  StudyInv'
  <1>1. CASE LoadRun
    <2>1. Ours(run, grants, consumed)
      BY <1>1, StateFacts DEF LoadRun, Ours
    <2>2. /\ mem' = run /\ wpc' = "loading" /\ current' = current
          /\ UNCHANGED <<study, operatorVars, rearmEvent, accidents, run, consumed, analysed,
                         paid, grants>>
      BY <1>1 DEF LoadRun, semanticVars
    <2> QED
      BY <2>1, <2>2, StateFacts, WorkerFacts, WorkerStep DEF WorkerPc
  <1>2. CASE ReadVersion
    <2>1. Ours([mem EXCEPT !.begun = FALSE], grants, consumed)
      BY <1>2, WorkerFacts, BegunOK DEF ReadVersion
    <2>2. /\ mem' = [mem EXCEPT !.begun = FALSE] /\ wpc' = "between"
          /\ current' = current \cup {Worker}
          /\ UNCHANGED <<study, operatorVars, rearmEvent, accidents, run, consumed, analysed,
                         paid, grants>>
      BY <1>2 DEF ReadVersion, semanticVars
    <2>3. Ours(mem', grants, consumed') /\ mem' \in Run
      BY <2>1, <2>2 DEF Ours
    <2> QED
      BY <2>2, <2>3, StateFacts, WorkerFacts, WorkerStep DEF WorkerPc
  <1> QED
    BY <1>1, <1>2

LEMMA FailInterruptedStep ==
    ASSUME StudyInv, FailInterrupted
    PROVE  StudyInv'
  <1> DEFINE m == [mem EXCEPT !.status = "failed", !.begun = FALSE]
  <1>1. Ours(mem, grants, consumed)
    BY WorkerFacts DEF FailInterrupted
  <1>2. m \in Run /\ RunOK(m) /\ PaidFor(m, grants, consumed)
    BY <1>1 DEF Ours, Run, RunOK, PaidFor
  <1>3. /\ run' = m /\ current' = {} /\ wpc' = "idle" /\ mem' = NewRun
        /\ UNCHANGED <<study, operatorVars, rearmEvent, accidents, consumed, analysed, paid,
                       grants>>
    BY DEF FailInterrupted, WriteRun, Idle, semanticVars
  <1> HIDE DEF m
  <1> QED
    BY <1>2, <1>3, NewValues, WorkerFacts, WorkerStep DEF WorkerPc

\* A stage other than the Findings has its safe state.
LEMMA StageHasSafe ==
    ASSUME NEW m, NEW g, NEW c, Ours(m, g, c), m.stage # "quant_findings"
    PROVE  m.results.safe # NoSafe /\ Authorized(m.results.safe)
  BY DEF Ours, RunOK

LEMMA StageStep ==
    ASSUME StudyInv, ApproveWeights \/ Analyse \/ FindingsGenerated \/ Report
    PROVE  StudyInv'
  <1>1. wpc # "idle" /\ Ours(mem, grants, consumed) /\ mem.results \in Results
    BY WorkerFacts DEF ApproveWeights, Analyse, FindingsGenerated, Report, Ours, Run
  <1>2. CASE ApproveWeights
    <2>1. mem.results.safe # NoSafe /\ Authorized(mem.results.safe)
      BY <1>1, <1>2, StageHasSafe DEF ApproveWeights
    <2> QED
      BY <1>1, <1>2, <2>1, WorkerFacts, FinishedOK DEF ApproveWeights, semanticVars, Stage
  <1>3. CASE Analyse
    <2> DEFINE results == [mem.results EXCEPT !.safe.manifest = TRUE]
    <2>1. mem.results.safe # NoSafe /\ Authorized(mem.results.safe)
      BY <1>1, <1>3, StageHasSafe DEF Analyse
    <2>2. /\ results \in Results /\ results.safe \in Safe
          /\ results.safe = [mem.results.safe EXCEPT !.manifest = TRUE]
      BY <1>1, <2>1 DEF Results, Safe
    <2>3. results.safe # NoSafe /\ Authorized(results.safe)
      BY <1>1, <2>1, <2>2, SafeIsNotNoSafe DEF Results, Safe, Authorized
    <2>4. Finish(results, "quant_findings") /\ analysed' \in BOOLEAN
      BY <1>3 DEF Analyse
    <2> HIDE DEF results
    <2> QED
      BY <1>1, <1>3, <2>2, <2>3, <2>4, FinishedOK DEF Analyse, Stage
  <1>4. CASE FindingsGenerated
    <2>1. /\ mem.results.safe \in Safe \cup {NoSafe} /\ mem.results.safe.manifest
          /\ grants = {mem.results.safe} /\ consumed
      BY <1>1, <1>4, WorkerFacts DEF FindingsGenerated, Results
    <2>2. mem.results.safe # NoSafe
      BY <2>1 DEF NoSafe
    <2>3. Authorized(mem.results.safe)
      BY <1>1, <2>2 DEF Ours, RunOK
    <2> QED
      BY <1>1, <1>4, <2>1, <2>2, <2>3, WorkerFacts, FinishedOK
         DEF FindingsGenerated, semanticVars, Stage
  <1>5. CASE Report
    <2>1. mem.results.safe # NoSafe /\ Authorized(mem.results.safe)
      BY <1>1, <1>5, StageHasSafe DEF Report
    <2>2. consumed /\ grants = {mem.results.safe}
      BY <1>1, <1>5 DEF Ours, PaidFor, Report
    <2> QED
      BY <1>1, <1>5, <2>1, <2>2, WorkerFacts, FinishedOK DEF Report, semanticVars, Stage
  <1> QED
    BY <1>2, <1>3, <1>4, <1>5

LEMMA WorkStep == StudyInv /\ Work => StudyInv'
  <1> SUFFICES ASSUME StudyInv, Work PROVE StudyInv'
    OBVIOUS
  <1>1. CASE FindNothing
    <2>1. /\ run' = run /\ current' = {}
          /\ UNCHANGED <<study, operatorVars, rearmEvent, accidents, wpc, mem, consumed,
                         analysed, paid, grants>>
      BY <1>1 DEF FindNothing, WriteRun, semanticVars, workerVars
    <2> QED
      BY <2>1, StateFacts, WorkerFacts, WorkerStep
  <1>2. CASE BeginStage
    <2>1. Ours(mem, grants, consumed) /\ Checkpoint([mem EXCEPT !.begun = TRUE], "executing")
      BY <1>2, WorkerFacts DEF BeginStage
    <2>2. Ours([mem EXCEPT !.begun = TRUE], grants, consumed)
      BY <2>1, BegunOK
    <2> QED
      BY <1>2, <2>1, <2>2, WorkerFacts, CheckpointOK DEF BeginStage, semanticVars, Ours
  <1>3. CASE PauseForGrant
    <2> DEFINE m == [mem EXCEPT !.status = "paused", !.begun = FALSE, !.boundary = TRUE,
                                !.results.pause = TRUE]
    <2>1. /\ Ours(mem, grants, consumed) /\ Checkpoint(m, "idle") /\ wpc # "idle"
          /\ mem.stage = "quant_findings"
      BY <1>3, WorkerFacts DEF PauseForGrant
    <2>2. /\ m \in Run /\ RunOK(m) /\ m.stage = mem.stage
          /\ m.results.safe = mem.results.safe
      BY <2>1 DEF Ours, Run, Results, RunOK
    <2> HIDE DEF m
    <2> QED
      BY <1>3, <2>1, <2>2, StoppedOK DEF PauseForGrant
  <1>4. CASE StageFails
    <2> DEFINE m == [mem EXCEPT !.status = "failed", !.begun = FALSE]
    <2>1. Ours(mem, grants, consumed) /\ Checkpoint(m, "idle") /\ wpc # "idle"
      BY <1>4, WorkerFacts DEF StageFails
    <2>2. /\ m \in Run /\ RunOK(m) /\ m.stage = mem.stage
          /\ m.results.safe = mem.results.safe
      BY <2>1 DEF Ours, Run, RunOK
    <2> HIDE DEF m
    <2> QED
      BY <1>4, <2>1, <2>2, StoppedOK DEF StageFails
  <1>5. CASE Consume
    <2>1. /\ consumed' = TRUE /\ paid' = paid + 1 /\ ~consumed /\ wpc' = "paying"
          /\ mem.results.safe \in grants /\ mem.results.safe.manifest /\ wpc # "idle"
          /\ mem.stage = "quant_findings"
          /\ UNCHANGED <<study, run, current, operatorVars, mem, grants, analysed, rearmEvent,
                         accidents>>
      BY <1>5 DEF Consume
    <2>2. consumed' \in BOOLEAN /\ paid' = 1 /\ Ours(mem, grants, consumed)
      BY <2>1, WorkerFacts
    <2>3. Ours(mem', grants, consumed') /\ PaidFor(run', grants, consumed')
      BY <2>1, <2>2, StateFacts DEF Ours, PaidFor
    <2> QED
      BY <2>1, <2>2, <2>3, StateFacts, WorkerFacts, WorkerStep DEF WorkerPc
  <1>6. CASE WorkerDies
    <2>1. /\ wpc' = "idle" /\ mem' = NewRun /\ current' \subseteq current
          /\ UNCHANGED <<study, run, operatorVars, rearmEvent, accidents, consumed, analysed,
                         paid, grants>>
      BY <1>6 DEF WorkerDies, Idle, semanticVars
    <2> QED
      BY <2>1, NewValues, StateFacts, WorkerFacts, WorkerStep DEF WorkerPc
  <1> QED
    BY <1>1, <1>2, <1>3, <1>4, <1>5, <1>6, ReadStep, FailInterruptedStep, StageStep DEF Work
--------------------------------------------------------------------------------
LEMMA InitInv == Init => StudyInv
  <1> SUFFICES ASSUME Init PROVE StudyInv
    OBVIOUS
  <1>1. /\ study = NewStudy /\ run = NewRun /\ mem = NewRun
        /\ pc \in [Operators -> Pc] /\ seen \in [Operators -> Study] /\ held \in [Operators -> Run]
    BY NewValues DEF Init, Pc
  <1>2. {consumed, analysed, rearmEvent} \subseteq BOOLEAN
    BY DEF Init
  <1>3. TypeOK
    BY <1>1, <1>2, NewValues, BoundsAssumption DEF Init, TypeOK, WorkerPc
  <1>4. \A o \in Operators : OperationOK(o)
    BY NewValues DEF Init, OperationOK
  <1>5. PaidOnce
    BY DEF Init, PaidOnce
  <1> QED
    BY <1>1, <1>3, <1>4, <1>5, NewValues DEF Init, StudyInv, WorkerOK, PaidFor

LEMMA NextInv == StudyInv /\ [Next]_vars => StudyInv'
  <1> SUFFICES ASSUME StudyInv, [Next]_vars PROVE StudyInv'
    OBVIOUS
  <1>1. CASE UNCHANGED vars
    <2>1. UNCHANGED <<study, run, current, pc, seen, held, wpc, mem, grants, consumed, paid,
                      analysed, rearmEvent, accidents>>
      BY <1>1 DEF vars
    <2>2. TypeOK'
      BY <2>1 DEF StudyInv, TypeOK
    <2> QED
      BY <2>1, <2>2 DEF StudyInv, OperationOK, WorkerOK, PaidOnce
  <1>2. ASSUME NEW o \in Operators, Operate(o) PROVE StudyInv'
    BY <1>2, EditStep, ReturnStep, CheckActivationStep, LoadStep, BindStep, ActivateStep,
       GrantStep, ResumePausedTaskStep, CheckRearmStep, RearmStep DEF Operate
  <1>3. CASE Complete
    <2> DEFINE s == [study EXCEPT !.state = "COMPLETED"]
    <2>1. s \in Study /\ StudyOK(s)
      BY StateFacts DEF Study, StudyOK, StudyState
    <2>2. /\ study' = s
          /\ UNCHANGED <<run, current, operatorVars, workerVars, semanticVars, rearmEvent,
                         accidents>>
      BY <1>3 DEF Complete
    <2>3. \A q \in Operators : OperationOK(q)'
      BY <2>2, StateFacts DEF operatorVars, OperationOK
    <2> HIDE DEF s
    <2> QED
      BY <2>1, <2>2, <2>3, StateFacts, OperatorStep DEF operatorVars, semanticVars
  <1>4. CASE Work
    BY <1>4, WorkStep
  <1> QED
    BY <1>1, <1>2, <1>3, <1>4 DEF Next

THEOREM InvHolds == Spec => []StudyInv
  BY InitInv, NextInv, PTL DEF Spec

\* The projection, the run, the copies of both and the authorizations keep their types.
THEOREM TypeCorrect == Spec => []TypeOK
  <1>1. StudyInv => TypeOK
    BY DEF StudyInv
  <1> QED
    BY <1>1, InvHolds, PTL

\* However many operators edit, activate, authorize and rearm at the same time, and
\* whatever their stale copies overwrite, the stages see one dataset version with its
\* approved QC and weights, the paid pipeline is dispatched once at most, as granted,
\* and a run past its Findings was paid for under its own authority.
THEOREM Authorization == Spec => []AnalysisIsAuthorized
  <1>1. StudyInv => AnalysisIsAuthorized
    <2> SUFFICES ASSUME StudyInv PROVE AnalysisIsAuthorized
      OBVIOUS
    <2>1. wpc # "idle" => \/ mem.results.safe # NoSafe /\ Authorized(mem.results.safe)
                          \/ mem.results.safe = NoSafe /\ mem.stage = "quant_findings"
      BY WorkerFacts DEF Ours, RunOK
    <2>2. paid <= 1
      BY WorkerFacts
    <2>3. wpc = "paying" => mem.results.safe.manifest /\ grants = {mem.results.safe}
      BY WorkerFacts
    <2>4. run.stage \in {"report", "over"} => paid = 1 /\ grants = {run.results.safe}
      BY WorkerFacts, StateFacts DEF PaidFor
    <2> QED
      BY <2>1, <2>2, <2>3, <2>4 DEF AnalysisIsAuthorized
  <1> QED
    BY <1>1, InvHolds, PTL
--------------------------------------------------------------------------------
(***************************************************************************)
(* A run that nobody overwrites.                                           *)
(***************************************************************************)
\* A copy of an operator's that is current is the run as it is stored (a rearming
\* keeps none, and has seen that the run had failed); and a run that the worker is at
\* is not completed.
CurrentIsTrue ==
    /\ \A o \in Operators : o \in current =>
          \/ pc[o] \in {"checked", "binding", "activating", "resuming"} /\ held[o] = run
          \/ pc[o] = "rearm" /\ run.status = "failed"
    /\ wpc # "idle" => run.status # "completed"

\* The pause before the Findings keeps the safe state for the resumption.
Sound(r) ==
    /\ Steady(r)
    /\ r.status = "paused" /\ r.boundary => r.results.safe # NoSafe

SoundInv ==
    /\ CurrentIsTrue
    /\ accidents = 0 => /\ Sound(run)
                        /\ wpc # "idle" => mem.results.safe # NoSafe

KeptInv == StudyInv /\ SoundInv

Kept ==
    /\ run.status = "completed" /\ run' # run => accidents' > accidents
    /\ accidents' = 0 => Steady(run')

\* The run stays as it is.
LEMMA QuietStep ==
    ASSUME KeptInv, UNCHANGED <<run, accidents>>,
           \A o \in Operators : o \in current' =>
               \/ o \in current /\ pc'[o] = pc[o] /\ held'[o] = held[o]
               \/ /\ pc'[o] \in {"checked", "binding", "activating", "resuming"}
                  /\ held'[o] = run
               \/ pc'[o] = "rearm" /\ run.status = "failed",
           wpc' # "idle" => \/ wpc # "idle" /\ mem'.results.safe = mem.results.safe
                            \/ run.status = "running" /\ mem' = run
    PROVE  SoundInv' /\ Kept
  <1>1. CurrentIsTrue'
    BY DEF KeptInv, SoundInv, CurrentIsTrue
  <1>2. accidents' = 0 => /\ Sound(run')
                          /\ wpc' # "idle" => mem'.results.safe # NoSafe
    BY DEF KeptInv, SoundInv, Sound, Steady
  <1> QED
    BY <1>1, <1>2 DEF SoundInv, Kept, Sound

\* The run is written by an operator, over a newer row in an accident only.
LEMMA WrittenStep ==
    ASSUME KeptInv, current' = {}, UNCHANGED workerVars, run'.status # "completed",
           NEW accident \in BOOLEAN, Happens(accident),
           ~accident => run.status # "completed",
           ~accident /\ accidents = 0 => Sound(run')
    PROVE  SoundInv' /\ Kept
  <1>1. accidents \in Nat
    BY StateFacts, BoundsAssumption DEF KeptInv
  <1>2. CASE accident
    <2>1. accidents' > accidents /\ accidents' # 0
      BY <1>1, <1>2 DEF Happens
    <2> QED
      BY <2>1 DEF KeptInv, SoundInv, CurrentIsTrue, Kept, workerVars
  <1>3. CASE ~accident
    <2>1. accidents' = accidents
      BY <1>3 DEF Happens
    <2> QED
      BY <1>3, <2>1 DEF KeptInv, SoundInv, CurrentIsTrue, Kept, Sound, workerVars
  <1> QED
    BY <1>2, <1>3

\* What an operator's copy is worth.
LEMMA KeptFacts ==
    ASSUME KeptInv
    PROVE  /\ StudyInv /\ CurrentIsTrue /\ Worker \notin Operators
           /\ pc \in [Operators -> Pc] /\ held \in [Operators -> Run]
           /\ run \in Run /\ RunOK(run)
           /\ accidents = 0 => Sound(run)
  BY StateFacts, OperatorsAssumption DEF KeptInv, SoundInv

LEMMA OperateQuiet ==
    ASSUME KeptInv, NEW o \in Operators,
           \/ Edit(o) \/ SaveEdit(o) \/ CheckActivation(o) \/ ReadResults(o) \/ LoadPaused(o)
           \/ ActivationRefused(o) \/ SaveAnalyzing(o) \/ Grant(o) \/ LoadBoundary(o)
           \/ CheckRearm(o) \/ RecordRearm(o) \/ SaveRearmed(o) \/ Interrupt(o)
    PROVE  SoundInv' /\ Kept
  <1>1. /\ UNCHANGED <<run, accidents, wpc, mem>>
        /\ current' \subseteq current \cup {o}
    BY DEF Edit, SaveEdit, CheckActivation, ReadResults, LoadPaused, ActivationRefused,
           SaveAnalyzing, Grant, LoadBoundary, CheckRearm, RecordRearm, SaveRearmed,
           Interrupt, Load, Goto, workerVars
  <1>2. \A q \in Operators \ {o} : pc'[q] = pc[q] /\ held'[q] = held[q]
    BY KeptFacts
       DEF Edit, SaveEdit, CheckActivation, ReadResults, LoadPaused, ActivationRefused,
           SaveAnalyzing, Grant, LoadBoundary, CheckRearm, RecordRearm, SaveRearmed,
           Interrupt, Load, Goto, Return
  <1>3. o \in current' => \/ /\ pc'[o] \in {"checked", "binding", "activating", "resuming"}
                             /\ held'[o] = run
                          \/ pc'[o] = "rearm" /\ run.status = "failed"
    <2>1. CASE Edit(o) \/ Grant(o) \/ SaveEdit(o) \/ ActivationRefused(o) \/ SaveAnalyzing(o)
               \/ RecordRearm(o) \/ SaveRearmed(o) \/ Interrupt(o)
      BY <2>1, KeptFacts
         DEF Edit, SaveEdit, ActivationRefused, SaveAnalyzing, Grant, RecordRearm, SaveRearmed,
             Interrupt, CurrentIsTrue
    <2>2. CASE CheckActivation(o) \/ LoadPaused(o) \/ CheckRearm(o)
      BY <2>2, KeptFacts DEF CheckActivation, LoadPaused, CheckRearm, Load
    <2>3. CASE ReadResults(o)
      <3>1. ASSUME o \in current' PROVE held[o] = run
        BY <2>3, <3>1, KeptFacts DEF ReadResults, CurrentIsTrue
      <3>2. pc'[o] = "binding" /\ held'[o] = [held[o] EXCEPT !.results = run.results]
        BY <2>3, KeptFacts DEF ReadResults
      <3>3. [run EXCEPT !.results = run.results] = run
        BY KeptFacts DEF Run
      <3> QED
        BY <3>1, <3>2, <3>3
    <2>4. CASE LoadBoundary(o)
      BY <2>4, KeptFacts DEF LoadBoundary, Load, CurrentIsTrue
    <2> QED
      BY <2>1, <2>2, <2>3, <2>4
  <1> QED
    BY <1>1, <1>2, <1>3, QuietStep

\* A copy that is current is what is stored: the run was not completed.
LEMMA OperateKept ==
    ASSUME KeptInv, NEW o \in Operators, Operate(o)
    PROVE  SoundInv' /\ Kept
  <1>1. /\ held[o] \in Run /\ RunOK(held[o]) /\ held[o].status = "paused"
        /\ held[o].boundary \in BOOLEAN
        /\ pc[o] = "resuming" => held[o].boundary
    BY KeptFacts, StateFacts DEF OperationOK, Run
  <1>2. CASE Bind(o)
    <2> DEFINE r == [held[o] EXCEPT !.results.bound = TRUE]
    <2>1. /\ run' = r /\ current' = {} /\ Happens(o \notin current) /\ pc[o] = "binding"
          /\ UNCHANGED workerVars
      BY <1>2 DEF Bind, Store, WriteRun
    <2>2. r.status = "paused" /\ r.boundary = held[o].boundary
          /\ r.results.safe = held[o].results.safe
      BY <1>1 DEF Run, Results
    <2>3. ASSUME o \in current PROVE held[o] = run
      BY <2>1, <2>3, KeptFacts DEF CurrentIsTrue
    <2>4. o \in current /\ accidents = 0 => Sound(r)
      BY <2>2, <2>3, KeptFacts DEF Sound, Steady
    <2> HIDE DEF r
    <2> QED
      BY <1>1, <2>1, <2>2, <2>3, <2>4, WrittenStep
  <1>3. CASE Activate(o)
    <2>1. /\ run' = Activated(o) /\ current' = {} /\ pc[o] = "activating"
          /\ Happens(o \notin current \/ held[o].boundary) /\ UNCHANGED workerVars
      BY <1>3 DEF Activate, Activated, Store, WriteRun
    <2>2. Activated(o).status = "running" /\ (~held[o].boundary => Sound(Activated(o)))
      BY <2>1, KeptFacts, ActivatedOK DEF Sound
    <2>3. ASSUME o \in current PROVE held[o] = run
      BY <2>1, <2>3, KeptFacts DEF CurrentIsTrue
    <2>4. (o \notin current \/ held[o].boundary) \in BOOLEAN
      OBVIOUS
    <2> QED
      BY <1>1, <2>1, <2>2, <2>3, <2>4, WrittenStep
  <1>4. CASE ResumePausedTask(o)
    <2>1. /\ run' = Resumed(o) /\ current' = {} /\ pc[o] = "resuming"
          /\ Happens(o \notin current) /\ UNCHANGED workerVars
      BY <1>4 DEF ResumePausedTask, Resumed, Store, WriteRun
    <2>2. /\ Resumed(o).status = "running" /\ Resumed(o).boundary = FALSE
          /\ Resumed(o).results = run.results
      BY <1>1 DEF Resumed, Run
    <2>3. ASSUME o \in current PROVE held[o] = run
      BY <2>1, <2>3, KeptFacts DEF CurrentIsTrue
    <2>4. o \in current /\ accidents = 0 => Sound(Resumed(o))
      BY <1>1, <2>1, <2>2, <2>3, KeptFacts DEF Sound, Steady
    <2> QED
      BY <1>1, <2>1, <2>2, <2>3, <2>4, WrittenStep
  <1>5. CASE Rearm(o)
    <2>1. /\ run' = NewRun /\ current' = {} /\ pc[o] = "rearm"
          /\ Happens(o \notin current) /\ UNCHANGED workerVars
      BY <1>5 DEF Rearm, Store, WriteRun
    <2>2. ASSUME o \in current PROVE run.status = "failed"
      BY <2>1, <2>2, KeptFacts DEF CurrentIsTrue
    <2>3. Sound(NewRun)
      BY NewValues DEF Sound, Steady
    <2> QED
      BY <2>1, <2>2, <2>3, NewValues, WrittenStep
  <1> QED
    BY <1>2, <1>3, <1>4, <1>5, OperateQuiet DEF Operate

\* A checkpoint is taken only over the worker's own run.
LEMMA CheckpointKept ==
    ASSUME KeptInv, wpc # "idle", NEW m \in Run, ~m.boundary \/ m.status = "paused",
           m.results.safe = NoSafe => mem.results.safe = NoSafe,
           NEW l \in {"idle", "between", "executing"}, l # "idle" => m.status = "running",
           Checkpoint(m, l), UNCHANGED <<operatorVars, accidents>>
    PROVE  SoundInv' /\ Kept
  <1>1. SoundInv /\ Worker \notin Operators
    BY OperatorsAssumption DEF KeptInv
  <1>2. CASE Worker \in current
    <2>1. /\ run' = m /\ current' = (IF l = "idle" THEN {} ELSE {Worker}) /\ wpc' = l
          /\ mem' = IF l = "idle" THEN NewRun ELSE m
      BY <1>2 DEF Checkpoint, WriteRun
    <2>2. run.status # "completed"
      BY <1>1 DEF SoundInv, CurrentIsTrue
    <2>3. ASSUME accidents = 0 PROVE Sound(m) /\ m.results.safe # NoSafe
      BY <1>1, <2>3 DEF SoundInv, Sound, Steady
    <2>4. CurrentIsTrue'
      BY <1>1, <2>1 DEF CurrentIsTrue
    <2> QED
      BY <2>1, <2>2, <2>3, <2>4 DEF SoundInv, Kept, Sound
  <1>3. CASE Worker \notin current
    <2>1. UNCHANGED <<run, current>> /\ wpc' = "idle"
      BY <1>3 DEF Checkpoint, Idle
    <2> QED
      BY <1>3, <2>1, QuietStep DEF operatorVars
  <1> QED
    BY <1>2, <1>3

LEMMA FinishKept ==
    ASSUME KeptInv, wpc # "idle", NEW stage \in Stage \ {"setup"}, NEW results \in Results,
           results.safe = NoSafe => mem.results.safe = NoSafe, Finish(results, stage),
           UNCHANGED <<operatorVars, accidents>>
    PROVE  SoundInv' /\ Kept
  <1> DEFINE m == Finished(results, stage)
             l == IF stage = "over" THEN "idle" ELSE "between"
  <1>1. Ours(mem, grants, consumed)
    BY WorkerFacts DEF KeptInv
  <1>2. m \in Run /\ ~m.boundary /\ m.results = results /\ (l # "idle" => m.status = "running")
    BY <1>1 DEF Ours, Run, Finished
  <1>3. Checkpoint(m, l) /\ l \in {"idle", "between", "executing"}
    BY DEF Finish, Finished
  <1> HIDE DEF m, l
  <1> QED
    BY <1>2, <1>3, CheckpointKept

LEMMA WorkKept ==
    ASSUME KeptInv, Work
    PROVE  SoundInv' /\ Kept
  <1>1. wpc # "idle" => Ours(mem, grants, consumed)
    BY KeptFacts, WorkerFacts
  <1>2. CASE LoadRun
    <2>1. /\ UNCHANGED <<run, accidents, pc, held, current>> /\ mem' = run
          /\ run.status = "running"
      BY <1>2 DEF LoadRun, operatorVars
    <2> QED
      BY <2>1, QuietStep
  <1>3. CASE ReadVersion
    <2>1. /\ UNCHANGED <<run, accidents, pc, held>> /\ current' = current \cup {Worker}
          /\ wpc # "idle" /\ mem'.results = mem.results
      BY <1>1, <1>3 DEF ReadVersion, operatorVars, Ours, Run
    <2> QED
      BY <2>1, KeptFacts, QuietStep
  <1>4. CASE FailInterrupted
    <2> DEFINE m == [mem EXCEPT !.status = "failed", !.begun = FALSE]
    <2>1. /\ run' = m /\ current' = {} /\ wpc' = "idle" /\ UNCHANGED accidents
          /\ run.status # "completed"
      BY <1>4, KeptFacts DEF FailInterrupted, WriteRun, Idle, CurrentIsTrue
    <2>2. m.status = "failed"
      BY <1>1, <1>4 DEF FailInterrupted, Ours, Run
    <2> HIDE DEF m
    <2>3. Sound(m)
      BY <2>2 DEF Sound, Steady
    <2> QED
      BY <2>1, <2>3 DEF SoundInv, CurrentIsTrue, Kept, Sound
  <1>5. CASE FindNothing
    <2>1. UNCHANGED <<run, accidents, wpc, mem>> /\ current' = {}
      BY <1>5 DEF FindNothing, WriteRun, workerVars
    <2> QED
      BY <2>1, QuietStep
  <1>6. CASE BeginStage
    <2> DEFINE m == [mem EXCEPT !.begun = TRUE]
    <2>1. /\ m \in Run /\ ~m.boundary /\ m.status = "running" /\ m.results = mem.results
          /\ wpc # "idle"
      BY <1>1, <1>6 DEF BeginStage, Ours, Run
    <2>2. Checkpoint(m, "executing") /\ UNCHANGED <<operatorVars, accidents>>
      BY <1>6 DEF BeginStage
    <2> HIDE DEF m
    <2> QED
      BY <2>1, <2>2, CheckpointKept
  <1>7. CASE ApproveWeights \/ FindingsGenerated \/ Report
    <2>1. mem.results \in Results /\ wpc # "idle"
      BY <1>1, <1>7 DEF ApproveWeights, FindingsGenerated, Report, Ours, Run
    <2> QED
      BY <1>7, <2>1, FinishKept DEF ApproveWeights, FindingsGenerated, Report, Stage
  <1>8. CASE Analyse
    <2> DEFINE results == [mem.results EXCEPT !.safe.manifest = TRUE]
    <2>1. /\ mem.results \in Results /\ mem.results.safe # NoSafe /\ wpc # "idle"
      BY <1>1, <1>8, StageHasSafe DEF Analyse, Ours, Run
    <2>2. results \in Results
      BY <2>1 DEF Results, Safe
    <2>3. Finish(results, "quant_findings") /\ UNCHANGED <<operatorVars, accidents>>
      BY <1>8 DEF Analyse
    <2>4. results.safe = NoSafe => mem.results.safe = NoSafe
      BY <2>1, SafeIsNotNoSafe DEF Results, Safe
    <2> HIDE DEF results
    <2> QED
      BY <2>1, <2>2, <2>3, <2>4, FinishKept DEF Stage
  <1>9. CASE PauseForGrant
    <2> DEFINE m == [mem EXCEPT !.status = "paused", !.begun = FALSE, !.boundary = TRUE,
                                !.results.pause = TRUE]
    <2>1. /\ m \in Run /\ m.status = "paused" /\ m.results.safe = mem.results.safe
          /\ wpc # "idle"
      BY <1>1, <1>9 DEF PauseForGrant, Ours, Run, Results
    <2>2. Checkpoint(m, "idle") /\ UNCHANGED <<operatorVars, accidents>>
      BY <1>9 DEF PauseForGrant
    <2> HIDE DEF m
    <2> QED
      BY <2>1, <2>2, CheckpointKept
  <1>10. CASE StageFails
    <2> DEFINE m == [mem EXCEPT !.status = "failed", !.begun = FALSE]
    <2>1. /\ m \in Run /\ ~m.boundary /\ m.results = mem.results
          /\ wpc # "idle"
      BY <1>1, <1>10 DEF StageFails, Ours, Run
    <2>2. Checkpoint(m, "idle") /\ UNCHANGED <<operatorVars, accidents>>
      BY <1>10 DEF StageFails
    <2> HIDE DEF m
    <2> QED
      BY <2>1, <2>2, CheckpointKept
  <1>11. CASE Consume
    <2>1. UNCHANGED <<run, accidents, pc, held, current, mem>> /\ wpc # "idle"
      BY <1>11 DEF Consume, operatorVars
    <2> QED
      BY <2>1, QuietStep
  <1>12. CASE WorkerDies
    <2>1. UNCHANGED <<run, accidents, pc, held>> /\ current' \subseteq current /\ wpc' = "idle"
      BY <1>12 DEF WorkerDies, Idle, operatorVars
    <2> QED
      BY <2>1, QuietStep
  <1> QED
    BY <1>2, <1>3, <1>4, <1>5, <1>6, <1>7, <1>8, <1>9, <1>10, <1>11, <1>12 DEF Work

LEMMA NextKept == KeptInv /\ [Next]_vars => KeptInv' /\ [Kept]_vars
  <1> SUFFICES ASSUME KeptInv, [Next]_vars PROVE KeptInv' /\ [Kept]_vars
    OBVIOUS
  <1>1. StudyInv'
    BY NextInv DEF KeptInv
  <1>2. CASE UNCHANGED vars
    <2>1. UNCHANGED <<run, current, pc, held, wpc, mem, accidents>>
      BY <1>2 DEF vars
    <2> QED
      BY <1>1, <1>2, <2>1, QuietStep DEF KeptInv
  <1>3. CASE Complete
    <2>1. UNCHANGED <<run, current, pc, held, wpc, mem, accidents>>
      BY <1>3 DEF Complete, operatorVars, workerVars
    <2> QED
      BY <1>1, <2>1, QuietStep DEF KeptInv
  <1>4. ASSUME (\E o \in Operators : Operate(o)) \/ Work PROVE KeptInv' /\ [Kept]_vars
    BY <1>1, <1>4, OperateKept, WorkKept DEF KeptInv
  <1> QED
    BY <1>2, <1>3, <1>4 DEF Next

\* Whatever is read, rewritten and saved by any number of operators and the worker, a
\* completed run is changed only by a save of a copy that was read before; and while no
\* save went over a newer row, and no activation out of the semantic pause, a RUNNING
\* run has no PAUSED task and has its safe state.
THEOREM RunKept == Spec => RunIsKept
  <1>1. Init => KeptInv
    <2> SUFFICES ASSUME Init PROVE KeptInv
      OBVIOUS
    <2>1. run.status = "paused" /\ ~run.boundary /\ current = {} /\ wpc = "idle"
      BY NewValues DEF Init
    <2> QED
      BY <2>1, InitInv DEF KeptInv, SoundInv, CurrentIsTrue, Sound, Steady
  <1>2. KeptInv /\ [Next]_vars => KeptInv'
    BY NextKept
  <1>3. KeptInv /\ [Next]_vars =>
            [/\ run.status = "completed" /\ run' # run => accidents' > accidents
             /\ accidents' = 0 => Steady(run')]_vars
    BY NextKept DEF Kept
  <1> QED
    BY <1>1, <1>2, <1>3, PTL DEF Spec, RunIsKept
===============================================================================
