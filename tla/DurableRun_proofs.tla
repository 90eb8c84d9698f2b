--------------------------- MODULE DurableRun_proofs ---------------------------
(***************************************************************************)
(* Theorems about DurableRun, for any number of runs, workers and requests *)
(* and any bounds.                                                         *)
(***************************************************************************)
EXTENDS DurableRun, TLAPS

\* The aggregates that the steps write are well-formed.
LEMMA BlankIsAggregate == Blank \in Aggregate /\ PausedForSetup \in Aggregate
  BY DEF Blank, PausedForSetup, Aggregate, RunStatus, TaskStatus

\* The fields of the copies that the steps build, one by one.
LEMMA AggregateFields ==
    ASSUME NEW a \in Aggregate
    PROVE  /\ a.status \in RunStatus
           /\ a.task \in TaskStatus
           /\ a.progress \in BOOLEAN
           /\ \A s \in RunStatus : [a EXCEPT !.status = s] \in Aggregate
           /\ \A t \in TaskStatus : [a EXCEPT !.task = t] \in Aggregate
           /\ \A p \in BOOLEAN : [a EXCEPT !.progress = p] \in Aggregate
           /\ \A t \in TaskStatus, p \in BOOLEAN :
                 [a EXCEPT !.task = t, !.progress = p] \in Aggregate
           /\ \A s \in RunStatus, t \in TaskStatus :
                 [a EXCEPT !.status = s, !.task = t] \in Aggregate
  BY DEF Aggregate

\* Recovery yields a copy.
LEMMA RecoveredIsAggregate ==
    ASSUME NEW a \in Aggregate
    PROVE  Recovered(a) \in Aggregate
  BY AggregateFields DEF Recovered, TaskStatus

\* So does every request.
LEMMA OutcomeIsAggregate ==
    ASSUME NEW a \in Aggregate, NEW k \in RequestKind
    PROVE  Outcome(k, a) \in Aggregate
  BY DEF Outcome, Aggregate, RequestKind, RunStatus, TaskStatus

-------------------------------------------------------------------------------

\* The initial state has the declared types.
LEMMA InitType == Init => TypeOK
<1> SUFFICES ASSUME Init PROVE TypeOK
  OBVIOUS
<1>1. RowsOK
  BY BlankIsAggregate DEF Init, RowsOK
<1>2. MainOK
  BY BlankIsAggregate DEF Init, MainOK, Place, AfterCheckpoint
<1>3. HeartOK
  BY DEF Init, HeartOK
<1>4. ClientsOK
  BY BlankIsAggregate DEF Init, ClientsOK, RequestKind
<1> QED
  BY <1>1, <1>2, <1>3, <1>4 DEF Init, TypeOK

\* Leaving a run keeps the types of the threads.
LEMMA ForgetType ==
    ASSUME TypeOK, NEW w \in Workers, Forget(w)
    PROVE  MainOK' /\ HeartOK'
<1>1. MainOK'
  BY BlankIsAggregate DEF TypeOK, MainOK, Forget, Goto, Place, AfterCheckpoint
<1>2. HeartOK'
  BY DEF TypeOK, MainOK, HeartOK, Forget, Goto
<1> QED
  BY <1>1, <1>2

\* So does asking for a checkpoint.
LEMMA CheckpointType ==
    ASSUME TypeOK, NEW w \in Workers, NEW a \in Aggregate, NEW p \in AfterCheckpoint,
           Checkpoint(w, a, p), pc[w] # "idle",
           UNCHANGED <<holding, expected, fingerprint, beating, lost>>
    PROVE  MainOK' /\ HeartOK'
<1>1. MainOK'
  BY DEF TypeOK, MainOK, Checkpoint, Goto, Place
<1>2. HeartOK'
  BY DEF TypeOK, MainOK, HeartOK, Checkpoint, Goto
<1> QED
  BY <1>1, <1>2

\* And moving on with the copy as it is.
LEMMA GotoType ==
    ASSUME TypeOK, NEW w \in Workers, NEW p \in Place \ {"idle"}, Goto(w, p),
           pc[w] # "idle", MainOK, copy' \in [Workers -> Aggregate],
           expected' \in [Workers -> Nat],
           UNCHANGED <<holding, after, beating, lost>>,
           fingerprint' \in [Workers -> Aggregate \cup {NoPrint}]
    PROVE  MainOK' /\ HeartOK'
<1>1. MainOK'
  BY DEF TypeOK, MainOK, Goto
<1>2. HeartOK'
  BY DEF TypeOK, MainOK, HeartOK, Goto
<1> QED
  BY <1>1, <1>2

\* Every step of the engine asks for a checkpoint or moves on.
LEMMA EngineType ==
    ASSUME TypeOK, NEW w \in Workers, Engine(w)
    PROVE  TypeOK'
<1> USE DEF TypeOK, AfterCheckpoint, RunStatus, TaskStatus
<1>0. /\ RowsOK' /\ ClientsOK' /\ faults' \in Nat /\ requests' \in Nat
      /\ copy[w] \in Aggregate
      /\ UNCHANGED <<holding, expected, fingerprint, beating, lost>>
  BY DEF Engine, StartEngine, Schedule, PickTask, ExecutorProgress, ExecutorCompletes,
         ExecutorFails, ExecutorPauses, Finalize, rowVars, leaseVars, heartVars,
         clientVars, bounds, RowsOK, ClientsOK, MainOK
<1>1. CASE StartEngine(w)
  BY <1>0, <1>1, AggregateFields, CheckpointType DEF StartEngine
<1>2. CASE Schedule(w)
  <2>1. CASE copy[w].task = "created"
    BY <1>0, <1>2, <2>1, AggregateFields, CheckpointType DEF Schedule
  <2>2. CASE copy[w].task # "created"
    BY <1>0, <1>2, <2>2, GotoType DEF Schedule, MainOK, Place
  <2> QED
    BY <2>1, <2>2
<1>3. CASE PickTask(w)
  <2>1. CASE copy[w].task = "ready"
    BY <1>0, <1>3, <2>1, AggregateFields, CheckpointType DEF PickTask
  <2>2. CASE copy[w].task # "ready"
    BY <1>0, <1>3, <2>2, GotoType DEF PickTask, MainOK, Place
  <2> QED
    BY <2>1, <2>2
<1>4. CASE ExecutorProgress(w)
  BY <1>0, <1>4, AggregateFields, CheckpointType DEF ExecutorProgress
<1>5. CASE ExecutorCompletes(w)
  BY <1>0, <1>5, AggregateFields, CheckpointType DEF ExecutorCompletes
<1>6. CASE ExecutorFails(w)
  BY <1>0, <1>6, AggregateFields, CheckpointType DEF ExecutorFails
<1>7. CASE ExecutorPauses(w)
  BY <1>0, <1>7, CheckpointType DEF ExecutorPauses, Aggregate
<1>8. CASE Finalize(w)
  BY <1>0, <1>8, AggregateFields, CheckpointType DEF Finalize, Terminal
<1> QED
  BY <1>1, <1>2, <1>3, <1>4, <1>5, <1>6, <1>7, <1>8 DEF Engine

\* Every step of Next keeps the types.
LEMMA NextType == TypeOK /\ [Next]_vars => TypeOK'
<1> SUFFICES ASSUME TypeOK, [Next]_vars PROVE TypeOK'
  OBVIOUS
<1> USE DEF TypeOK
<1>1. ASSUME NEW w \in Workers, NEW r \in Runs, Claim(w, r) PROVE TypeOK'
  <2>1. RowsOK' /\ ClientsOK'
    BY <1>1 DEF Claim, RowsOK, ClientsOK, rowVars, clientVars
  <2>2. MainOK' /\ HeartOK'
    BY <1>1, RunsAssumption DEF Claim, MainOK, HeartOK, Place
  <2> QED
    BY <1>1, <2>1, <2>2 DEF Claim, bounds
<1>2. ASSUME NEW w \in Workers, LoadRun(w) PROVE TypeOK'
  <2>1. RowsOK' /\ ClientsOK'
    BY <1>2 DEF LoadRun, RowsOK, ClientsOK, rowVars, leaseVars, clientVars
  <2>2. copy' \in [Workers -> Aggregate]
    BY <1>2 DEF LoadRun, RowsOK, MainOK
  <2>3. MainOK' /\ HeartOK'
    BY <1>2, <2>2, GotoType DEF LoadRun, MainOK, Place, heartVars
  <2> QED
    BY <1>2, <2>1, <2>3 DEF LoadRun, bounds
<1>3. ASSUME NEW w \in Workers, LoadVersion(w) PROVE TypeOK'
  <2> DEFINE found == [copy[w] EXCEPT !.progress = row[holding[w]].progress]
  <2>1. RowsOK' /\ ClientsOK'
    BY <1>3 DEF LoadVersion, RowsOK, ClientsOK, rowVars, leaseVars, clientVars
  <2>2. holding[w] \in Runs /\ copy[w] \in Aggregate /\ row[holding[w]] \in Aggregate
    BY <1>3 DEF LoadVersion, MainOK, RowsOK
  <2>3. Recovered(found) \in Aggregate
    BY <2>2, AggregateFields, RecoveredIsAggregate
  <2>4. expected' \in [Workers -> Nat]
    BY <1>3, <2>2 DEF LoadVersion, MainOK, RowsOK
  <2>5. \/ Checkpoint(w, Recovered(found), "engine")
        \/ /\ copy' = [copy EXCEPT ![w] = Recovered(found)]
           /\ Goto(w, "engine")
           /\ UNCHANGED after
    BY <1>3 DEF LoadVersion
  <2>6. copy' \in [Workers -> Aggregate] /\ after' \in [Workers -> AfterCheckpoint]
    BY <2>3, <2>5 DEF Checkpoint, MainOK, AfterCheckpoint
  <2>7. Goto(w, "check") \/ Goto(w, "engine")
    BY <2>5 DEF Checkpoint
  <2>8. MainOK'
    BY <1>3, <2>4, <2>6, <2>7 DEF LoadVersion, MainOK, Goto, Place
  <2>9. HeartOK'
    BY <1>3, <2>7 DEF LoadVersion, MainOK, HeartOK, Goto, heartVars
  <2> QED
    BY <1>3, <2>1, <2>8, <2>9 DEF LoadVersion, bounds
<1>4. ASSUME NEW w \in Workers, CheckGuard(w) PROVE TypeOK'
  <2>1. RowsOK' /\ ClientsOK'
    BY <1>4 DEF CheckGuard, RowsOK, ClientsOK, rowVars, leaseVars, clientVars
  <2>2. \E p \in Place \ {"idle"} : Goto(w, p)
    BY <1>4 DEF CheckGuard, Place, MainOK, AfterCheckpoint
  <2>3. MainOK' /\ HeartOK'
    BY <1>4, <2>2, GotoType DEF CheckGuard, MainOK, heartVars
  <2> QED
    BY <1>4, <2>1, <2>3 DEF CheckGuard, bounds
<1>5. ASSUME NEW w \in Workers, CommitSucceeds(w) PROVE TypeOK'
  <2>1. holding[w] \in Runs /\ copy[w] \in Aggregate /\ expected[w] + 1 \in Nat
    BY <1>5 DEF CommitSucceeds, MainOK
  <2>2. RowsOK' /\ ClientsOK'
    BY <1>5, <2>1 DEF CommitSucceeds, RowsOK, ClientsOK, leaseVars, clientVars
  <2>3. /\ expected' \in [Workers -> Nat]
        /\ fingerprint' \in [Workers -> Aggregate \cup {NoPrint}]
    BY <1>5, <2>1 DEF CommitSucceeds, MainOK
  <2>4. \E p \in Place \ {"idle"} : Goto(w, p)
    BY <1>5 DEF CommitSucceeds, Place, MainOK, AfterCheckpoint
  <2>5. MainOK' /\ HeartOK'
    BY <1>5, <2>3, <2>4, GotoType DEF CommitSucceeds, MainOK, heartVars
  <2> QED
    BY <1>5, <2>2, <2>5 DEF CommitSucceeds, bounds
<1>6. ASSUME NEW w \in Workers, CommitConflicts(w) PROVE TypeOK'
  <2>1. RowsOK' /\ ClientsOK'
    BY <1>6 DEF CommitConflicts, RowsOK, ClientsOK, rowVars, leaseVars, clientVars
  <2>2. MainOK' /\ HeartOK'
    BY <1>6, GotoType DEF CommitConflicts, MainOK, Place, heartVars
  <2> QED
    BY <1>6, <2>1, <2>2 DEF CommitConflicts, bounds
<1>7. ASSUME NEW w \in Workers, ReleaseLease(w) PROVE TypeOK'
  <2>1. RowsOK'
    BY <1>7 DEF ReleaseLease, RowsOK, rowVars
  <2>2. ClientsOK'
    BY <1>7 DEF ReleaseLease, ClientsOK, clientVars
  <2> QED
    BY <1>7, <2>1, <2>2, ForgetType DEF ReleaseLease, bounds
<1>8. ASSUME NEW w \in Workers, Crash(w) \/ ReleaseFails(w) PROVE TypeOK'
  <2>1. RowsOK' /\ ClientsOK'
    BY <1>8 DEF Crash, ReleaseFails, RowsOK, ClientsOK, rowVars, leaseVars, clientVars
  <2> QED
    BY <1>8, <2>1, ForgetType DEF Crash, ReleaseFails
<1>9. ASSUME NEW w \in Workers, Heartbeat(w) \/ HeartbeatFails(w) PROVE TypeOK'
  <2>1. RowsOK' /\ ClientsOK' /\ MainOK'
    BY <1>9 DEF Heartbeat, Renew, ObserveLoss, HeartbeatFails, RowsOK, ClientsOK, MainOK,
                rowVars, leaseVars, clientVars, mainVars
  <2>2. HeartOK'
    BY <1>9 DEF Heartbeat, Renew, ObserveLoss, HeartbeatFails, HeartOK, mainVars, heartVars
  <2> QED
    BY <1>9, <2>1, <2>2 DEF Heartbeat, Renew, ObserveLoss, HeartbeatFails, bounds
<1>10. ASSUME NEW r \in Runs, Lapse(r) \/ StallPastLease(r) PROVE TypeOK'
  <2>1. RowsOK' /\ ClientsOK' /\ MainOK' /\ HeartOK'
    BY <1>10 DEF Lapse, StallPastLease, RowsOK, ClientsOK, MainOK, HeartOK,
                 rowVars, mainVars, heartVars, clientVars
  <2> QED
    BY <1>10, <2>1 DEF Lapse, StallPastLease, bounds
<1>11. ASSUME NEW c \in Clients, NEW k \in Kinds, NEW r \in Runs, ReadRun(c, k, r)
       PROVE TypeOK'
  <2>1. RowsOK' /\ MainOK' /\ HeartOK'
    BY <1>11 DEF ReadRun, RowsOK, MainOK, HeartOK, rowVars, leaseVars, mainVars, heartVars
  <2>2. ClientsOK'
    BY <1>11, KindsAssumption DEF ReadRun, ClientsOK, RowsOK
  <2> QED
    BY <1>11, <2>1, <2>2 DEF ReadRun
<1>12. ASSUME NEW c \in Clients, ReadVersion(c) PROVE TypeOK'
  <2>1. RowsOK' /\ MainOK' /\ HeartOK'
    BY <1>12 DEF ReadVersion, RowsOK, MainOK, HeartOK, rowVars, leaseVars, mainVars, heartVars
  <2>2. /\ read[c] \in Aggregate
        /\ row[target[c]].progress \in BOOLEAN
        /\ version[target[c]] \in Nat
    BY <1>12, AggregateFields DEF ReadVersion, ClientsOK, RowsOK
  <2>3. [read[c] EXCEPT !.progress = row[target[c]].progress] \in Aggregate
    BY <2>2, AggregateFields
  <2>4. ClientsOK'
    BY <1>12, <2>2, <2>3 DEF ReadVersion, ClientsOK
  <2> QED
    BY <1>12, <2>1, <2>4 DEF ReadVersion, bounds
<1>13. ASSUME NEW c \in Clients, SaveRequest(c) PROVE TypeOK'
  <2>1. MainOK' /\ HeartOK'
    BY <1>13 DEF SaveRequest, MainOK, HeartOK, mainVars, heartVars
  <2>2. ClientsOK'
    BY <1>13, BlankIsAggregate DEF SaveRequest, ClientsOK, RequestKind
  <2>3. Outcome(kind[c], read[c]) \in Aggregate
    BY OutcomeIsAggregate DEF ClientsOK
  <2>4. RowsOK'
    BY <1>13, <2>3 DEF SaveRequest, RowsOK, ClientsOK, rowVars, leaseVars
  <2> QED
    BY <1>13, <2>1, <2>2, <2>4 DEF SaveRequest, bounds
<1>14. CASE UNCHANGED vars
  BY <1>14 DEF vars, rowVars, leaseVars, mainVars, heartVars, clientVars, bounds,
               RowsOK, MainOK, HeartOK, ClientsOK
<1> QED
  BY <1>1, <1>2, <1>3, <1>4, <1>5, <1>6, <1>7, <1>8, <1>9, <1>10, <1>11, <1>12, <1>13,
     <1>14, EngineType
  DEF Next, Main, Heartbeat, Fault, Request, IdlePoll

\* The state always has the declared types: a thread holds a run exactly when
\* it has one to execute, and beats only then.
THEOREM TypeCorrect == Spec => []TypeOK
  BY InitType, NextType, PTL DEF Spec

-------------------------------------------------------------------------------
(***************************************************************************)
(* No lost update, and one writer per run.  Both rest on one fact about    *)
(* versions: a worker that wrote a run expects the version of its write,   *)
(* and every later write of anybody leaves that version behind.            *)
(***************************************************************************)

WriterInv == TypeOK /\ FreshUntilLoaded /\ EstablishedSeesRow /\ OneEstablishedWriter

\* What the two properties look at.
SeenVars == <<row, version, holding, expected, fingerprint>>

\* Initially nobody has written the run.
LEMMA InitWriter == Init => WriterInv
<1> SUFFICES ASSUME Init PROVE WriterInv
  OBVIOUS
<1>1. TypeOK
  BY InitType
<1>2. \A w \in Workers : fingerprint[w] = NoPrint
  BY DEF Init
<1> QED
  BY <1>1, <1>2 DEF WriterInv, FreshUntilLoaded, EstablishedSeesRow, OneEstablishedWriter,
                    Established

\* An engine step changes nothing that the properties look at, and does not
\* go back to loading.
LEMMA EngineSees ==
    ASSUME TypeOK, NEW w \in Workers, Engine(w)
    PROVE  /\ UNCHANGED SeenVars
           /\ \E p \in {"check", "pick", "finalize"} : Goto(w, p)
<1>1. UNCHANGED SeenVars
  BY DEF Engine, StartEngine, Schedule, PickTask, ExecutorProgress, ExecutorCompletes,
         ExecutorFails, ExecutorPauses, Finalize, rowVars, SeenVars
<1>2. Goto(w, "check") \/ Goto(w, "pick") \/ Goto(w, "finalize")
  BY DEF Engine, StartEngine, Schedule, PickTask, ExecutorProgress, ExecutorCompletes,
         ExecutorFails, ExecutorPauses, Finalize, Checkpoint
<1> QED
  BY <1>1, <1>2

\* A step that moves one thread to a place after the loading keeps
\* FreshUntilLoaded if the fingerprints of the others stay.
LEMMA MoveFresh ==
    ASSUME TypeOK, FreshUntilLoaded, NEW w \in Workers,
           NEW p \in Place \ {"idle", "claimed", "loaded"}, Goto(w, p),
           \A v \in Workers \ {w} : fingerprint'[v] = fingerprint[v]
    PROVE  FreshUntilLoaded'
  BY DEF TypeOK, MainOK, FreshUntilLoaded, Goto

\* A worker without a fingerprint, old or new, is not established; the
\* properties do not notice what it holds or expects.
LEMMA UnestablishedStep ==
    ASSUME WriterInv, NEW w \in Workers, UNCHANGED <<row, version>>,
           fingerprint'[w] = NoPrint,
           \A v \in Workers \ {w} : /\ holding'[v] = holding[v]
                                    /\ expected'[v] = expected[v]
                                    /\ fingerprint'[v] = fingerprint[v]
    PROVE  EstablishedSeesRow' /\ OneEstablishedWriter'
<1>1. \A v \in Workers : Established(v)' => v # w /\ Established(v)
  BY DEF Established
<1> QED
  BY <1>1 DEF WriterInv, EstablishedSeesRow, OneEstablishedWriter

\* A step that leaves the rows, the versions and what the workers know of
\* them alone keeps the invariant.
LEMMA QuietStep ==
    ASSUME WriterInv, UNCHANGED SeenVars
    PROVE  EstablishedSeesRow' /\ OneEstablishedWriter'
  BY DEF WriterInv, EstablishedSeesRow, OneEstablishedWriter, Established, SeenVars

\* Every step keeps it.
LEMMA NextWriter == WriterInv /\ [Next]_vars => WriterInv'
<1> SUFFICES ASSUME WriterInv, [Next]_vars PROVE WriterInv'
  OBVIOUS
<1>0. TypeOK /\ FreshUntilLoaded /\ EstablishedSeesRow /\ OneEstablishedWriter /\ TypeOK'
  BY NextType DEF WriterInv
<1>1. ASSUME NEW w \in Workers, NEW r \in Runs, Claim(w, r) PROVE WriterInv'
  <2>1. fingerprint[w] = NoPrint /\ UNCHANGED fingerprint
    BY <1>0, <1>1 DEF Claim, FreshUntilLoaded
  <2>2. FreshUntilLoaded'
    BY <1>0, <1>1, <2>1 DEF Claim, FreshUntilLoaded, TypeOK, MainOK
  <2>3. EstablishedSeesRow' /\ OneEstablishedWriter'
    BY <1>0, <1>1, <2>1, UnestablishedStep DEF Claim, rowVars, TypeOK, MainOK
  <2> QED
    BY <1>0, <2>2, <2>3 DEF WriterInv
<1>2. ASSUME NEW w \in Workers, LoadRun(w) PROVE WriterInv'
  <2>1. UNCHANGED SeenVars
    BY <1>2 DEF LoadRun, rowVars, SeenVars
  <2>2. fingerprint'[w] = NoPrint
    BY <1>0, <1>2 DEF LoadRun, FreshUntilLoaded
  <2>3. FreshUntilLoaded'
    BY <1>0, <1>2, <2>1, <2>2 DEF LoadRun, Goto, FreshUntilLoaded, TypeOK, MainOK, SeenVars
  <2> QED
    BY <1>0, <2>1, <2>3, QuietStep DEF WriterInv
<1>3. ASSUME NEW w \in Workers, LoadVersion(w) PROVE WriterInv'
  <2>1. fingerprint'[w] = NoPrint
    BY <1>0, <1>3 DEF LoadVersion, FreshUntilLoaded
  <2>2. EstablishedSeesRow' /\ OneEstablishedWriter'
    BY <1>0, <1>3, <2>1, UnestablishedStep DEF LoadVersion, rowVars, TypeOK, MainOK
  <2>3. Goto(w, "check") \/ Goto(w, "engine")
    BY <1>3 DEF LoadVersion, Checkpoint
  <2>4. FreshUntilLoaded'
    BY <1>0, <1>3, <2>3, MoveFresh DEF LoadVersion, Place
  <2> QED
    BY <1>0, <2>2, <2>4 DEF WriterInv
<1>4. ASSUME NEW w \in Workers, CheckGuard(w) \/ CommitConflicts(w) PROVE WriterInv'
  <2>1. UNCHANGED SeenVars
    BY <1>4 DEF CheckGuard, CommitConflicts, rowVars, SeenVars
  <2>2. \E p \in Place \ {"idle", "claimed", "loaded"} : Goto(w, p)
    BY <1>0, <1>4 DEF CheckGuard, CommitConflicts, Place, TypeOK, MainOK, AfterCheckpoint
  <2>3. FreshUntilLoaded'
    BY <1>0, <2>1, <2>2, MoveFresh DEF SeenVars
  <2> QED
    BY <1>0, <2>1, <2>3, QuietStep DEF WriterInv
<1>5. ASSUME NEW w \in Workers, CommitSucceeds(w) PROVE WriterInv'
  <2> DEFINE r == holding[w]
  <2>1. /\ r \in Runs
        /\ version[r] \in Nat
        /\ version' = [version EXCEPT ![r] = version[r] + 1]
        /\ row' = [row EXCEPT ![r] = copy[w]]
        /\ UNCHANGED holding
    BY <1>0, <1>5 DEF CommitSucceeds, TypeOK, MainOK, RowsOK
  <2>2. /\ expected[w] = version[r]
        /\ expected'[w] = version'[r]
        /\ fingerprint'[w] = row'[r]
    BY <1>0, <1>5, <2>1 DEF CommitSucceeds, TypeOK, MainOK, RowsOK
  <2>3. \A v \in Workers \ {w} : expected'[v] = expected[v] /\ fingerprint'[v] = fingerprint[v]
    BY <1>0, <1>5 DEF CommitSucceeds, TypeOK, MainOK
  <2>4. \A v \in Workers \ {w} : Established(v)' /\ holding[v] = r => expected'[v] < version'[r]
    <3> SUFFICES ASSUME NEW v \in Workers \ {w}, Established(v)', holding[v] = r
                 PROVE  expected'[v] < version'[r]
      OBVIOUS
    <3>1. Established(v) /\ expected[v] <= version[r]
      BY <1>0, <2>1, <2>3 DEF Established, EstablishedSeesRow
    <3> QED
      BY <1>0, <2>1, <2>3, <3>1 DEF TypeOK, MainOK, RowsOK
  <2>5. EstablishedSeesRow'
    <3> SUFFICES ASSUME NEW v \in Workers, Established(v)'
                 PROVE  /\ expected'[v] <= version'[holding'[v]]
                        /\ expected'[v] = version'[holding'[v]]
                              => row'[holding'[v]] = fingerprint'[v]
      BY DEF EstablishedSeesRow
    <3>1. CASE v = w
      BY <1>0, <2>1, <2>2, <3>1 DEF TypeOK, MainOK, RowsOK
    <3>2. CASE v # w /\ holding[v] = r
      BY <1>0, <2>1, <2>3, <2>4, <3>2 DEF TypeOK, MainOK, RowsOK
    <3>3. CASE v # w /\ holding[v] # r
      <4>1. Established(v)
        BY <2>1, <2>3, <3>3 DEF Established
      <4>2. holding[v] \in Runs
        BY <1>0, <4>1 DEF Established, TypeOK, MainOK
      <4> QED
        BY <1>0, <2>1, <2>3, <3>3, <4>1, <4>2 DEF EstablishedSeesRow, TypeOK, RowsOK
    <3> QED
      BY <3>1, <3>2, <3>3
  <2>6. OneEstablishedWriter'
    <3> SUFFICES ASSUME NEW u \in Workers, NEW v \in Workers, u # v,
                        Established(u)', Established(v)', holding'[u] = holding'[v]
                 PROVE  expected'[u] # expected'[v]
      BY DEF OneEstablishedWriter
    <3>1. CASE u # w /\ v # w
      <4>1. Established(u) /\ Established(v)
        BY <2>1, <2>3, <3>1 DEF Established
      <4> QED
        BY <1>0, <2>1, <2>3, <3>1, <4>1 DEF OneEstablishedWriter
    <3>2. CASE u = w
      BY <1>0, <2>1, <2>2, <2>4, <3>2 DEF TypeOK, MainOK, RowsOK
    <3>3. CASE v = w
      BY <1>0, <2>1, <2>2, <2>4, <3>3 DEF TypeOK, MainOK, RowsOK
    <3> QED
      BY <3>1, <3>2, <3>3
  <2>7. \E p \in Place \ {"idle", "claimed", "loaded"} : Goto(w, p)
    BY <1>0, <1>5 DEF CommitSucceeds, Place, TypeOK, MainOK, AfterCheckpoint
  <2>8. FreshUntilLoaded'
    BY <1>0, <2>3, <2>7, MoveFresh
  <2> QED
    BY <1>0, <2>5, <2>6, <2>8 DEF WriterInv
<1>6. ASSUME NEW w \in Workers, Engine(w) PROVE WriterInv'
  <2>1. FreshUntilLoaded'
    BY <1>0, <1>6, EngineSees, MoveFresh DEF Place, SeenVars
  <2> QED
    BY <1>0, <1>6, <2>1, EngineSees, QuietStep DEF WriterInv
<1>7. ASSUME NEW w \in Workers, ReleaseLease(w) \/ ReleaseFails(w) \/ Crash(w)
      PROVE  WriterInv'
  <2>1. Forget(w) /\ UNCHANGED rowVars
    BY <1>7 DEF ReleaseLease, ReleaseFails, Crash
  <2>2. fingerprint'[w] = NoPrint
    BY <1>0, <2>1 DEF Forget, TypeOK, MainOK
  <2>3. EstablishedSeesRow' /\ OneEstablishedWriter'
    BY <1>0, <2>1, <2>2, UnestablishedStep DEF Forget, rowVars, TypeOK, MainOK
  <2>4. FreshUntilLoaded'
    BY <1>0, <2>1, <2>2 DEF Forget, Goto, FreshUntilLoaded, TypeOK, MainOK
  <2> QED
    BY <1>0, <2>3, <2>4 DEF WriterInv
<1>8. ASSUME UNCHANGED <<rowVars, mainVars>> PROVE WriterInv'
  <2>1. UNCHANGED SeenVars /\ UNCHANGED pc
    BY <1>8 DEF rowVars, mainVars, SeenVars
  <2> QED
    BY <1>0, <2>1, QuietStep DEF WriterInv, FreshUntilLoaded, SeenVars
<1>9. ASSUME NEW c \in Clients, SaveRequest(c) PROVE WriterInv'
  <2>1. CASE UNCHANGED rowVars
    BY <1>8, <1>9, <2>1 DEF SaveRequest
  <2>2. CASE ~ UNCHANGED rowVars
    <3> DEFINE r == target[c]
    <3>1. /\ r \in Runs
          /\ version[r] \in Nat
          /\ version' = [version EXCEPT ![r] = version[r] + 1]
          /\ row' = [row EXCEPT ![r] = Outcome(kind[c], read[c])]
          /\ UNCHANGED mainVars
      BY <1>0, <1>9, <2>2 DEF SaveRequest, TypeOK, ClientsOK, RowsOK
    <3>2. UNCHANGED <<pc, holding, expected, fingerprint>>
      BY <3>1 DEF mainVars
    <3>3. FreshUntilLoaded' /\ OneEstablishedWriter'
      BY <1>0, <3>2 DEF FreshUntilLoaded, OneEstablishedWriter, Established
    <3>4. EstablishedSeesRow'
      <4> SUFFICES ASSUME NEW v \in Workers, Established(v)
                   PROVE  /\ expected[v] <= version'[holding[v]]
                          /\ expected[v] = version'[holding[v]]
                                => row'[holding[v]] = fingerprint[v]
        BY <3>2 DEF EstablishedSeesRow, Established
      <4>1. /\ holding[v] \in Runs
            /\ expected[v] \in Nat
            /\ expected[v] <= version[holding[v]]
            /\ expected[v] = version[holding[v]] => row[holding[v]] = fingerprint[v]
        BY <1>0 DEF Established, EstablishedSeesRow, TypeOK, MainOK
      <4>2. CASE holding[v] = r
        BY <1>0, <3>1, <4>1, <4>2 DEF TypeOK, RowsOK
      <4>3. CASE holding[v] # r
        BY <1>0, <3>1, <4>1, <4>3 DEF TypeOK, RowsOK
      <4> QED
        BY <4>2, <4>3
    <3> QED
      BY <1>0, <3>3, <3>4 DEF WriterInv
  <2> QED
    BY <2>1, <2>2
<1>10. CASE UNCHANGED vars
  BY <1>8, <1>10 DEF vars
<1>11. ASSUME NEW w \in Workers, Heartbeat(w) \/ HeartbeatFails(w) \/ IdlePoll(w)
       PROVE  WriterInv'
  BY <1>8, <1>11 DEF Heartbeat, Renew, ObserveLoss, HeartbeatFails, IdlePoll, vars
<1>12. ASSUME NEW r \in Runs, Lapse(r) \/ StallPastLease(r) PROVE WriterInv'
  BY <1>8, <1>12 DEF Lapse, StallPastLease
<1>13. ASSUME NEW c \in Clients, ReadVersion(c) \/ \E k \in Kinds, r \in Runs : ReadRun(c, k, r)
       PROVE  WriterInv'
  BY <1>8, <1>13 DEF ReadVersion, ReadRun
<1> QED
  BY <1>1, <1>2, <1>3, <1>4, <1>5, <1>6, <1>7, <1>9, <1>10, <1>11, <1>12, <1>13
  DEF Next, Main, Heartbeat, Fault, Request

\* A worker can write a run again only while the row is what it last wrote:
\* the version check loses no update of anybody, however leases move.
THEOREM NoLostUpdate == Spec => []EstablishedSeesRow
<1>1. WriterInv => EstablishedSeesRow
  BY DEF WriterInv
<1> QED
  BY <1>1, InitWriter, NextWriter, PTL DEF Spec

\* Of the workers that have written a run and still execute it, at most one
\* can write it again: the others are refused at their next checkpoint.
THEOREM SingleWriter == Spec => []OneEstablishedWriter
<1>1. WriterInv => OneEstablishedWriter
  BY DEF WriterInv
<1> QED
  BY <1>1, InitWriter, NextWriter, PTL DEF Spec

\* A worker that has not loaded a run has not written it: a fingerprint never
\* survives from one execution to the next.
THEOREM FreshPersister == Spec => []FreshUntilLoaded
<1>1. WriterInv => FreshUntilLoaded
  BY DEF WriterInv
<1> QED
  BY <1>1, InitWriter, NextWriter, PTL DEF Spec

-------------------------------------------------------------------------------
(***************************************************************************)
(* A finished run is safe from the workers that have written it.           *)
(***************************************************************************)

LeaverInv == WriterInv /\ TerminalCopyLeaves

\* What TerminalCopyLeaves says of one worker.
Leaving(w) ==
    /\ copy[w].status \in Terminal =>
           \/ pc[w] = "release"
           \/ pc[w] \in {"check", "commit"} /\ after[w] = "release"
           \/ pc[w] \in {"idle", "claimed"}
    /\ fingerprint[w] # NoPrint /\ fingerprint[w].status \in Terminal =>
           pc[w] = "release"

\* A step of one thread concerns that thread only.
LEMMA LeavingOthers ==
    ASSUME TerminalCopyLeaves, NEW w \in Workers, Leaving(w)',
           \A v \in Workers \ {w} : /\ pc'[v] = pc[v]
                                    /\ copy'[v] = copy[v]
                                    /\ after'[v] = after[v]
                                    /\ fingerprint'[v] = fingerprint[v]
    PROVE  TerminalCopyLeaves'
  BY DEF TerminalCopyLeaves, Leaving

\* A checkpoint of a copy that is not terminal, or after which the worker
\* leaves, is in order.
LEMMA CheckpointLeaves ==
    ASSUME TypeOK, TerminalCopyLeaves, NEW w \in Workers, NEW a \in Aggregate,
           NEW p \in AfterCheckpoint, Checkpoint(w, a, p), UNCHANGED fingerprint,
           pc[w] # "release", a.status \in Terminal => p = "release"
    PROVE  TerminalCopyLeaves'
<1>1. Leaving(w)'
  BY DEF TypeOK, MainOK, TerminalCopyLeaves, Leaving, Checkpoint, Goto
<1> QED
  BY <1>1, LeavingOthers DEF TypeOK, MainOK, Checkpoint, Goto

\* A step of the engine makes a copy terminal only on the way to its last
\* checkpoint.
LEMMA EngineLeaves ==
    ASSUME TypeOK, TerminalCopyLeaves, NEW w \in Workers, Engine(w)
    PROVE  TerminalCopyLeaves'
<1>0. /\ pc[w] \in {"engine", "schedule", "pick", "execute", "finalize"}
      /\ copy[w] \in Aggregate
      /\ copy[w].status \notin Terminal
      /\ UNCHANGED fingerprint
  BY DEF Engine, StartEngine, Schedule, PickTask, ExecutorProgress, ExecutorCompletes,
         ExecutorFails, ExecutorPauses, Finalize, TypeOK, MainOK, TerminalCopyLeaves
<1>1. CASE Finalize(w)
  <2>1. [copy[w] EXCEPT !.status = IF copy[w].task \in Terminal THEN copy[w].task ELSE @]
           \in Aggregate
    BY <1>0, AggregateFields DEF Terminal, RunStatus, TaskStatus
  <2> QED
    BY <1>0, <1>1, <2>1, CheckpointLeaves DEF Finalize, AfterCheckpoint
<1>2. ASSUME NEW p \in {"pick", "finalize"}, Goto(w, p), UNCHANGED <<copy, after>>
      PROVE  TerminalCopyLeaves'
  <2>1. Leaving(w)'
    BY <1>0, <1>2 DEF TypeOK, MainOK, TerminalCopyLeaves, Leaving, Goto
  <2> QED
    BY <1>0, <1>2, <2>1, LeavingOthers DEF TypeOK, MainOK, Goto
<1>3. ASSUME NEW a \in Aggregate, NEW p \in AfterCheckpoint, Checkpoint(w, a, p),
             a.status \notin Terminal
      PROVE  TerminalCopyLeaves'
  BY <1>0, <1>3, CheckpointLeaves
<1>4. ASSUME NEW t \in TaskStatus, NEW b \in BOOLEAN
      PROVE  /\ [copy[w] EXCEPT !.task = t] \in Aggregate
             /\ [copy[w] EXCEPT !.task = t].status = copy[w].status
             /\ [copy[w] EXCEPT !.progress = b] \in Aggregate
             /\ [copy[w] EXCEPT !.progress = b].status = copy[w].status
             /\ [copy[w] EXCEPT !.task = t, !.progress = b] \in Aggregate
             /\ [copy[w] EXCEPT !.task = t, !.progress = b].status = copy[w].status
  BY <1>0 DEF Aggregate
<1>5. CASE StartEngine(w)
  <2> DEFINE a == [copy[w] EXCEPT !.status = IF @ = "created" THEN "running" ELSE @]
  <2>1. a \in Aggregate /\ a.status \notin Terminal
    BY <1>0 DEF Aggregate, RunStatus, Terminal
  <2> QED
    BY <1>3, <1>5, <2>1 DEF StartEngine, AfterCheckpoint
<1>6. CASE Schedule(w)
  BY <1>0, <1>2, <1>3, <1>4, <1>6 DEF Schedule, AfterCheckpoint, TaskStatus
<1>7. CASE PickTask(w)
  BY <1>0, <1>2, <1>3, <1>4, <1>7 DEF PickTask, AfterCheckpoint, TaskStatus
<1>8. CASE ExecutorProgress(w)
  BY <1>0, <1>3, <1>4, <1>8 DEF ExecutorProgress, AfterCheckpoint, TaskStatus
<1>9. CASE ExecutorCompletes(w)
  BY <1>0, <1>3, <1>4, <1>9 DEF ExecutorCompletes, AfterCheckpoint, TaskStatus
<1>10. CASE ExecutorFails(w)
  BY <1>0, <1>3, <1>4, <1>10 DEF ExecutorFails, AfterCheckpoint, TaskStatus
<1>11. CASE ExecutorPauses(w)
  BY <1>3, <1>11 DEF ExecutorPauses, AfterCheckpoint, Aggregate, RunStatus, TaskStatus, Terminal
<1> QED
  BY <1>1, <1>5, <1>6, <1>7, <1>8, <1>9, <1>10, <1>11 DEF Engine

\* The invariant of the leavers holds initially.
LEMMA InitLeaver == Init => LeaverInv
<1> SUFFICES ASSUME Init PROVE LeaverInv
  OBVIOUS
<1>1. TerminalCopyLeaves
  BY DEF Init, TerminalCopyLeaves
<1> QED
  BY <1>1, InitWriter DEF LeaverInv

\* Every step keeps it.
LEMMA NextLeaver == LeaverInv /\ [Next]_vars => LeaverInv'
<1> SUFFICES ASSUME LeaverInv, [Next]_vars PROVE TerminalCopyLeaves'
  BY NextWriter DEF LeaverInv
<1>0. TypeOK /\ FreshUntilLoaded /\ TerminalCopyLeaves
  BY DEF LeaverInv, WriterInv
<1>1. ASSUME NEW w \in Workers, NEW r \in Runs, Claim(w, r) PROVE TerminalCopyLeaves'
  <2>1. Leaving(w)'
    BY <1>0, <1>1 DEF Claim, TypeOK, MainOK, TerminalCopyLeaves, Leaving
  <2> QED
    BY <1>0, <1>1, <2>1, LeavingOthers DEF Claim, TypeOK, MainOK
<1>2. ASSUME NEW w \in Workers, LoadRun(w) PROVE TerminalCopyLeaves'
  <2>1. fingerprint'[w] = NoPrint
    BY <1>0, <1>2 DEF LoadRun, FreshUntilLoaded
  <2>2. Leaving(w)'
    BY <1>0, <1>2, <2>1 DEF LoadRun, Goto, TypeOK, MainOK, Leaving, Runnable, Terminal
  <2> QED
    BY <1>0, <1>2, <2>2, LeavingOthers DEF LoadRun, Goto, TypeOK, MainOK
<1>3. ASSUME NEW w \in Workers, LoadVersion(w) PROVE TerminalCopyLeaves'
  <2> DEFINE found == [copy[w] EXCEPT !.progress = row[holding[w]].progress]
  <2>1. fingerprint'[w] = NoPrint
    BY <1>0, <1>3 DEF LoadVersion, FreshUntilLoaded
  <2>2. copy[w] \in Aggregate /\ copy[w].status \notin Terminal
    BY <1>0, <1>3 DEF LoadVersion, TypeOK, MainOK, TerminalCopyLeaves
  <2>3. Recovered(found).status \notin Terminal
    BY <2>2 DEF Recovered, Aggregate
  <2>4. copy'[w] = Recovered(found)
    BY <1>0, <1>3 DEF LoadVersion, Checkpoint, TypeOK, MainOK
  <2>5. Leaving(w)'
    BY <2>1, <2>3, <2>4 DEF Leaving
  <2> QED
    BY <1>0, <1>3, <2>5, LeavingOthers DEF LoadVersion, Checkpoint, Goto, TypeOK, MainOK
<1>4. ASSUME NEW w \in Workers, CheckGuard(w) PROVE TerminalCopyLeaves'
  <2>1. Leaving(w)'
    BY <1>0, <1>4 DEF CheckGuard, Goto, TypeOK, MainOK, TerminalCopyLeaves, Leaving
  <2> QED
    BY <1>0, <1>4, <2>1, LeavingOthers DEF CheckGuard, Goto, TypeOK, MainOK
<1>5. ASSUME NEW w \in Workers, CommitSucceeds(w) PROVE TerminalCopyLeaves'
  <2>1. Leaving(w)'
    BY <1>0, <1>5 DEF CommitSucceeds, Goto, TypeOK, MainOK, TerminalCopyLeaves, Leaving
  <2> QED
    BY <1>0, <1>5, <2>1, LeavingOthers DEF CommitSucceeds, Goto, TypeOK, MainOK
<1>6. ASSUME NEW w \in Workers, CommitConflicts(w) PROVE TerminalCopyLeaves'
  <2>1. Leaving(w)'
    BY <1>0, <1>6 DEF CommitConflicts, Goto, TypeOK, MainOK, TerminalCopyLeaves, Leaving
  <2> QED
    BY <1>0, <1>6, <2>1, LeavingOthers DEF CommitConflicts, Goto, TypeOK, MainOK
<1>7. ASSUME NEW w \in Workers, Forget(w) PROVE TerminalCopyLeaves'
  <2>1. Leaving(w)'
    BY <1>0, <1>7 DEF Forget, Goto, TypeOK, MainOK, Leaving
  <2> QED
    BY <1>0, <1>7, <2>1, LeavingOthers DEF Forget, Goto, TypeOK, MainOK
<1>8. ASSUME UNCHANGED mainVars PROVE TerminalCopyLeaves'
  BY <1>0, <1>8 DEF mainVars, TerminalCopyLeaves
<1>9. ASSUME NEW w \in Workers, Main(w) \/ Heartbeat(w) \/ Fault(w) PROVE TerminalCopyLeaves'
  BY <1>0, <1>1, <1>2, <1>3, <1>4, <1>5, <1>6, <1>7, <1>8, <1>9, EngineLeaves
  DEF Main, IdlePoll, ReleaseLease, Heartbeat, Renew, ObserveLoss, Fault, ReleaseFails,
      Crash, HeartbeatFails, vars
<1>10. ASSUME NEW r \in Runs, Lapse(r) \/ StallPastLease(r) PROVE TerminalCopyLeaves'
  BY <1>8, <1>10 DEF Lapse, StallPastLease
<1>11. ASSUME NEW c \in Clients, Request(c) PROVE TerminalCopyLeaves'
  BY <1>8, <1>11 DEF Request, ReadRun, ReadVersion, SaveRequest
<1>12. CASE UNCHANGED vars
  BY <1>8, <1>12 DEF vars
<1> QED
  BY <1>9, <1>10, <1>11, <1>12 DEF Next

\* The copy of a worker turns terminal in its last checkpoint only: the
\* completion policy is applied once, after the engine loop.
THEOREM FinalizedCopyLeaves == Spec => []TerminalCopyLeaves
<1>1. LeaverInv => TerminalCopyLeaves
  BY DEF LeaverInv
<1> QED
  BY <1>1, InitLeaver, NextLeaver, PTL DEF Spec

\* The step behind the next theorem.
LEMMA FinishedStep ==
    ASSUME LeaverInv, [Next]_vars, NEW r \in Runs,
           row[r].status \in Terminal, row'[r] # row[r]
    PROVE  \/ \E w \in Workers : Committing(w, r) /\ ~Established(w)
           \/ \E c \in Clients : step[c] = "versioned" /\ target[c] = r
<1>0. TypeOK /\ EstablishedSeesRow /\ TerminalCopyLeaves
  BY DEF LeaverInv, WriterInv
<1>1. ASSUME NEW w \in Workers, CommitSucceeds(w)
      PROVE  Committing(w, r) /\ ~Established(w)
  <2>1. holding[w] = r /\ pc[w] = "commit" /\ expected[w] = version[r]
    BY <1>0, <1>1 DEF CommitSucceeds, TypeOK, MainOK, RowsOK
  <2>2. ~Established(w)
    BY <1>0, <2>1 DEF Established, EstablishedSeesRow, TerminalCopyLeaves
  <2> QED
    BY <2>1, <2>2 DEF Committing
<1>2. ASSUME NEW c \in Clients, SaveRequest(c)
      PROVE  step[c] = "versioned" /\ target[c] = r
  BY <1>0, <1>2 DEF SaveRequest, TypeOK, RowsOK, rowVars
<1>3. ASSUME UNCHANGED rowVars PROVE FALSE
  BY <1>3 DEF rowVars
<1> QED
  BY <1>1, <1>2, <1>3
  DEF Next, Main, Claim, IdlePoll, LoadRun, LoadVersion, CheckGuard, CommitConflicts, Engine,
      StartEngine, Schedule, PickTask, ExecutorProgress, ExecutorCompletes, ExecutorFails,
      ExecutorPauses, Finalize, ReleaseLease, Heartbeat, Renew, ObserveLoss, Fault,
      ReleaseFails, Crash, HeartbeatFails, Lapse, StallPastLease, Request, ReadRun,
      ReadVersion, vars

\* No worker that has written a run takes back its completion or failure.
THEOREM FinishedRunSafe == Spec => FinishedRunSafeFromEstablished
<1>1. LeaverInv /\ [Next]_vars =>
        [\A r \in Runs :
            row[r].status \in Terminal /\ row'[r] # row[r] =>
              \/ \E w \in Workers : Committing(w, r) /\ ~Established(w)
              \/ \E c \in Clients : step[c] = "versioned" /\ target[c] = r]_vars
  BY FinishedStep
<1> QED
  BY <1>1, InitLeaver, NextLeaver, PTL DEF Spec, FinishedRunSafeFromEstablished

-------------------------------------------------------------------------------
(***************************************************************************)
(* The lease columns implement RunLease.                                   *)
(***************************************************************************)

LEMMA LeaseInit == Init => Lease!Init
  BY DEF Init, Lease!Init

\* Every step is a step of the lease, or leaves it alone.
LEMMA LeaseStep == TypeOK /\ [Next]_vars => [Lease!Next]_Lease!leaseVars
<1> SUFFICES ASSUME TypeOK, [Next]_vars PROVE Lease!Next \/ UNCHANGED <<owner, live, holding>>
  BY DEF Lease!leaseVars
<1>1. ASSUME NEW w \in Workers, NEW r \in Runs, Claim(w, r) PROVE Lease!Acquire(w, r)
  BY <1>1 DEF Claim, Claimable, TypeOK, MainOK, Lease!Acquire
<1>2. ASSUME NEW w \in Workers, Renew(w)
      PROVE  holding[w] \in Runs /\ Lease!Extend(w, holding[w])
  BY <1>2 DEF Renew, TypeOK, MainOK, HeartOK, mainVars, Lease!Extend
<1>3. ASSUME NEW w \in Workers, ReleaseLease(w)
      PROVE  Lease!Leave(w) \/ \E r \in Runs : Lease!Release(w, r)
  <2>1. holding[w] \in Runs /\ holding[w] # NoRun
    BY <1>3 DEF ReleaseLease, TypeOK, MainOK
  <2>2. CASE owner[holding[w]] = w
    BY <1>3, <2>1, <2>2 DEF ReleaseLease, Forget, Lease!Release
  <2>3. CASE owner[holding[w]] # w
    BY <1>3, <2>1, <2>3 DEF ReleaseLease, Forget, Lease!Leave
  <2> QED
    BY <2>2, <2>3
<1>4. ASSUME NEW w \in Workers, Crash(w) \/ ReleaseFails(w) PROVE Lease!Leave(w)
  BY <1>4 DEF Crash, ReleaseFails, Forget, leaseVars, TypeOK, MainOK, Lease!Leave
<1>5. ASSUME NEW r \in Runs, Lapse(r) \/ StallPastLease(r) PROVE Lease!Lapse(r)
  BY <1>5 DEF Lapse, StallPastLease, mainVars, Lease!Lapse
<1>6. ASSUME NEW w \in Workers,
             \/ IdlePoll(w) \/ LoadRun(w) \/ LoadVersion(w) \/ CheckGuard(w)
             \/ CommitSucceeds(w) \/ CommitConflicts(w) \/ Engine(w)
             \/ ObserveLoss(w) \/ HeartbeatFails(w)
      PROVE  UNCHANGED <<owner, live, holding>>
  BY <1>6 DEF IdlePoll, LoadRun, LoadVersion, CheckGuard, CommitSucceeds, CommitConflicts,
              Engine, StartEngine, Schedule, PickTask, ExecutorProgress, ExecutorCompletes,
              ExecutorFails, ExecutorPauses, Finalize, ObserveLoss, HeartbeatFails,
              leaseVars, mainVars, vars
<1>7. ASSUME NEW c \in Clients, Request(c) PROVE UNCHANGED <<owner, live, holding>>
  BY <1>7 DEF Request, ReadRun, ReadVersion, SaveRequest, leaseVars, mainVars
<1>8. CASE UNCHANGED vars
  BY <1>8 DEF vars, leaseVars, mainVars
<1> QED
  BY <1>1, <1>2, <1>3, <1>4, <1>5, <1>6, <1>7, <1>8
  DEF Next, Main, Heartbeat, Fault, Lease!Next

\* A run changes hands only while it is free or its lease has lapsed, and a
\* worker clears no lease but its own.
THEOREM ImplementsLease == Spec => LeaseKept
  BY LeaseInit, LeaseStep, TypeCorrect, PTL DEF Spec, LeaseKept, Lease!Spec
================================================================================
