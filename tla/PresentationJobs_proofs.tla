------------------------ MODULE PresentationJobs_proofs ------------------------
(***************************************************************************)
(* Theorems about PresentationJobs, for any workers, sources, contracts    *)
(* and limits.  JobMove says what a step can make of one row of the table; *)
(* the lemma JobMoves, proved once over all actions, gives the bound on    *)
(* attempts, the finality of delivered and abandoned jobs and most of the  *)
(* refinement of Delivery.  PlacesOK says what a worker may rely on at     *)
(* each place; DeliveryInv is the inductive invariant.                     *)
(***************************************************************************)
EXTENDS PresentationJobs, TLAPS

Places == {"idle", "draft", "usage"} \cup Rendering \cup Settling \cup Finalizing

JobRecord == [state : JobState, attempts : Nat,
              by : Workers \cup {DraftGenerator, Nobody}, live : BOOLEAN, bound : BOOLEAN]

\* A row that waits has an attempt left, whatever its way back to waiting; a
\* row that is worked on has been started.
RowOK(j) ==
    /\ j.attempts <= MaxAttempts
    /\ j.state = "none" => j.attempts = 0
    /\ j.state \in Unclaimed => j.attempts < MaxAttempts
    /\ j.state \in {"processing", "done"} => 0 < j.attempts

RowsOK == \A s \in Sources : RowOK(job[s])

\* What the worker of a claim may rely on.
ClaimOK(w) ==
    /\ who[w] \in {w, DraftGenerator}
    /\ pc[w] \in Rendering =>
          /\ 1 <= claim[w] /\ claim[w] <= job[src[w]].attempts
          /\ who[w] = w /\ Holds(job[src[w]], w) => claim[w] = job[src[w]].attempts
    /\ pc[w] \in {"render", "verify", "complete"} /\ job[src[w]].bound => src[w] \in pdf
    /\ pc[w] \in {"verify", "complete"} => src[w] \in pptx
    /\ pc[w] = "complete" /\ Contract[src[w]] = "editorial" => src[w] \in artifact

EndOf(j) == IF j.state = "done" THEN "completed" ELSE "failed"

\* The finalizer of a run is alone.
FinalizerOK(w) ==
    pc[w] \in Finalizing =>
        /\ run[src[w]] = "running"
        /\ \A v \in Workers : pc[v] \in Finalizing /\ src[v] = src[w] => v = w

\* What a finalizer and a settling worker may rely on.
RunOK(w) ==
    /\ pc[w] \in {"pdf_done", "pptx"} => src[w] \in pdf
    /\ pc[w] = "commit" => outcome[w] \in {"paused", "completed", "failed"}
    /\ pc[w] = "commit" /\ outcome[w] = "completed" =>
          job[src[w]].state = "done" /\ src[w] \in pdf \cap pptx
    /\ pc[w] \in {"version", "save"} =>
          /\ EndsRun(job[src[w]])
          /\ run[src[w]] \in {"paused", EndOf(job[src[w]])}

PlacesOK == \A w \in Workers : ClaimOK(w) /\ FinalizerOK(w) /\ RunOK(w)

\* The inductive invariant.
DeliveryInv ==
    TypeOK /\ RowsOK /\ PlacesOK /\ DoneIsDelivered /\ CompletedRunIsDelivered

-------------------------------------------------------------------------------
(* Types. *)

\* What the types say of one worker.
LocalOK(w) ==
    /\ pc[w] \in Places
    /\ src[w] \in Sources \cup {NoSource}
    /\ who[w] \in Workers \cup {DraftGenerator}
    /\ claim[w] \in Nat
    /\ expected[w] \in Nat
    /\ outcome[w] \in {"none", "paused", "completed", "failed"}
    /\ src[w] = NoSource <=> pc[w] \in {"idle", "draft"}

\* The operators on rows yield rows.
LEMMA NewRowTypes ==
    ASSUME NEW state \in JobState, NEW bound \in BOOLEAN
    PROVE  Inserted(state, bound) \in JobRecord
  BY DEF JobRecord, JobState, NoJob, Inserted

LEMMA RowTypes ==
    ASSUME NEW j \in JobRecord
    PROVE  /\ \A state \in JobState : Released(j, state) \in JobRecord
           /\ \A to \in JobState : \A from : Moved(j, from, to) \in JobRecord
           /\ \A id \in Workers \cup {DraftGenerator} : Claimed(j, id) \in JobRecord
           /\ [j EXCEPT !.live = FALSE] \in JobRecord
           /\ Retried(j) \in JobRecord
           /\ Swept(j) \in JobRecord
           /\ \A s \in Sources : FailureState(s, j) \in JobState
<1>1. ASSUME NEW state \in JobState
      PROVE  [j EXCEPT !.state = state] \in JobRecord /\ Released(j, state) \in JobRecord
  BY DEF JobRecord, Released
<1>2. ASSUME NEW to \in JobState, NEW from PROVE Moved(j, from, to) \in JobRecord
  BY <1>1 DEF Moved
<1>3. ASSUME NEW id \in Workers \cup {DraftGenerator} PROVE Claimed(j, id) \in JobRecord
  <2>1. "processing" \in JobState
    BY DEF JobState
  <2>2. j.attempts + 1 \in Nat
    BY DEF JobRecord
  <2> QED BY <2>1, <2>2 DEF JobRecord, Claimed
<1>4. [j EXCEPT !.live = FALSE] \in JobRecord
  BY DEF JobRecord
<1>5. {"pending", "failed_terminal"} \subseteq JobState
  BY DEF JobState
<1>6. Retried(j) \in JobRecord /\ Swept(j) \in JobRecord
  BY <1>1, <1>5 DEF Retried, Swept
<1>7. \A s \in Sources : FailureState(s, j) \in JobState
  BY DEF JobState, FailureState
<1> QED BY <1>1, <1>2, <1>3, <1>4, <1>6, <1>7

\* TypeOK from its parts.
LEMMA TypeParts ==
    TypeOK <=> /\ job \in [Sources -> JobRecord]
               /\ pdf \subseteq Sources /\ pptx \subseteq Sources /\ artifact \subseteq Sources
               /\ current \subseteq Sources
               /\ run \in [Sources -> RunStatus]
               /\ version \in [Sources -> Nat]
               /\ pc \in [Workers -> Places]
               /\ src \in [Workers -> Sources \cup {NoSource}]
               /\ who \in [Workers -> Workers \cup {DraftGenerator}]
               /\ claim \in [Workers -> Nat]
               /\ expected \in [Workers -> Nat]
               /\ outcome \in [Workers -> {"none", "paused", "completed", "failed"}]
               /\ faults \in 0..MaxFaults
               /\ \A w \in Workers : src[w] = NoSource <=> pc[w] \in {"idle", "draft"}
  BY DEF TypeOK, JobRecord, Places

\* The types of the job table.
RowsTyped == job \in [Sources -> JobRecord]

LEMMA RowWritten ==
    ASSUME RowsTyped, NEW s \in Sources, NEW j \in JobRecord, job' = [job EXCEPT ![s] = j]
    PROVE  RowsTyped'
  BY DEF RowsTyped

\* Every table operation keeps them.
LEMMA TableTypes ==
    ASSUME RowsTyped, NEW s \in Sources
    PROVE  /\ Schedule(s, "pending", FALSE) => RowsTyped'
           /\ Schedule(s, "review_approved", TRUE) => RowsTyped'
           /\ \A to \in JobState : \A from : Transition(s, from, to) => RowsTyped'
<1>1. job[s] \in JobRecord
  BY DEF RowsTyped
<1>2. Inserted("pending", FALSE) \in JobRecord /\ Inserted("review_approved", TRUE) \in JobRecord
  <2>1. "pending" \in JobState /\ "review_approved" \in JobState
    BY DEF JobState
  <2> QED BY <2>1, NewRowTypes
<1>3. Retried(job[s]) \in JobRecord
  BY <1>1, RowTypes
<1>4. ASSUME NEW to \in JobState, NEW from, Transition(s, from, to) PROVE RowsTyped'
  <2>1. Moved(job[s], from, to) \in JobRecord
    BY <1>1, RowTypes
  <2> QED BY <1>4, <2>1, RowWritten DEF Transition
<1>5. Schedule(s, "pending", FALSE) => RowsTyped'
  BY <1>2, <1>3, RowWritten DEF Schedule
<1>6. Schedule(s, "review_approved", TRUE) => RowsTyped'
  BY <1>2, <1>3, RowWritten DEF Schedule
<1> QED BY <1>4, <1>5, <1>6

\* So does every step.
LEMMA RowsTypedStep == ASSUME TypeOK, [Next]_vars PROVE RowsTyped'
<1>1. RowsTyped /\ \A s \in Sources : job[s] \in JobRecord
  BY TypeParts DEF RowsTyped
<1>2. CASE UNCHANGED job
  BY <1>1, <1>2 DEF RowsTyped
<1>3. \A w \in Workers : /\ src[w] \in Sources \cup {NoSource}
                         /\ who[w] \in Workers \cup {DraftGenerator}
                         /\ src[w] = NoSource <=> pc[w] \in {"idle", "draft"}
  BY TypeParts
<1>4. {"pdf_generating", "pdf_complete", "pending", "failed_terminal", "done"} \subseteq JobState
  BY DEF JobState
<1>5. ASSUME NEW w \in Workers, ClaimNext(w) PROVE RowsTyped'
  <2>1. \A t \in Sources : Claimed(job[t], who[w]) \in JobRecord /\ Swept(job[t]) \in JobRecord
    BY <1>1, <1>3, RowTypes
  <2>2. CASE \E s \in Sources : job' = [t \in Sources |-> IF t = s THEN Claimed(job[s], who[w])
                                                                  ELSE Swept(job[t])]
    BY <2>1, <2>2 DEF RowsTyped
  <2>3. CASE job' = [t \in Sources |-> Swept(job[t])]
    BY <2>1, <2>3 DEF RowsTyped
  <2> QED BY <1>5, <2>2, <2>3 DEF ClaimNext
<1>6. ASSUME NEW w \in Workers, Complete(w) PROVE RowsTyped'
  <2>1. src[w] \in Sources
    BY <1>3, <1>6 DEF Complete
  <2>2. Released(job[src[w]], "done") \in JobRecord
    BY <1>1, <1>4, <2>1, RowTypes
  <2> QED BY <1>1, <1>6, <2>1, <2>2, RowWritten DEF Complete
<1>7. ASSUME NEW w \in Workers, Fail(w) PROVE RowsTyped'
  <2>1. src[w] \in Sources
    BY <1>3, <1>7 DEF Fail
  <2>2. Released(job[src[w]], FailureState(src[w], job[src[w]])) \in JobRecord
    BY <1>1, <2>1, RowTypes
  <2> QED BY <1>1, <1>7, <2>1, <2>2, RowWritten DEF Fail
<1>8. ASSUME NEW w \in Workers, Process(w) \/ StepFails(w) PROVE RowsTyped'
  BY <1>2, <1>6, <1>7, <1>8 DEF Process, CheckSource, MakePdf, Render, Verify, StepFails
<1>9. ASSUME NEW w \in Workers, Settle(w) \/ Crash(w) PROVE RowsTyped'
  BY <1>2, <1>9 DEF Settle, RefreshJob, ReadVersion, SaveRun, Crash
<1>10. ASSUME NEW w \in Workers, Finalize(w) \/ FinalizerFails(w) PROVE RowsTyped'
  <2>1. CASE ScheduleApproved(w)
    BY <1>1, <1>2, <1>3, <2>1, TableTypes DEF ScheduleApproved
  <2>2. CASE MarkGenerating(w) \/ MarkPdfComplete(w) \/ MarkPptxPending(w) \/ FinalizerFails(w)
    BY <1>1, <1>2, <1>3, <1>4, <2>2, TableTypes
       DEF MarkGenerating, MarkPdfComplete, MarkPptxPending, FinalizerFails
  <2> QED BY <1>2, <1>10, <2>1, <2>2 DEF Finalize, PassApproval, FinalizerPdf, CommitOutcome, CommitUsage
<1>11. ASSUME NEW w \in Workers, NEW s \in Sources, GenerateDraft(w, s) \/ StartFinalization(w, s)
       PROVE  RowsTyped'
  BY <1>1, <1>2, <1>11, TableTypes DEF GenerateDraft, StartFinalization
<1>12. ASSUME NEW s \in Sources, UserSchedule(s) \/ RecoverRun(s) \/ Supersede(s)
       PROVE  RowsTyped'
  BY <1>1, <1>2, <1>12, TableTypes DEF UserSchedule, RecoverRun, Supersede
<1>13. ASSUME NEW s \in Sources, Lapse(s) PROVE RowsTyped'
  <2>1. [job[s] EXCEPT !.live = FALSE] \in JobRecord
    BY <1>1, RowTypes
  <2> QED BY <1>1, <1>13, <2>1, RowWritten DEF Lapse
<1>14. CASE UNCHANGED vars
  BY <1>2, <1>14 DEF vars
<1> QED BY <1>5, <1>8, <1>9, <1>10, <1>11, <1>12, <1>13, <1>14 DEF Next

\* The stores and the runs.
StoresTyped ==
    /\ pdf \subseteq Sources /\ pptx \subseteq Sources /\ artifact \subseteq Sources
    /\ current \subseteq Sources
    /\ run \in [Sources -> RunStatus]
    /\ version \in [Sources -> Nat]
    /\ faults \in 0..MaxFaults

\* The workers.
LocalsTyped ==
    /\ pc \in [Workers -> Places]
    /\ src \in [Workers -> Sources \cup {NoSource}]
    /\ who \in [Workers -> Workers \cup {DraftGenerator}]
    /\ claim \in [Workers -> Nat]
    /\ expected \in [Workers -> Nat]
    /\ outcome \in [Workers -> {"none", "paused", "completed", "failed"}]
    /\ \A w \in Workers : src[w] = NoSource <=> pc[w] \in {"idle", "draft"}

LEMMA TypesSplit == TypeOK <=> RowsTyped /\ StoresTyped /\ LocalsTyped
  BY DEF TypeOK, RowsTyped, JobRecord, StoresTyped, LocalsTyped, Places

\* Where a worker has a source.
LEMMA AtWork ==
    ASSUME LocalsTyped, NEW w \in Workers, pc[w] \notin {"idle", "draft"}
    PROVE  src[w] \in Sources
  BY DEF LocalsTyped

LEMMA StoresTypedStep == ASSUME TypeOK, [Next]_vars PROVE StoresTyped'
<1>1. StoresTyped /\ LocalsTyped
  BY TypesSplit
<1>2. CASE UNCHANGED <<storeVars, current, runVars, faults>>
  BY <1>1, <1>2 DEF StoresTyped, storeVars, runVars
<1>3. \A w \in Workers : pc[w] \notin {"idle", "draft"} => src[w] \in Sources
  BY <1>1, AtWork
<1>4. ASSUME NEW w \in Workers, Process(w) \/ StepFails(w) PROVE StoresTyped'
  <2>1. CASE MakePdf(w)
    BY <1>1, <1>3, <2>1 DEF MakePdf, StoresTyped, runVars
  <2>2. CASE Render(w)
    BY <1>1, <1>3, <2>2 DEF Render, StoresTyped, runVars
  <2> QED BY <1>2, <1>4, <2>1, <2>2
          DEF Process, CheckSource, Verify, Complete, Fail, StepFails
<1>5. ASSUME NEW w \in Workers, Settle(w) PROVE StoresTyped'
  <2>1. CASE SaveRun(w)
    <3>1. src[w] \in Sources
      BY <1>3, <2>1 DEF SaveRun
    <3>2. CASE UNCHANGED runVars
      BY <1>2, <2>1, <3>2 DEF SaveRun
    <3>3. CASE /\ run' = [run EXCEPT ![src[w]] =
                             IF job[src[w]].state = "done" THEN "completed" ELSE "failed"]
               /\ version' = [version EXCEPT ![src[w]] = @ + 1]
      BY <1>1, <2>1, <3>1, <3>3 DEF SaveRun, StoresTyped, storeVars, RunStatus
    <3> QED BY <2>1, <3>2, <3>3 DEF SaveRun
  <2> QED BY <1>2, <1>5, <2>1 DEF Settle, RefreshJob, ReadVersion
<1>6. ASSUME NEW w \in Workers, Finalize(w) \/ FinalizerFails(w) PROVE StoresTyped'
  <2>1. CASE PassApproval(w)
    BY <1>1, <1>3, <2>1 DEF PassApproval, StoresTyped, runVars
  <2>2. CASE FinalizerPdf(w)
    BY <1>1, <1>3, <2>2 DEF FinalizerPdf, StoresTyped, runVars
  <2>3. CASE CommitOutcome(w)
    <3>1. src[w] \in Sources /\ outcome[w] \in RunStatus
      BY <1>1, <1>3, <2>3 DEF CommitOutcome, LocalsTyped, RunStatus
    <3> QED BY <1>1, <2>3, <3>1 DEF CommitOutcome, StoresTyped, storeVars
  <2>4. CASE CommitUsage(w)
    <3>1. src[w] \in Sources
      BY <1>3, <2>4 DEF CommitUsage
    <3> QED BY <1>1, <2>4, <3>1 DEF CommitUsage, StoresTyped, storeVars
  <2> QED BY <1>2, <1>6, <2>1, <2>2, <2>3, <2>4
          DEF Finalize, FinalizerFails, ScheduleApproved, MarkGenerating, MarkPdfComplete, MarkPptxPending
<1>7. ASSUME NEW w \in Workers, Crash(w) PROVE StoresTyped'
  BY <1>1, <1>7, BoundsAssumption DEF Crash, StoresTyped, storeVars, runVars
<1>8. ASSUME NEW w \in Workers, NEW s \in Sources, GenerateDraft(w, s) PROVE StoresTyped'
  BY <1>1, <1>8 DEF GenerateDraft, StoresTyped, runVars
<1>9. ASSUME NEW w \in Workers, NEW s \in Sources, StartFinalization(w, s) PROVE StoresTyped'
  BY <1>1, <1>9 DEF StartFinalization, StoresTyped, storeVars, RunStatus
<1>10. ASSUME NEW s \in Sources, RecoverRun(s) PROVE StoresTyped'
  BY <1>1, <1>10 DEF RecoverRun, StoresTyped, storeVars, RunStatus
<1>11. ASSUME NEW s \in Sources, UserSchedule(s) \/ Lapse(s) PROVE StoresTyped'
  BY <1>2, <1>11 DEF UserSchedule, Lapse
<1>12. ASSUME NEW s \in Sources, Supersede(s) PROVE StoresTyped'
  BY <1>1, <1>12 DEF Supersede, StoresTyped, storeVars, runVars
<1>13. ASSUME NEW w \in Workers, ClaimNext(w) PROVE StoresTyped'
  BY <1>2, <1>13 DEF ClaimNext
<1>14. CASE UNCHANGED vars
  BY <1>2, <1>14 DEF vars
<1> QED BY <1>4, <1>5, <1>6, <1>7, <1>8, <1>9, <1>10, <1>11, <1>12, <1>13, <1>14 DEF Next

\* Leaving and moving on keep the types of the workers.
LEMMA LeaveTyped ==
    ASSUME LocalsTyped, NEW w \in Workers, Leave(w)
    PROVE  LocalsTyped'
  BY SourcesAssumption DEF LocalsTyped, Leave, Goto, Places

LEMMA GotoTyped ==
    ASSUME LocalsTyped, NEW w \in Workers, pc[w] \notin {"idle", "draft"},
           NEW place \in Places \ {"idle", "draft"}, Goto(w, place),
           UNCHANGED <<src, who, claim>>,
           expected' = expected \/ \E n \in Nat : expected' = [expected EXCEPT ![w] = n],
           outcome' = outcome \/ \E o \in {"paused", "completed", "failed"} :
                                    outcome' = [outcome EXCEPT ![w] = o]
    PROVE  LocalsTyped'
<1>1. pc' \in [Workers -> Places] /\ expected' \in [Workers -> Nat]
      /\ outcome' \in [Workers -> {"none", "paused", "completed", "failed"}]
  BY DEF LocalsTyped, Goto
<1> QED BY <1>1 DEF LocalsTyped, Goto

LEMMA LocalsTypedStep == ASSUME TypeOK, [Next]_vars PROVE LocalsTyped'
<1>1. StoresTyped /\ LocalsTyped /\ RowsTyped
  BY TypesSplit
<1>2. CASE UNCHANGED localVars
  BY <1>1, <1>2 DEF LocalsTyped, localVars
<1>3. \A w \in Workers : pc[w] \notin {"idle", "draft"} => src[w] \in Sources
  BY <1>1, AtWork
<1>4. ASSUME NEW w \in Workers, Process(w) \/ StepFails(w) PROVE LocalsTyped'
  <2>1. \E place \in Rendering \cup {"refresh"} : Goto(w, place)
    BY <1>4 DEF Process, CheckSource, MakePdf, Render, Verify, Complete, Fail, StepFails, Rendering
  <2>2. pc[w] \notin {"idle", "draft"} /\ UNCHANGED <<src, who, claim, expected, outcome>>
    BY <1>4 DEF Process, CheckSource, MakePdf, Render, Verify, Complete, Fail, StepFails
  <2> QED BY <1>1, <2>1, <2>2, GotoTyped DEF Rendering, Settling, Places
<1>5. ASSUME NEW w \in Workers, ClaimNext(w) PROVE LocalsTyped'
  <2>1. CASE Leave(w)
    BY <1>1, <2>1, LeaveTyped
  <2>2. CASE \E s \in Sources :
                /\ Goto(w, "check")
                /\ src' = [src EXCEPT ![w] = s]
                /\ claim' = [claim EXCEPT ![w] = job[s].attempts + 1]
                /\ UNCHANGED <<who, expected, outcome>>
    <3>1. PICK s \in Sources :
                /\ Goto(w, "check")
                /\ src' = [src EXCEPT ![w] = s]
                /\ claim' = [claim EXCEPT ![w] = job[s].attempts + 1]
                /\ UNCHANGED <<who, expected, outcome>>
      BY <2>2
    <3>2. job[s].attempts + 1 \in Nat
      BY <1>1 DEF RowsTyped, JobRecord
    <3>3. "check" \in Places
      BY DEF Places, Rendering
    <3> QED BY <1>1, <3>1, <3>2, <3>3, SourcesAssumption DEF LocalsTyped, Goto
  <2> QED BY <1>5, <2>1, <2>2 DEF ClaimNext
<1>6. ASSUME NEW w \in Workers, Settle(w) \/ Crash(w) PROVE LocalsTyped'
  <2>1. CASE Leave(w)
    BY <1>1, <2>1, LeaveTyped
  <2>2. CASE RefreshJob(w) /\ ~Leave(w)
    BY <1>1, <2>2, GotoTyped DEF RefreshJob, Settling, Places
  <2>3. CASE ReadVersion(w)
    <3>1. version[src[w]] \in Nat
      BY <1>1, <1>3, <2>3 DEF ReadVersion, StoresTyped
    <3> QED BY <1>1, <2>3, <3>1, GotoTyped DEF ReadVersion, Settling, Places
  <2> QED BY <1>6, <2>1, <2>2, <2>3 DEF Settle, SaveRun, Crash
<1>7. ASSUME NEW w \in Workers, FinalizerFails(w) \/ Finalize(w) PROVE LocalsTyped'
  <2>1. CASE Leave(w)
    BY <1>1, <2>1, LeaveTyped
  <2>2. CASE pc[w] \notin {"idle", "draft"}
             /\ (Conclude(w, "failed") \/ Conclude(w, "paused") \/ Conclude(w, "completed"))
    BY <1>1, <2>2, GotoTyped DEF Conclude, Finalizing, Places
  <2>3. CASE pc[w] \notin {"idle", "draft"} /\ UNCHANGED <<src, who, claim, expected, outcome>>
             /\ \E place \in Finalizing : Goto(w, place)
    BY <1>1, <2>3, GotoTyped DEF Finalizing, Places
  <2>4. CASE CommitOutcome(w) /\ ~Leave(w)
    <3>1. expected[w] + 1 \in Nat
      BY <1>1 DEF LocalsTyped
    <3> QED BY <1>1, <2>4, <3>1, GotoTyped DEF CommitOutcome, Places
  <2>5. PassApproval(w) \/ ScheduleApproved(w) \/ FinalizerFails(w) \/ MarkPptxPending(w) => LocalsTyped'
    BY <2>2, <2>3 DEF PassApproval, ScheduleApproved, FinalizerFails, MarkPptxPending, Conclusion, Finalizing
  <2>6. MarkGenerating(w) \/ FinalizerPdf(w) \/ MarkPdfComplete(w) => LocalsTyped'
    BY <2>3 DEF MarkGenerating, FinalizerPdf, MarkPdfComplete, Finalizing
  <2> QED BY <1>7, <2>1, <2>4, <2>5, <2>6 DEF Finalize, CommitUsage
<1>8. ASSUME NEW w \in Workers, NEW s \in Sources, GenerateDraft(w, s) PROVE LocalsTyped'
  BY <1>1, <1>8 DEF GenerateDraft, LocalsTyped, Goto, Places
<1>9. ASSUME NEW w \in Workers, NEW s \in Sources, StartFinalization(w, s) PROVE LocalsTyped'
  <2>1. version[s] + 1 \in Nat
    BY <1>1 DEF StoresTyped
  <2>2. "authority" \in Places
    BY DEF Places, Finalizing
  <2> QED BY <1>1, <1>9, <2>1, <2>2, SourcesAssumption DEF StartFinalization, LocalsTyped, Goto
<1>10. ASSUME NEW s \in Sources, UserSchedule(s) \/ RecoverRun(s) \/ Lapse(s) \/ Supersede(s)
       PROVE  LocalsTyped'
  BY <1>2, <1>10 DEF UserSchedule, RecoverRun, Lapse, Supersede
<1>11. CASE UNCHANGED vars
  BY <1>2, <1>11 DEF vars
<1> QED BY <1>4, <1>5, <1>6, <1>7, <1>8, <1>9, <1>10, <1>11 DEF Next

LEMMA InitTyped == Init => TypeOK
<1> SUFFICES ASSUME Init PROVE TypeOK
  OBVIOUS
<1>1. RowsTyped
  BY DEF Init, NoJob, JobRecord, JobState, RowsTyped
<1>2. StoresTyped
  BY BoundsAssumption DEF Init, StoresTyped, RunStatus
<1>3. LocalsTyped
  BY DEF Init, LocalsTyped, Places
<1> QED BY <1>1, <1>2, <1>3, TypesSplit

LEMMA TypesKept == TypeOK /\ [Next]_vars => TypeOK'
<1> SUFFICES ASSUME TypeOK, [Next]_vars PROVE TypeOK'
  OBVIOUS
<1>1. RowsTyped' /\ StoresTyped' /\ LocalsTyped'
  BY RowsTypedStep, StoresTypedStep, LocalsTypedStep
<1> QED BY <1>1 DEF TypeOK, RowsTyped, JobRecord, StoresTyped, LocalsTyped, Places

\* The tables and the workers are well-typed, for any numbers of workers,
\* sources, attempts and crashes.
THEOREM TypeCorrect == Spec => []TypeOK
<1> QED BY InitTyped, TypesKept, PTL DEF Spec

-------------------------------------------------------------------------------
(* What a step makes of one row of the table. *)

Scheduled(j, k) == j.state = "none" /\ k.state \in Unclaimed /\ k.attempts = 0

Requeued(j, k) ==
    /\ j.state \in {"failed", "retry_wait"} /\ j.attempts < MaxAttempts
    /\ k.state = "pending" /\ k.attempts = j.attempts /\ k.bound = j.bound

Walked(j, k) ==
    /\ j.state \in Unclaimed /\ k.state \in Unclaimed \cup {"failed_terminal"}
    /\ k.attempts = j.attempts /\ k.bound = j.bound

Taken(j, k) ==
    /\ Claimable(j)
    /\ k.state = "processing" /\ k.attempts = j.attempts + 1 /\ k.bound = j.bound
    /\ \E w \in Workers : pc[w] \in {"idle", "draft"} /\ k.by = who[w]

GivenUp(s, j, k) ==
    /\ j.state = "processing"
    /\ \/ k.state = "failed_terminal" /\ MaxAttempts <= j.attempts
       \/ k.state = FailureState(s, j)
    /\ k.attempts = j.attempts /\ k.bound = j.bound

Finished(s, j, k) ==
    /\ j.state = "processing" /\ k.state = "done"
    /\ k.attempts = j.attempts /\ k.bound = j.bound
    /\ s \in pptx
    /\ j.bound => s \in pdf
    /\ j.bound /\ Contract[s] = "editorial" => s \in artifact

Lapsed(j, k) == k = [j EXCEPT !.live = FALSE]

JobMove(s, j, k) ==
    \/ k = j \/ Scheduled(j, k) \/ Requeued(j, k) \/ Walked(j, k) \/ Taken(j, k)
    \/ GivenUp(s, j, k) \/ Finished(s, j, k) \/ Lapsed(j, k)

JobMoves == \A s \in Sources : JobMove(s, job[s], job'[s])

\* One row is written.
LEMMA RowMoves ==
    ASSUME TypeOK, NEW s \in Sources, NEW k,
           job' = [job EXCEPT ![s] = k], JobMove(s, job[s], k)
    PROVE  JobMoves
<1>1. job \in [Sources -> JobRecord]
  BY TypeParts
<1> QED BY <1>1 DEF JobMoves, JobMove

\* Scheduling and the transitions of a finalization.
LEMMA ScheduleMoves ==
    ASSUME TypeOK, NEW s \in Sources, NEW state \in Unclaimed, NEW bound \in BOOLEAN,
           Schedule(s, state, bound)
    PROVE  JobMoves
<1> DEFINE j == job[s]
<1>1. j \in JobRecord
  BY TypeParts
<1>2. CASE j.state = "none"
  <2>1. Scheduled(j, Inserted(state, bound))
    BY <1>2 DEF Scheduled, Inserted, NoJob
  <2> QED BY <1>2, <2>1, RowMoves DEF Schedule, JobMove
<1>3. CASE j.state # "none"
  <2>1. Retried(j) = j \/ Requeued(j, Retried(j))
    BY <1>1 DEF Retried, Requeued, JobRecord
  <2> QED BY <1>3, <2>1, RowMoves DEF Schedule, JobMove
<1> QED BY <1>2, <1>3

LEMMA TransitionMoves ==
    ASSUME TypeOK, NEW s \in Sources, NEW from \in SUBSET Unclaimed,
           NEW to \in Unclaimed \cup {"failed_terminal"}, Transition(s, from, to)
    PROVE  JobMoves
<1> DEFINE j == job[s]
<1>1. j \in JobRecord
  BY TypeParts
<1>2. Moved(j, from, to) = j \/ Walked(j, Moved(j, from, to))
  BY <1>1 DEF Moved, Walked, JobRecord
<1> QED BY <1>2, RowMoves DEF Transition, JobMove

\* Every step moves every row in one of these ways.
LEMMA StepMoves == ASSUME TypeOK, RowsOK, PlacesOK, [Next]_vars PROVE JobMoves
<1>1. LocalsTyped /\ \A s \in Sources : job[s] \in JobRecord
  BY TypeParts, TypesSplit
<1>2. CASE UNCHANGED job
  BY <1>2 DEF JobMoves, JobMove
<1>3. \A w \in Workers : pc[w] \notin {"idle", "draft"} => src[w] \in Sources
  BY <1>1, AtWork
<1>4. ASSUME NEW w \in Workers, ClaimNext(w) PROVE JobMoves
  <2>1. ASSUME NEW s \in Sources, Claimable(job[s])
        PROVE  Taken(job[s], Claimed(job[s], who[w]))
    BY <1>1, <1>4, <2>1 DEF ClaimNext, Taken, Claimed, JobRecord
  <2>2. ASSUME NEW s \in Sources
        PROVE  Swept(job[s]) = job[s] \/ GivenUp(s, job[s], Swept(job[s]))
    BY <1>1 DEF Swept, Exhausted, Released, GivenUp, JobRecord
  <2>3. CASE \E s \in Sources :
                /\ Claimable(job[s])
                /\ job' = [t \in Sources |-> IF t = s THEN Claimed(job[s], who[w])
                                                      ELSE Swept(job[t])]
    BY <2>1, <2>2, <2>3 DEF JobMoves, JobMove
  <2>4. CASE job' = [t \in Sources |-> Swept(job[t])]
    BY <2>2, <2>4 DEF JobMoves, JobMove
  <2> QED BY <1>4, <2>3, <2>4 DEF ClaimNext
<1>5. ASSUME NEW w \in Workers, Complete(w) PROVE JobMoves
  <2> DEFINE j == job[src[w]]
             k == IF Holds(j, who[w]) /\ j.live THEN Released(j, "done") ELSE j
  <2>1. src[w] \in Sources /\ job' = [job EXCEPT ![src[w]] = k]
    BY <1>3, <1>5 DEF Complete
  <2>2. k = j \/ Finished(src[w], j, k)
    BY <1>1, <1>5, <2>1 DEF Complete, Holds, Released, Finished, JobRecord, PlacesOK, ClaimOK
  <2>3. JobMove(src[w], j, k)
    BY <2>2 DEF JobMove
  <2> HIDE DEF k
  <2> QED BY <2>1, <2>3, RowMoves
<1>6. ASSUME NEW w \in Workers, Fail(w) PROVE JobMoves
  <2> DEFINE j == job[src[w]]
             k == IF Holds(j, who[w]) THEN Released(j, FailureState(src[w], j)) ELSE j
  <2>1. src[w] \in Sources /\ job' = [job EXCEPT ![src[w]] = k]
    BY <1>3, <1>6 DEF Fail
  <2>2. k = j \/ GivenUp(src[w], j, k)
    BY <1>1, <2>1 DEF Holds, Released, GivenUp, JobRecord
  <2>3. JobMove(src[w], j, k)
    BY <2>2 DEF JobMove
  <2> HIDE DEF k
  <2> QED BY <2>1, <2>3, RowMoves
<1>7. ASSUME NEW w \in Workers, Process(w) \/ StepFails(w) PROVE JobMoves
  BY <1>2, <1>5, <1>6, <1>7 DEF Process, CheckSource, MakePdf, Render, Verify, StepFails
<1>8. ASSUME NEW w \in Workers, Settle(w) \/ Crash(w) PROVE JobMoves
  BY <1>2, <1>8 DEF Settle, RefreshJob, ReadVersion, SaveRun, Crash
<1>9. {"pending", "review_approved", "pdf_generating", "pdf_complete"} \subseteq Unclaimed
  BY DEF Unclaimed
<1>10. ASSUME NEW w \in Workers, Finalize(w) \/ FinalizerFails(w) PROVE JobMoves
  <2>1. CASE ScheduleApproved(w)
    BY <1>2, <1>3, <1>9, <2>1, ScheduleMoves DEF ScheduleApproved
  <2>2. CASE MarkGenerating(w)
    BY <1>3, <1>9, <2>2, TransitionMoves DEF MarkGenerating
  <2>3. CASE MarkPdfComplete(w)
    BY <1>3, <1>9, <2>3, TransitionMoves DEF MarkPdfComplete
  <2>4. CASE MarkPptxPending(w)
    BY <1>3, <1>9, <2>4, TransitionMoves DEF MarkPptxPending
  <2>5. CASE FinalizerFails(w)
    BY <1>2, <1>3, <1>9, <2>5, TransitionMoves DEF FinalizerFails
  <2> QED BY <1>2, <1>10, <2>1, <2>2, <2>3, <2>4, <2>5
          DEF Finalize, PassApproval, FinalizerPdf, CommitOutcome, CommitUsage
<1>11. ASSUME NEW w \in Workers, NEW s \in Sources, GenerateDraft(w, s) \/ StartFinalization(w, s)
       PROVE  JobMoves
  BY <1>2, <1>9, <1>11, ScheduleMoves DEF GenerateDraft, StartFinalization
<1>12. ASSUME NEW s \in Sources, UserSchedule(s) \/ RecoverRun(s) \/ Supersede(s) PROVE JobMoves
  BY <1>2, <1>9, <1>12, ScheduleMoves DEF UserSchedule, RecoverRun, Supersede
<1>13. ASSUME NEW s \in Sources, Lapse(s) PROVE JobMoves
  BY <1>13, RowMoves DEF Lapse, JobMove, Lapsed
<1>14. CASE UNCHANGED vars
  BY <1>2, <1>14 DEF vars
<1> QED BY <1>4, <1>7, <1>8, <1>10, <1>11, <1>12, <1>13, <1>14 DEF Next

\* What every move leaves alone: attempts only grow and respect the limit, a
\* row stays bound or unbound, and the two last states are last.
LEMMA MoveKeeps ==
    ASSUME NEW s \in Sources, NEW j \in JobRecord, NEW k \in JobRecord, JobMove(s, j, k), RowOK(j)
    PROVE  /\ RowOK(k)
           /\ j.attempts <= k.attempts
           /\ j.state # "none" => k.state # "none" /\ k.bound = j.bound
           /\ j.state = "done" => k.state = "done"
           /\ j.state = "failed_terminal" => k.state = "failed_terminal"
<1>1. MaxAttempts \in Nat \ {0}
  BY BoundsAssumption
<1>2. j.attempts \in Nat /\ k.attempts \in Nat
  BY DEF JobRecord
<1>3. CASE k = j
  BY <1>2, <1>3
<1>4. CASE Scheduled(j, k)
  BY <1>1, <1>2, <1>4 DEF Scheduled, RowOK, Unclaimed
<1>5. CASE Requeued(j, k)
  BY <1>1, <1>2, <1>5 DEF Requeued, RowOK, Unclaimed
<1>6. CASE Walked(j, k)
  BY <1>1, <1>2, <1>6 DEF Walked, RowOK, Unclaimed
<1>7. CASE Taken(j, k)
  BY <1>1, <1>2, <1>7 DEF Taken, Claimable, RowOK, Unclaimed
<1>8. CASE GivenUp(s, j, k)
  BY <1>1, <1>2, <1>8 DEF GivenUp, FailureState, RowOK, Unclaimed
<1>9. CASE Finished(s, j, k)
  BY <1>1, <1>2, <1>9 DEF Finished, RowOK, Unclaimed
<1>10. CASE Lapsed(j, k)
  <2>1. k.state = j.state /\ k.attempts = j.attempts /\ k.bound = j.bound
    BY <1>10 DEF Lapsed, JobRecord
  <2> QED BY <1>2, <2>1 DEF RowOK
<1> QED BY <1>3, <1>4, <1>5, <1>6, <1>7, <1>8, <1>9, <1>10 DEF JobMove

\* A row that a worker holds after a step it held before, in the same claim.
LEMMA MoveHolds ==
    ASSUME NEW s \in Sources, NEW j \in JobRecord, NEW k \in JobRecord, JobMove(s, j, k),
           NEW w \in Workers, \A v \in Workers : who[v] \in {v, DraftGenerator},
           pc[w] \notin {"idle", "draft"}, Holds(k, w)
    PROVE  Holds(j, w) /\ k.attempts = j.attempts
<1>1. ~Taken(j, k)
  BY WorkersAssumption DEF Taken, Holds
<1>2. Lapsed(j, k) => k.state = j.state /\ k.attempts = j.attempts /\ k.by = j.by
  BY DEF Lapsed, JobRecord
<1>3. k = j \/ Lapsed(j, k)
  BY <1>1 DEF JobMove, Scheduled, Requeued, Walked, GivenUp, Finished, Holds, Unclaimed, FailureState
<1> QED BY <1>2, <1>3 DEF Holds

\* Deliverables are stored and never lost.
StoresGrow == pdf \subseteq pdf' /\ pptx \subseteq pptx' /\ artifact \subseteq artifact'

LEMMA StoresOnlyGrow == [Next]_vars => StoresGrow
<1> SUFFICES ASSUME [Next]_vars PROVE StoresGrow
  OBVIOUS
<1>1. UNCHANGED storeVars => StoresGrow
  BY DEF storeVars, StoresGrow
<1>2. ASSUME NEW w \in Workers, Process(w) \/ StepFails(w) PROVE StoresGrow
  BY <1>1, <1>2 DEF Process, CheckSource, MakePdf, Render, Verify, Complete, Fail, StepFails, StoresGrow
<1>3. ASSUME NEW w \in Workers, Settle(w) \/ Crash(w) \/ ClaimNext(w) PROVE StoresGrow
  BY <1>1, <1>3 DEF Settle, RefreshJob, ReadVersion, SaveRun, Crash, ClaimNext
<1>4. ASSUME NEW w \in Workers, Finalize(w) \/ FinalizerFails(w) PROVE StoresGrow
  BY <1>1, <1>4 DEF Finalize, PassApproval, ScheduleApproved, MarkGenerating, FinalizerPdf, MarkPdfComplete,
     MarkPptxPending, CommitOutcome, CommitUsage, FinalizerFails, StoresGrow, storeVars
<1>5. ASSUME NEW w \in Workers, NEW s \in Sources, GenerateDraft(w, s) \/ StartFinalization(w, s)
      PROVE  StoresGrow
  BY <1>1, <1>5 DEF GenerateDraft, StartFinalization, StoresGrow
<1>6. ASSUME NEW s \in Sources, UserSchedule(s) \/ RecoverRun(s) \/ Lapse(s) \/ Supersede(s)
      PROVE  StoresGrow
  BY <1>1, <1>6 DEF UserSchedule, RecoverRun, Lapse, Supersede
<1>7. UNCHANGED vars => StoresGrow
  BY <1>1 DEF vars
<1> QED BY <1>2, <1>3, <1>4, <1>5, <1>6, <1>7 DEF Next

-------------------------------------------------------------------------------
(* What a step makes of one run. *)

Started(s) == run[s] = "ready" /\ run'[s] = "running"

\* Its own task, or the recovery, takes it out of RUNNING.
TaskEnds(s) ==
    /\ run[s] = "running" /\ run'[s] \in {"paused", "completed", "failed"}
    /\ \A v \in Workers : pc'[v] \in Finalizing => src'[v] # s
    /\ run'[s] = "completed" => job[s].state = "done" /\ s \in pdf \cap pptx

\* The settlement, or its repetition by a second worker.
Concluded(s) ==
    /\ EndsRun(job[s]) /\ run[s] \in {"paused", EndOf(job[s])}
    /\ run'[s] = EndOf(job[s])

RunMove(s) == run'[s] = run[s] \/ Started(s) \/ TaskEnds(s) \/ Concluded(s)

LEMMA RunMoves == ASSUME TypeOK, PlacesOK, [Next]_vars PROVE \A s \in Sources : RunMove(s)
<1> DEFINE Good == \A s \in Sources : RunMove(s)
<1>1. LocalsTyped /\ run \in [Sources -> RunStatus]
  BY TypeParts, TypesSplit
<1>2. CASE UNCHANGED run
  BY <1>2 DEF RunMove
<1>3. \A w \in Workers : pc[w] \notin {"idle", "draft"} => src[w] \in Sources
  BY <1>1, AtWork
<1>4. ASSUME NEW w \in Workers, NEW s \in Sources, StartFinalization(w, s) PROVE Good
  BY <1>1, <1>4 DEF StartFinalization, RunMove, Started
<1>5. ASSUME NEW w \in Workers, CommitOutcome(w) PROVE Good
  <2>1. src[w] \in Sources /\ run' = [run EXCEPT ![src[w]] = outcome[w]]
    BY <1>3, <1>5 DEF CommitOutcome
  <2>2. RunOK(w) /\ FinalizerOK(w) /\ pc[w] \in Finalizing
    BY <1>5 DEF CommitOutcome, PlacesOK, Finalizing
  <2>3. pc'[w] \notin Finalizing /\ \A v \in Workers \ {w} : pc'[v] = pc[v] /\ src'[v] = src[v]
    BY <1>1, <1>5 DEF CommitOutcome, Leave, Goto, LocalsTyped, Finalizing
  <2>4. TaskEnds(src[w])
    BY <1>1, <1>5, <2>1, <2>2, <2>3 DEF CommitOutcome, RunOK, FinalizerOK, TaskEnds, LocalsTyped, Finalizing
  <2> QED BY <1>1, <2>1, <2>4 DEF RunMove
<1>6. ASSUME NEW s \in Sources, RecoverRun(s) PROVE Good
  BY <1>1, <1>6 DEF RecoverRun, RunMove, TaskEnds, Finalizing, localVars
<1>7. ASSUME NEW w \in Workers, SaveRun(w) PROVE Good
  <2>1. src[w] \in Sources
    BY <1>3, <1>7 DEF SaveRun
  <2>2. CASE run' = [run EXCEPT ![src[w]] =
                       IF job[src[w]].state = "done" THEN "completed" ELSE "failed"]
    <3>1. Concluded(src[w])
      BY <1>1, <1>7, <2>1, <2>2 DEF SaveRun, Concluded, EndOf, PlacesOK, RunOK
    <3> QED BY <1>1, <2>1, <2>2, <3>1 DEF RunMove
  <2> QED BY <1>2, <1>7, <2>2 DEF SaveRun, runVars
<1>8. ASSUME NEW w \in Workers, Process(w) \/ StepFails(w) PROVE Good
  BY <1>2, <1>8 DEF Process, CheckSource, MakePdf, Render, Verify, Complete, Fail, StepFails, runVars
<1>9. ASSUME NEW w \in Workers, Settle(w) \/ Crash(w) \/ ClaimNext(w) PROVE Good
  BY <1>2, <1>7, <1>9 DEF Settle, RefreshJob, ReadVersion, Crash, ClaimNext, runVars
<1>10. ASSUME NEW w \in Workers, Finalize(w) \/ FinalizerFails(w) PROVE Good
  BY <1>2, <1>5, <1>10 DEF Finalize, PassApproval, ScheduleApproved, MarkGenerating, FinalizerPdf,
     MarkPdfComplete, MarkPptxPending, CommitUsage, FinalizerFails, runVars
<1>11. ASSUME NEW s \in Sources, UserSchedule(s) \/ Lapse(s) \/ Supersede(s) PROVE Good
  BY <1>2, <1>11 DEF UserSchedule, Lapse, Supersede, runVars
<1>12. ASSUME NEW w \in Workers, NEW s \in Sources, GenerateDraft(w, s) PROVE Good
  BY <1>2, <1>12 DEF GenerateDraft, runVars
<1>13. CASE UNCHANGED vars
  BY <1>2, <1>13 DEF vars, runVars
<1> QED BY <1>4, <1>6, <1>8, <1>9, <1>10, <1>11, <1>12, <1>13 DEF Next

-------------------------------------------------------------------------------
(* What a step makes of the workers. *)

\* Who finalizes after a step did so before, or has just started.
LEMMA FinalizersKnown ==
    ASSUME TypeOK, [Next]_vars, NEW v \in Workers, pc'[v] \in Finalizing
    PROVE  \/ pc[v] \in Finalizing /\ src'[v] = src[v]
           \/ StartFinalization(v, src'[v])
<1> DEFINE Known == \/ pc[v] \in Finalizing /\ src'[v] = src[v]
                    \/ StartFinalization(v, src'[v])
<1>1. LocalsTyped
  BY TypesSplit
<1>2. CASE UNCHANGED <<pc, src>>
  BY <1>2
<1>3. ASSUME NEW w \in Workers, Process(w) \/ StepFails(w) PROVE Known
  BY <1>1, <1>3 DEF Process, CheckSource, MakePdf, Render, Verify, Complete, Fail, StepFails,
     Goto, LocalsTyped, Finalizing
<1>4. ASSUME NEW w \in Workers, Leave(w) PROVE Known
  BY <1>1, <1>4 DEF Leave, Goto, LocalsTyped, Finalizing
<1>5. ASSUME NEW w \in Workers, ClaimNext(w) PROVE Known
  BY <1>1, <1>4, <1>5 DEF ClaimNext, Goto, LocalsTyped, Finalizing
<1>6. ASSUME NEW w \in Workers, Settle(w) \/ Crash(w) PROVE Known
  BY <1>1, <1>4, <1>6 DEF Settle, RefreshJob, ReadVersion, SaveRun, Crash, Goto, LocalsTyped, Finalizing
<1>7. ASSUME NEW w \in Workers, Finalize(w) \/ FinalizerFails(w) PROVE Known
  BY <1>1, <1>4, <1>7 DEF Finalize, PassApproval, ScheduleApproved, MarkGenerating, FinalizerPdf,
     MarkPdfComplete, MarkPptxPending, CommitOutcome, CommitUsage, FinalizerFails, Conclude,
     Goto, LocalsTyped, Finalizing
<1>8. ASSUME NEW w \in Workers, NEW s \in Sources, GenerateDraft(w, s) PROVE Known
  BY <1>1, <1>8 DEF GenerateDraft, Goto, LocalsTyped, Finalizing
<1>9. ASSUME NEW w \in Workers, NEW s \in Sources, StartFinalization(w, s) PROVE Known
  <2>1. CASE v = w
    <3>1. src'[v] = s
      BY <1>1, <1>9, <2>1 DEF StartFinalization, LocalsTyped
    <3> QED BY <1>9, <2>1, <3>1
  <2>2. CASE v # w
    BY <1>1, <1>9, <2>2 DEF StartFinalization, Goto, LocalsTyped
  <2> QED BY <2>1, <2>2
<1>10. ASSUME NEW s \in Sources, UserSchedule(s) \/ RecoverRun(s) \/ Lapse(s) \/ Supersede(s)
       PROVE  Known
  BY <1>2, <1>10 DEF UserSchedule, RecoverRun, Lapse, Supersede, localVars
<1>11. CASE UNCHANGED vars
  BY <1>2, <1>11 DEF vars, localVars
<1> QED BY <1>3, <1>5, <1>6, <1>7, <1>8, <1>9, <1>10, <1>11 DEF Next

\* So a run has one finalizer at a time, and is RUNNING while it has.
LEMMA FinalizersKept ==
    ASSUME TypeOK, PlacesOK, [Next]_vars
    PROVE  \A w \in Workers : FinalizerOK(w)'
<1> SUFFICES ASSUME NEW w \in Workers, pc'[w] \in Finalizing
             PROVE  /\ run'[src'[w]] = "running"
                    /\ \A v \in Workers : pc'[v] \in Finalizing /\ src'[v] = src'[w] => v = w
  BY DEF FinalizerOK
<1>1. LocalsTyped /\ run \in [Sources -> RunStatus]
  BY TypeParts, TypesSplit
<1>2. LocalsTyped' /\ src'[w] \in Sources
  BY LocalsTypedStep DEF LocalsTyped, Finalizing
<1>3. ASSUME NEW v \in Workers, StartFinalization(v, src'[v]), src'[v] = src'[w]
      PROVE  run[src'[w]] = "ready" /\ run'[src'[w]] = "running"
  BY <1>1, <1>2, <1>3 DEF StartFinalization
<1>4. ASSUME pc[w] \in Finalizing, src'[w] = src[w]
      PROVE  run[src'[w]] = "running" /\ run'[src'[w]] = "running"
  <2>1. run[src'[w]] = "running"
    BY <1>4 DEF PlacesOK, FinalizerOK
  <2>2. RunMove(src'[w])
    BY <1>2, RunMoves
  <2> QED BY <2>1, <2>2 DEF RunMove, Started, TaskEnds, Concluded, EndOf
<1>5. run'[src'[w]] = "running"
  BY <1>3, <1>4, FinalizersKnown
<1>6. ASSUME NEW v \in Workers, pc'[v] \in Finalizing, src'[v] = src'[w] PROVE v = w
  <2>1. CASE StartFinalization(w, src'[w]) /\ StartFinalization(v, src'[v])
    BY <1>1, <2>1 DEF StartFinalization, Goto, LocalsTyped
  <2>2. CASE pc[w] \in Finalizing /\ src'[w] = src[w] /\ StartFinalization(v, src'[v])
    BY <1>3, <1>4, <1>6, <2>2
  <2>3. CASE pc[v] \in Finalizing /\ src'[v] = src[v] /\ StartFinalization(w, src'[w])
    BY <1>3, <1>6, <2>3 DEF PlacesOK, FinalizerOK
  <2>4. CASE pc[v] \in Finalizing /\ src'[v] = src[v] /\ pc[w] \in Finalizing /\ src'[w] = src[w]
    BY <1>6, <2>4 DEF PlacesOK, FinalizerOK
  <2> QED BY <1>6, <2>1, <2>2, <2>3, <2>4, FinalizersKnown
<1> QED BY <1>5, <1>6

\* A worker that is not the one to step.
Stays(w) ==
    /\ pc'[w] = pc[w] /\ src'[w] = src[w] /\ who'[w] = who[w]
    /\ claim'[w] = claim[w] /\ outcome'[w] = outcome[w]

\* It may rely on what it relied on before.
LEMMA OthersKept ==
    ASSUME TypeOK, RowsOK, PlacesOK, [Next]_vars, NEW w \in Workers, Stays(w)
    PROVE  ClaimOK(w)' /\ RunOK(w)'
<1>1. LocalsTyped /\ ClaimOK(w) /\ RunOK(w)
  BY TypesSplit DEF PlacesOK
<1>2. CASE pc[w] \in {"idle", "draft"}
  BY <1>1, <1>2 DEF Stays, ClaimOK, RunOK, Rendering
<1>3. CASE pc[w] \notin {"idle", "draft"}
  <2> DEFINE s == src[w]
             j == job[s]
             k == job'[s]
  <2>1. s \in Sources
    BY <1>1, <1>3, AtWork
  <2>2. j \in JobRecord /\ k \in JobRecord /\ RowOK(j)
    BY <2>1, TypeParts, RowsTypedStep DEF RowsTyped, RowsOK
  <2>3. JobMove(s, j, k)
    BY <2>1, StepMoves DEF JobMoves
  <2>4. /\ j.attempts <= k.attempts
        /\ j.state # "none" => k.bound = j.bound
        /\ j.state = "done" => k.state = "done"
        /\ j.state = "failed_terminal" => k.state = "failed_terminal"
    BY <2>1, <2>2, <2>3, MoveKeeps
  <2>5. j.attempts \in Nat /\ k.attempts \in Nat /\ claim[w] \in Nat
    BY <1>1, <2>2 DEF JobRecord, LocalsTyped
  <2>6. StoresGrow
    BY StoresOnlyGrow
  <2>7. ClaimOK(w)'
    <3>1. Holds(k, w) => Holds(j, w) /\ k.attempts = j.attempts
      BY <1>3, <2>1, <2>2, <2>3, MoveHolds DEF PlacesOK, ClaimOK
    <3>2. pc[w] \in Rendering => j.state # "none"
      BY <1>1, <2>2, <2>5 DEF ClaimOK, RowOK
    <3>3. pc[w] \in {"render", "verify", "complete"} => pc[w] \in Rendering
      BY DEF Rendering
    <3> QED BY <1>1, <2>4, <2>5, <2>6, <3>1, <3>2, <3>3 DEF Stays, ClaimOK, StoresGrow
  <2>8. RunOK(w)'
    <3>1. RunMove(s)
      BY <2>1, RunMoves
    <3>2. EndsRun(j) => EndsRun(k) /\ EndOf(k) = EndOf(j)
      BY <2>4 DEF EndsRun, EndOf
    <3>3. EndsRun(j) /\ run[s] \in {"paused", EndOf(j)} => run'[s] \in {"paused", EndOf(j)}
      BY <3>1 DEF RunMove, Started, TaskEnds, Concluded, EndOf
    <3> QED BY <1>1, <2>4, <2>6, <3>2, <3>3 DEF Stays, RunOK, StoresGrow
  <2> QED BY <2>7, <2>8
<1> QED BY <1>2, <1>3

\* The worker that steps.
PlaceOK(w) == ClaimOK(w) /\ RunOK(w)

LEMMA LeaveArrives ==
    ASSUME LocalsTyped, NEW w \in Workers, Leave(w)
    PROVE  PlaceOK(w)' /\ \A v \in Workers \ {w} : Stays(v)
<1>1. pc'[w] = "idle" /\ who'[w] = w
  BY DEF LocalsTyped, Leave, Goto
<1>2. \A v \in Workers \ {w} : Stays(v)
  BY DEF LocalsTyped, Leave, Goto, Stays
<1> QED BY <1>1, <1>2 DEF PlaceOK, ClaimOK, RunOK, Rendering

\* Only the place, and perhaps the version read or the outcome, is another.
LEMMA MoveArrives ==
    ASSUME LocalsTyped, NEW w \in Workers, NEW place, Goto(w, place),
           UNCHANGED <<src, who, claim>>,
           outcome' = outcome \/ \E o : outcome' = [outcome EXCEPT ![w] = o]
    PROVE  /\ pc'[w] = place /\ src'[w] = src[w] /\ who'[w] = who[w] /\ claim'[w] = claim[w]
           /\ \A v \in Workers \ {w} : Stays(v)
  BY DEF LocalsTyped, Goto, Stays

LEMMA ProcessArrives ==
    ASSUME TypeOK, PlacesOK, NEW w \in Workers, Process(w) \/ StepFails(w)
    PROVE  PlaceOK(w)' /\ \A v \in Workers \ {w} : Stays(v)
<1>1. LocalsTyped /\ ClaimOK(w)
  BY TypesSplit DEF PlacesOK
<1>2. /\ UNCHANGED <<src, who, claim, outcome>>
      /\ \E place \in Rendering \cup {"refresh"} : Goto(w, place)
  BY DEF Process, CheckSource, MakePdf, Render, Verify, Complete, Fail, StepFails, Rendering
<1>3. /\ pc'[w] \in Rendering \cup {"refresh"} /\ src'[w] = src[w] /\ who'[w] = who[w]
      /\ claim'[w] = claim[w] /\ \A v \in Workers \ {w} : Stays(v)
  BY <1>1, <1>2, MoveArrives
<1>4. RunOK(w)'
  BY <1>3 DEF RunOK, Rendering
<1>5. CASE Complete(w) \/ Fail(w)
  <2>1. pc'[w] = "refresh"
    BY <1>1, <1>5 DEF Complete, Fail, Goto, LocalsTyped
  <2> QED BY <1>1, <1>3, <1>4, <2>1 DEF PlaceOK, ClaimOK, Rendering
<1>6. CASE StepFails(w)
  <2>1. pc'[w] = "fail" /\ pc[w] \in Rendering /\ UNCHANGED job
    BY <1>1, <1>6 DEF StepFails, Goto, LocalsTyped, Rendering
  <2> QED BY <1>1, <1>3, <1>4, <2>1 DEF PlaceOK, ClaimOK
<1>7. CASE CheckSource(w)
  <2>1. /\ pc[w] = "check" /\ pc[w] \in Rendering /\ UNCHANGED <<job, pdf>>
        /\ pc'[w] \in {"fail", "make_pdf", "render"}
    BY <1>1, <1>7 DEF CheckSource, Goto, LocalsTyped, Rendering, storeVars
  <2>2. pc'[w] = "render" => ~job[src[w]].bound
    BY <1>1, <1>7 DEF CheckSource, Goto, LocalsTyped
  <2>3. ~(pc'[w] = "render" /\ job'[src'[w]].bound)
    BY <1>3, <2>1, <2>2
  <2> QED BY <1>1, <1>3, <1>4, <2>1, <2>3 DEF PlaceOK, ClaimOK
<1>8. CASE MakePdf(w)
  <2>1. /\ pc[w] \in Rendering /\ UNCHANGED job /\ src[w] \in pdf' /\ pc'[w] = "render"
    BY <1>1, <1>8 DEF MakePdf, Goto, LocalsTyped, Rendering
  <2> QED BY <1>1, <1>3, <1>4, <2>1 DEF PlaceOK, ClaimOK
<1>9. CASE Render(w)
  <2>1. /\ pc[w] = "render" /\ pc[w] \in Rendering /\ UNCHANGED <<job, pdf>>
        /\ src[w] \in pptx'
        /\ pc'[w] \in {"verify", "complete"}
        /\ pc'[w] = "complete" => Contract[src[w]] # "editorial"
    BY <1>1, <1>9 DEF Render, Goto, LocalsTyped, Rendering
  <2> QED BY <1>1, <1>3, <1>4, <2>1 DEF PlaceOK, ClaimOK
<1>10. CASE Verify(w)
  <2>1. /\ pc[w] = "verify" /\ pc[w] \in Rendering /\ UNCHANGED <<job, pdf, pptx, artifact>>
        /\ pc'[w] \in {"fail", "complete"}
        /\ pc'[w] = "complete" => src[w] \in artifact
    BY <1>1, <1>10 DEF Verify, Goto, LocalsTyped, Rendering, storeVars
  <2> QED BY <1>1, <1>3, <1>4, <2>1 DEF PlaceOK, ClaimOK
<1> QED BY <1>3, <1>5, <1>6, <1>7, <1>8, <1>9, <1>10 DEF Process

LEMMA ClaimArrives ==
    ASSUME TypeOK, PlacesOK, NEW w \in Workers, ClaimNext(w)
    PROVE  PlaceOK(w)' /\ \A v \in Workers \ {w} : Stays(v)
<1>1. LocalsTyped /\ ClaimOK(w) /\ \A s \in Sources : job[s] \in JobRecord
  BY TypesSplit, TypeParts DEF PlacesOK
<1>2. CASE Leave(w)
  BY <1>1, <1>2, LeaveArrives
<1>3. CASE ~Leave(w)
  <2>1. PICK s \in Sources :
           /\ job' = [t \in Sources |-> IF t = s THEN Claimed(job[s], who[w]) ELSE Swept(job[t])]
           /\ Goto(w, "check")
           /\ src' = [src EXCEPT ![w] = s]
           /\ claim' = [claim EXCEPT ![w] = job[s].attempts + 1]
           /\ UNCHANGED <<who, expected, outcome>>
    BY <1>3 DEF ClaimNext
  <2>2. pc'[w] = "check" /\ src'[w] = s /\ who'[w] = who[w] /\ claim'[w] = job[s].attempts + 1
    BY <1>1, <2>1 DEF LocalsTyped, Goto
  <2>3. job'[s].attempts = job[s].attempts + 1 /\ job[s].attempts \in Nat
    BY <1>1, <2>1 DEF Claimed, JobRecord
  <2>4. \A v \in Workers \ {w} : Stays(v)
    BY <1>1, <2>1 DEF LocalsTyped, Goto, Stays
  <2> QED BY <1>1, <2>2, <2>3, <2>4 DEF PlaceOK, ClaimOK, RunOK, Rendering
<1> QED BY <1>2, <1>3

LEMMA SettleArrives ==
    ASSUME TypeOK, PlacesOK, NEW w \in Workers, Settle(w) \/ Crash(w)
    PROVE  PlaceOK(w)' /\ \A v \in Workers \ {w} : Stays(v)
<1>1. LocalsTyped /\ ClaimOK(w) /\ RunOK(w)
  BY TypesSplit DEF PlacesOK
<1>2. CASE Leave(w)
  BY <1>1, <1>2, LeaveArrives
<1>3. CASE RefreshJob(w) /\ ~Leave(w)
  <2>1. /\ Goto(w, "version") /\ UNCHANGED <<src, who, claim, outcome, job, run>>
        /\ EndsRun(job[src[w]]) /\ run[src[w]] = "paused"
    BY <1>3 DEF RefreshJob, runVars
  <2>2. /\ pc'[w] = "version" /\ src'[w] = src[w] /\ who'[w] = who[w]
        /\ \A v \in Workers \ {w} : Stays(v)
    BY <1>1, <2>1, MoveArrives
  <2>3. EndsRun(job[src[w]])' /\ run'[src'[w]] = "paused"
    BY <2>1, <2>2 DEF EndsRun
  <2> QED BY <1>1, <2>2, <2>3 DEF PlaceOK, ClaimOK, RunOK, Rendering
<1>4. CASE ReadVersion(w)
  <2>1. Goto(w, "save") /\ UNCHANGED <<src, who, claim, outcome, job, run>> /\ pc[w] = "version"
    BY <1>4 DEF ReadVersion, runVars
  <2>2. /\ pc'[w] = "save" /\ src'[w] = src[w] /\ who'[w] = who[w]
        /\ \A v \in Workers \ {w} : Stays(v)
    BY <1>1, <2>1, MoveArrives
  <2> QED BY <1>1, <2>1, <2>2 DEF PlaceOK, ClaimOK, RunOK, Rendering, EndsRun, EndOf
<1> QED BY <1>2, <1>3, <1>4 DEF Settle, SaveRun, Crash

\* A place of a finalizer asks nothing of its claim.
LEMMA FinalizerClaim ==
    ASSUME NEW w \in Workers, ClaimOK(w), who'[w] = who[w],
           pc'[w] \in Finalizing \cup {"usage", "idle"}
    PROVE  ClaimOK(w)'
  BY DEF ClaimOK, Finalizing, Rendering

LEMMA FinalizeArrives ==
    ASSUME TypeOK, PlacesOK, NEW w \in Workers, Finalize(w) \/ FinalizerFails(w)
    PROVE  PlaceOK(w)' /\ \A v \in Workers \ {w} : Stays(v)
<1>1. LocalsTyped /\ ClaimOK(w) /\ RunOK(w)
  BY TypesSplit DEF PlacesOK
<1>2. CASE Leave(w)
  BY <1>1, <1>2, LeaveArrives
<1>3. ASSUME NEW place \in {"scheduling", "generating", "pdf", "usage"}, Goto(w, place),
             UNCHANGED <<src, who, claim, outcome>>
      PROVE  PlaceOK(w)' /\ \A v \in Workers \ {w} : Stays(v)
  <2>1. /\ pc'[w] = place /\ src'[w] = src[w] /\ who'[w] = who[w]
        /\ \A v \in Workers \ {w} : Stays(v)
    BY <1>1, <1>3, MoveArrives
  <2> QED BY <1>1, <2>1, FinalizerClaim DEF PlaceOK, RunOK, Finalizing
<1>4. ASSUME Conclude(w, "failed") \/ Conclude(w, "paused")
      PROVE  PlaceOK(w)' /\ \A v \in Workers \ {w} : Stays(v)
  <2>1. /\ pc'[w] = "commit" /\ src'[w] = src[w] /\ who'[w] = who[w]
        /\ \A v \in Workers \ {w} : Stays(v)
    BY <1>1, <1>4, MoveArrives DEF Conclude
  <2>2. outcome'[w] \in {"failed", "paused"}
    BY <1>1, <1>4 DEF Conclude, LocalsTyped
  <2> QED BY <1>1, <2>1, <2>2, FinalizerClaim DEF PlaceOK, RunOK, Finalizing
<1>5. ASSUME NEW place \in {"pdf_done", "pptx"}, Goto(w, place), src[w] \in pdf',
             UNCHANGED <<src, who, claim, outcome>>
      PROVE  PlaceOK(w)' /\ \A v \in Workers \ {w} : Stays(v)
  <2>1. /\ pc'[w] = place /\ src'[w] = src[w] /\ who'[w] = who[w]
        /\ \A v \in Workers \ {w} : Stays(v)
    BY <1>1, <1>5, MoveArrives
  <2> QED BY <1>1, <1>5, <2>1, FinalizerClaim DEF PlaceOK, RunOK, Finalizing
<1>6. CASE PassApproval(w) \/ ScheduleApproved(w) \/ MarkGenerating(w) \/ FinalizerFails(w)
  BY <1>3, <1>4, <1>6 DEF PassApproval, ScheduleApproved, MarkGenerating, FinalizerFails
<1>7. CASE FinalizerPdf(w)
  BY <1>5, <1>7 DEF FinalizerPdf
<1>8. CASE MarkPdfComplete(w)
  <2>1. src[w] \in pdf'
    BY <1>1, <1>8 DEF MarkPdfComplete, RunOK, storeVars
  <2> QED BY <1>5, <1>8, <2>1 DEF MarkPdfComplete
<1>9. CASE MarkPptxPending(w)
  <2> DEFINE result == Conclusion(src[w], job'[src[w]].state)
  <2>1. Conclude(w, result) /\ src[w] \in pdf /\ UNCHANGED <<pdf, pptx>>
    BY <1>1, <1>9 DEF MarkPptxPending, RunOK, storeVars
  <2>2. CASE result \in {"failed", "paused"}
    BY <1>4, <2>1, <2>2
  <2>3. CASE result = "completed"
    <3>1. job'[src[w]].state = "done" /\ src[w] \in pptx
      BY <2>3 DEF Conclusion
    <3>2. /\ pc'[w] = "commit" /\ src'[w] = src[w] /\ who'[w] = who[w]
          /\ \A v \in Workers \ {w} : Stays(v)
      BY <1>1, <2>1, MoveArrives DEF Conclude
    <3>3. outcome'[w] = "completed"
      BY <1>1, <2>1, <2>3 DEF Conclude, LocalsTyped
    <3> QED BY <1>1, <2>1, <3>1, <3>2, <3>3, FinalizerClaim DEF PlaceOK, RunOK, Finalizing
  <2> QED BY <2>2, <2>3 DEF Conclusion
<1>10. CASE CommitOutcome(w)
  BY <1>2, <1>3, <1>10 DEF CommitOutcome
<1> QED BY <1>2, <1>6, <1>7, <1>8, <1>9, <1>10 DEF Finalize, CommitUsage

LEMMA PlacesKept == ASSUME TypeOK, RowsOK, PlacesOK, [Next]_vars PROVE PlacesOK'
<1>1. LocalsTyped /\ \A w \in Workers : FinalizerOK(w)' /\ (Stays(w) => PlaceOK(w)')
  BY FinalizersKept, OthersKept, TypesSplit DEF PlaceOK
<1>2. \A w \in Workers : ClaimOK(w) /\ who[w] \in {w, DraftGenerator}
  BY DEF PlacesOK, ClaimOK
<1> SUFFICES \A w \in Workers : PlaceOK(w)'
  BY <1>1 DEF PlacesOK, PlaceOK
<1>3. ASSUME NEW w \in Workers, PlaceOK(w)', \A v \in Workers \ {w} : Stays(v)
      PROVE  \A v \in Workers : PlaceOK(v)'
  BY <1>1, <1>3
<1>4. ASSUME UNCHANGED localVars PROVE \A v \in Workers : PlaceOK(v)'
  BY <1>1, <1>4 DEF localVars, Stays
<1>5. ASSUME NEW w \in Workers,
             ClaimNext(w) \/ Process(w) \/ StepFails(w) \/ Settle(w) \/ Finalize(w)
             \/ FinalizerFails(w) \/ Crash(w)
      PROVE  \A v \in Workers : PlaceOK(v)'
  BY <1>3, <1>5, ClaimArrives, ProcessArrives, SettleArrives, FinalizeArrives
<1>6. ASSUME NEW w \in Workers, NEW s \in Sources, GenerateDraft(w, s)
      PROVE  \A v \in Workers : PlaceOK(v)'
  <2>1. pc'[w] \in {"idle", "draft"} /\ who'[w] \in {w, DraftGenerator}
        /\ \A v \in Workers \ {w} : Stays(v)
    BY <1>1, <1>2, <1>6 DEF GenerateDraft, Goto, LocalsTyped, Stays
  <2>2. PlaceOK(w)'
    BY <2>1 DEF PlaceOK, ClaimOK, RunOK, Rendering
  <2> QED BY <1>3, <2>1, <2>2
<1>7. ASSUME NEW w \in Workers, NEW s \in Sources, StartFinalization(w, s)
      PROVE  \A v \in Workers : PlaceOK(v)'
  <2>1. pc'[w] = "authority" /\ who'[w] = who[w] /\ \A v \in Workers \ {w} : Stays(v)
    BY <1>1, <1>7 DEF StartFinalization, Goto, LocalsTyped, Stays
  <2>2. PlaceOK(w)'
    BY <1>2, <2>1 DEF PlaceOK, ClaimOK, RunOK, Rendering
  <2> QED BY <1>3, <2>1, <2>2
<1>8. ASSUME NEW s \in Sources, UserSchedule(s) \/ RecoverRun(s) \/ Lapse(s) \/ Supersede(s)
      PROVE  \A v \in Workers : PlaceOK(v)'
  BY <1>4, <1>8 DEF UserSchedule, RecoverRun, Lapse, Supersede
<1>9. UNCHANGED vars => \A v \in Workers : PlaceOK(v)'
  BY <1>4 DEF vars
<1> QED BY <1>5, <1>6, <1>7, <1>8, <1>9 DEF Next

-------------------------------------------------------------------------------
(* The inductive invariant. *)

LEMMA DoneKept ==
    ASSUME TypeOK, RowsOK, PlacesOK, DoneIsDelivered, [Next]_vars
    PROVE  DoneIsDelivered'
<1> SUFFICES ASSUME NEW s \in Sources, job'[s].state = "done"
             PROVE  /\ s \in pptx'
                    /\ job'[s].bound => s \in pdf'
                    /\ job'[s].bound /\ Contract[s] = "editorial" => s \in artifact'
  BY DEF DoneIsDelivered
<1>1. job[s] \in JobRecord /\ job'[s] \in JobRecord
  BY TypeParts, RowsTypedStep DEF RowsTyped
<1>2. JobMove(s, job[s], job'[s]) /\ StoresGrow
  BY StepMoves, StoresOnlyGrow DEF JobMoves
<1>3. CASE job[s].state = "done"
  <2>1. job'[s].bound = job[s].bound
    BY <1>1, <1>2, <1>3, MoveKeeps DEF RowsOK
  <2> QED BY <1>2, <1>3, <2>1 DEF DoneIsDelivered, StoresGrow
<1>4. CASE job[s].state # "done"
  <2>1. Lapsed(job[s], job'[s]) => job'[s].state = job[s].state
    BY <1>1 DEF Lapsed, JobRecord
  <2>2. Finished(s, job[s], job'[s])
    BY <1>2, <1>4, <2>1 DEF JobMove, Scheduled, Requeued, Walked, Taken, GivenUp, FailureState, Unclaimed
  <2> QED BY <1>2, <2>2 DEF Finished, StoresGrow
<1> QED BY <1>3, <1>4

LEMMA CompletedKept ==
    ASSUME DeliveryInv, [Next]_vars
    PROVE  CompletedRunIsDelivered'
<1> SUFFICES ASSUME NEW s \in Sources, run'[s] = "completed"
             PROVE  job'[s].state = "done" /\ s \in pdf' /\ s \in pptx'
  BY DEF CompletedRunIsDelivered
<1> USE DEF DeliveryInv
<1>1. job[s] \in JobRecord /\ job'[s] \in JobRecord
  BY TypeParts, RowsTypedStep DEF RowsTyped
<1>2. JobMove(s, job[s], job'[s]) /\ StoresGrow /\ RunMove(s)
  BY StepMoves, StoresOnlyGrow, RunMoves DEF JobMoves
<1>3. job[s].state = "done" => job'[s].state = "done"
  BY <1>1, <1>2, MoveKeeps DEF RowsOK
<1>4. CASE run[s] = "completed" \/ TaskEnds(s)
  BY <1>2, <1>3, <1>4 DEF CompletedRunIsDelivered, TaskEnds, StoresGrow
<1>5. CASE Concluded(s)
  <2>1. job[s].state = "done" /\ job[s].bound
    BY <1>5 DEF Concluded, EndOf, EndsRun
  <2> QED BY <1>2, <1>3, <2>1 DEF DoneIsDelivered, StoresGrow
<1> QED BY <1>2, <1>4, <1>5 DEF RunMove, Started

LEMMA InvInit == Init => DeliveryInv
<1> SUFFICES ASSUME Init PROVE DeliveryInv
  OBVIOUS
<1>1. TypeOK
  BY InitTyped
<1>2. RowsOK /\ DoneIsDelivered
  BY BoundsAssumption DEF Init, NoJob, RowsOK, RowOK, DoneIsDelivered, Unclaimed
<1>3. PlacesOK
  BY DEF Init, PlacesOK, ClaimOK, FinalizerOK, RunOK, Rendering, Finalizing
<1>4. CompletedRunIsDelivered
  BY DEF Init, CompletedRunIsDelivered
<1> QED BY <1>1, <1>2, <1>3, <1>4 DEF DeliveryInv

LEMMA InvStep == DeliveryInv /\ [Next]_vars => DeliveryInv'
<1> SUFFICES ASSUME DeliveryInv, [Next]_vars PROVE DeliveryInv'
  OBVIOUS
<1> USE DEF DeliveryInv
<1>1. TypeOK' /\ PlacesOK' /\ DoneIsDelivered' /\ CompletedRunIsDelivered'
  BY TypesKept, PlacesKept, DoneKept, CompletedKept
<1>2. ASSUME NEW s \in Sources PROVE RowOK(job'[s])
  <2>1. job[s] \in JobRecord /\ job'[s] \in JobRecord
    BY TypeParts, RowsTypedStep DEF RowsTyped
  <2>2. JobMove(s, job[s], job'[s])
    BY StepMoves DEF JobMoves
  <2> QED BY <2>1, <2>2, MoveKeeps DEF RowsOK
<1>3. RowsOK'
  BY <1>2 DEF RowsOK
<1> QED BY <1>1, <1>3

LEMMA Invariant == Spec => []DeliveryInv
<1> QED BY InvInit, InvStep, PTL DEF Spec

-------------------------------------------------------------------------------
(* The theorems. *)

\* No job is started more often than MaxAttempts times.
THEOREM Bounded == Spec => []AttemptsBounded
<1>1. DeliveryInv => AttemptsBounded
  BY DEF DeliveryInv, RowsOK, RowOK, AttemptsBounded
<1> QED BY <1>1, Invariant, PTL

\* A job that is done has all its deliverables stored.
THEOREM Delivered == Spec => []DoneIsDelivered
<1>1. DeliveryInv => DoneIsDelivered
  BY DEF DeliveryInv
<1> QED BY <1>1, Invariant, PTL

\* A completed run has both deliverables and a job that is done.
THEOREM CompletedDelivered == Spec => []CompletedRunIsDelivered
<1>1. DeliveryInv => CompletedRunIsDelivered
  BY DEF DeliveryInv
<1> QED BY <1>1, Invariant, PTL

\* A run leaves its pause for the end of its job, and never leaves its end.
THEOREM RunsFollowJobs == Spec => RunFollowsItsJob
<1> DEFINE Follows ==
      \A s \in Sources : run'[s] # run[s] =>
          /\ run[s] \notin RunEnd
          /\ run[s] = "paused" =>
                \/ run'[s] = "completed" /\ job[s].state = "done"
                \/ run'[s] = "failed" /\ job[s].state = "failed_terminal"
<1>1. DeliveryInv /\ [Next]_vars => [Follows]_vars
  <2> SUFFICES ASSUME DeliveryInv, [Next]_vars, NEW s \in Sources, run'[s] # run[s]
               PROVE  /\ run[s] \notin RunEnd
                      /\ run[s] = "paused" =>
                            \/ run'[s] = "completed" /\ job[s].state = "done"
                            \/ run'[s] = "failed" /\ job[s].state = "failed_terminal"
    OBVIOUS
  <2>1. RunMove(s)
    BY RunMoves DEF DeliveryInv
  <2> QED BY <2>1 DEF RunMove, Started, TaskEnds, Concluded, EndOf, EndsRun, RunEnd
<1> QED BY <1>1, Invariant, PTL DEF Spec, RunFollowsItsJob

\* A worker that answers for a job is at complete or fail.
LEMMA Answers ==
    ASSUME TypeOK, PlacesOK, [Next]_vars, NEW w \in Workers,
           pc[w] \in {"complete", "fail"}, pc'[w] = "refresh"
    PROVE  Complete(w) \/ Fail(w)
<1> DEFINE Own(v) == \/ ClaimNext(v) \/ Process(v) \/ StepFails(v) \/ Settle(v)
                     \/ Finalize(v) \/ FinalizerFails(v) \/ Crash(v)
<1>1. LocalsTyped
  BY TypesSplit
<1>2. ASSUME NEW v \in Workers, Own(v) PROVE \A u \in Workers \ {v} : Stays(u)
  BY <1>2, ClaimArrives, ProcessArrives, SettleArrives, FinalizeArrives
<1>3. ASSUME Process(w) PROVE Complete(w) \/ Fail(w)
  BY <1>3 DEF Process, CheckSource, MakePdf, Render, Verify
<1>4. ~StepFails(w)
  BY <1>1 DEF StepFails, Goto, LocalsTyped
<1>5. ~Crash(w)
  BY <1>1 DEF Crash, Leave, Goto, LocalsTyped
<1>6. ~ClaimNext(w) /\ ~Settle(w)
  BY DEF ClaimNext, Settle, RefreshJob, ReadVersion, SaveRun
<1>7. ~Finalize(w) /\ ~FinalizerFails(w)
  BY DEF Finalize, PassApproval, ScheduleApproved, MarkGenerating, FinalizerPdf, MarkPdfComplete,
     MarkPptxPending, CommitOutcome, CommitUsage, FinalizerFails
<1>8. ASSUME NEW v \in Workers, Own(v) PROVE Complete(w) \/ Fail(w)
  BY <1>2, <1>3, <1>4, <1>5, <1>6, <1>7, <1>8 DEF Stays
<1>9. ASSUME NEW v \in Workers, NEW s \in Sources, GenerateDraft(v, s) \/ StartFinalization(v, s)
      PROVE  FALSE
  BY <1>1, <1>9 DEF GenerateDraft, StartFinalization, Goto, LocalsTyped
<1>10. ASSUME NEW s \in Sources, UserSchedule(s) \/ RecoverRun(s) \/ Lapse(s) \/ Supersede(s)
       PROVE  FALSE
  BY <1>10 DEF UserSchedule, RecoverRun, Lapse, Supersede, localVars
<1>11. ~UNCHANGED vars
  BY DEF vars, localVars
<1> QED BY <1>8, <1>9, <1>10, <1>11 DEF Next

\* Only the worker of the latest claim completes or fails a job, although
\* the row is matched by the id of the worker.
THEOREM ClaimantsSettle == Spec => OnlyTheClaimantSettles
<1> DEFINE Own == \A w \in Workers :
          /\ pc[w] \in {"complete", "fail"} /\ pc'[w] = "refresh"
          /\ who[w] = w
          /\ job'[src[w]] # job[src[w]]
          => claim[w] = job[src[w]].attempts
<1>1. DeliveryInv /\ [Next]_vars => [Own]_vars
  <2> SUFFICES ASSUME DeliveryInv, [Next]_vars, NEW w \in Workers,
                      pc[w] \in {"complete", "fail"}, pc'[w] = "refresh", who[w] = w,
                      job'[src[w]] # job[src[w]]
               PROVE  claim[w] = job[src[w]].attempts
    OBVIOUS
  <2>1. src[w] \in Sources /\ job \in [Sources -> JobRecord]
    BY TypeParts DEF DeliveryInv
  <2>2. Complete(w) \/ Fail(w)
    BY Answers DEF DeliveryInv
  <2>3. Holds(job[src[w]], w)
    BY <2>1, <2>2 DEF Complete, Fail
  <2>4. pc[w] \in Rendering
    BY DEF Rendering
  <2> QED BY <2>3, <2>4 DEF DeliveryInv, PlacesOK, ClaimOK
<1> QED BY <1>1, Invariant, PTL DEF Spec, OnlyTheClaimantSettles

-------------------------------------------------------------------------------
(* The refinement of Delivery. *)

\* A presentation is stored for a job that was started.
LEMMA RenderedWasStarted ==
    ASSUME DeliveryInv, [Next]_vars
    PROVE  \A s \in pptx' \ pptx : 0 < job[s].attempts
<1> DEFINE Good == \A s \in pptx' \ pptx : 0 < job[s].attempts
<1>1. UNCHANGED pptx => Good
  OBVIOUS
<1>2. ASSUME NEW w \in Workers, Render(w) PROVE Good
  <2>1. /\ src[w] \in Sources /\ claim[w] \in Nat
        /\ job[src[w]] \in JobRecord /\ pptx' = pptx \cup {src[w]}
    BY <1>2, TypeParts DEF DeliveryInv, Render
  <2>2. 1 <= claim[w] /\ claim[w] <= job[src[w]].attempts
    BY <1>2 DEF DeliveryInv, PlacesOK, ClaimOK, Render, Rendering
  <2>3. 0 < job[src[w]].attempts
    BY <2>1, <2>2 DEF JobRecord
  <2> QED BY <2>1, <2>3
<1>3. ASSUME NEW w \in Workers, Process(w) \/ StepFails(w) PROVE Good
  BY <1>1, <1>2, <1>3 DEF Process, CheckSource, MakePdf, Verify, Complete, Fail, StepFails, storeVars
<1>4. ASSUME NEW w \in Workers, Settle(w) \/ Crash(w) \/ ClaimNext(w) PROVE Good
  BY <1>1, <1>4 DEF Settle, RefreshJob, ReadVersion, SaveRun, Crash, ClaimNext, storeVars
<1>5. ASSUME NEW w \in Workers, Finalize(w) \/ FinalizerFails(w) PROVE Good
  BY <1>1, <1>5 DEF Finalize, PassApproval, ScheduleApproved, MarkGenerating, FinalizerPdf, MarkPdfComplete,
     MarkPptxPending, CommitOutcome, CommitUsage, FinalizerFails, storeVars
<1>6. ASSUME NEW w \in Workers, NEW s \in Sources, GenerateDraft(w, s) \/ StartFinalization(w, s)
      PROVE  Good
  BY <1>1, <1>6 DEF GenerateDraft, StartFinalization, storeVars
<1>7. ASSUME NEW s \in Sources, UserSchedule(s) \/ RecoverRun(s) \/ Lapse(s) \/ Supersede(s)
      PROVE  Good
  BY <1>1, <1>7 DEF UserSchedule, RecoverRun, Lapse, Supersede, storeVars
<1>8. UNCHANGED vars => Good
  BY <1>1 DEF vars, storeVars
<1> QED BY <1>3, <1>4, <1>5, <1>6, <1>7, <1>8 DEF Next

\* The stages of the states.
LEMMA Stages ==
    ASSUME NEW s \in Sources, job[s] \in JobRecord
    PROVE  /\ job[s].state = "none" => Stage(s) = "none"
           /\ job[s].state = "failed" => Stage(s) = "closed"
           /\ job[s].state = "done" => Stage(s) = "delivered"
           /\ job[s].state \in {"draft_failed", "failed_terminal"} => Stage(s) = "abandoned"
           /\ job[s].state \in Unclaimed \cup {"processing"} => Stage(s) = "open"
  BY DEF Stage, Unclaimed

\* One row, seen as a request.
LEMMA MoveRefines ==
    ASSUME DeliveryInv, [Next]_vars, NEW s \in Sources
    PROVE  \/ Promise!Requested(s) \/ Promise!Started(s) \/ Promise!Delivered(s)
           \/ Promise!Dropped(s) \/ Promise!Reopened(s) \/ Promise!Kept(s)
<1> DEFINE j == job[s]
           k == job'[s]
<1>1. j \in JobRecord /\ k \in JobRecord /\ RowOK(j)
  BY TypeParts, RowsTypedStep DEF RowsTyped, DeliveryInv, RowsOK
<1>2. JobMove(s, j, k)
  BY StepMoves DEF JobMoves, DeliveryInv
<1>3. j.attempts \in Nat /\ k.attempts \in Nat /\ MaxAttempts \in Nat \ {0}
  BY <1>1, BoundsAssumption DEF JobRecord
<1>4. /\ j.state = "none" => Stage(s) = "none"
      /\ j.state = "failed" => Stage(s) = "closed"
      /\ j.state \in Unclaimed \cup {"processing"} => Stage(s) = "open"
  BY <1>1, Stages
<1>5. /\ k.state = "failed" => Stage(s)' = "closed"
      /\ k.state = "done" => Stage(s)' = "delivered"
      /\ k.state \in {"draft_failed", "failed_terminal"} => Stage(s)' = "abandoned"
      /\ k.state \in Unclaimed \cup {"processing"} => Stage(s)' = "open"
  BY <1>1 DEF Stage, Unclaimed
<1>6. k.state = j.state => Stage(s)' = Stage(s)
  BY DEF Stage
<1> DEFINE stage == [t \in Sources |-> Stage(t)]
           tries == [t \in Sources |-> job[t].attempts]
<1>7. /\ stage[s] = Stage(s) /\ stage'[s] = Stage(s)'
      /\ tries[s] = j.attempts /\ tries'[s] = k.attempts
  OBVIOUS
<1> HIDE DEF stage, tries
<1> USE <1>7
<1>8. CASE k = j
  BY <1>6, <1>8 DEF Promise!Kept, stage, tries
<1>9. CASE Scheduled(j, k)
  BY <1>1, <1>4, <1>5, <1>9 DEF Scheduled, RowOK, Promise!Requested, stage, tries
<1>10. CASE Requeued(j, k)
  BY <1>3, <1>4, <1>5, <1>10 DEF Requeued, Unclaimed, Promise!Reopened, Promise!Kept, stage, tries
<1>11. CASE Walked(j, k)
  BY <1>4, <1>5, <1>11 DEF Walked, Promise!Dropped, Promise!Kept, stage, tries
<1>12. CASE Taken(j, k)
  <2>1. j.attempts < MaxAttempts
    BY <1>1, <1>12 DEF Taken, Claimable, RowOK
  <2> QED BY <1>4, <1>5, <1>12, <2>1 DEF Taken, Claimable, Promise!Started, stage, tries
<1>13. CASE GivenUp(s, j, k)
  BY <1>4, <1>5, <1>13 DEF GivenUp, FailureState, Unclaimed, Promise!Dropped, Promise!Kept, stage, tries
<1>14. CASE Finished(s, j, k)
  BY <1>1, <1>4, <1>5, <1>14 DEF Finished, RowOK, Promise!Delivered, stage, tries
<1>15. CASE Lapsed(j, k)
  <2>1. k.state = j.state /\ k.attempts = j.attempts
    BY <1>1, <1>15 DEF Lapsed, JobRecord
  <2> QED BY <1>6, <2>1 DEF Promise!Kept, stage, tries
<1> QED BY <1>2, <1>8, <1>9, <1>10, <1>11, <1>12, <1>13, <1>14, <1>15 DEF JobMove

\* The outbox implements Delivery: at most MaxAttempts starts, deliveries of
\* stored presentations only, and nothing after delivery or abandonment.
THEOREM ImplementsDelivery == Spec => DeliveryKept
<1>1. Init => Promise!Init
  BY DEF Init, NoJob, Stage, Promise!Init
<1>2. DeliveryInv /\ [Next]_vars => [Promise!Next]_(Promise!deliveryVars)
  <2> SUFFICES ASSUME DeliveryInv, [Next]_vars PROVE Promise!Next
    OBVIOUS
  <2>1. pptx \subseteq pptx'
    BY StoresOnlyGrow DEF StoresGrow
  <2>2. \A s \in pptx' \ pptx :
           0 < [t \in Sources |-> job[t].attempts][s]
    <3>1. pptx' \subseteq Sources
      BY StoresTypedStep DEF StoresTyped, DeliveryInv
    <3> QED BY <3>1, RenderedWasStarted
  <2> QED BY <2>1, <2>2, MoveRefines DEF Promise!Next
<1> QED BY <1>1, <1>2, Invariant, PTL DEF Spec, DeliveryKept, Promise!Spec

===============================================================================
