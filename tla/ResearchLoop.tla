------------------------------ MODULE ResearchLoop ------------------------------
(***************************************************************************)
(* The readiness task of a run: ResearchReadinessService assesses what the *)
(* evidence shows for each information need, and ResearchLoopService       *)
(* searches for more in bounded rounds, one gap at a time, checkpointing   *)
(* its state before and after each search.  The evidence a search finds is *)
(* stored by the search itself, so that a crash can keep the one without   *)
(* the other.                                                              *)
(*                                                                         *)
(* The production configuration is modelled: adaptive strategies, and at   *)
(* most two attempts per gap, which never exhaust the four strategies.  An *)
(* assessment is a function of the qualifying evidence (the sufficiency    *)
(* cache), and the evidence budget is a choice at each point that asks it. *)
(***************************************************************************)
EXTENDS Naturals, Sequences, FiniteSets

CONSTANTS
    Needs, NoNeed,  \* numbered in the order of their ids
    MaxRounds,      \* max_gap_rounds_per_run
    MaxAttempts,    \* max_attempts_per_gap
    Seeds,          \* what the initial evidence may show
    Findings,       \* what it may show once something was found
    MaxReach,       \* bound on the other needs a search finds evidence for
    MaxCrashes      \* bound on crashes

\* SufficiencyStatus
Status == {"missing", "insufficient", "partial", "sufficient", "blocked"}
ActionableStatus == {"missing", "insufficient", "partial"}
ASSUME NeedsAssumption ==
    Needs \subseteq Nat /\ IsFiniteSet(Needs) /\ NoNeed \notin Needs /\ Seeds \subseteq [Needs -> Status]
    /\ Findings \subseteq Status \ {"missing"}
ASSUME BoundsAssumption ==
    MaxRounds \in Nat \ {0} /\ MaxAttempts \in 1..2 /\ MaxReach \in Nat /\ MaxCrashes \in Nat

Rank == [missing |-> 0, insufficient |-> 1, partial |-> 2, sufficient |-> 3]

Reasons == {"none", "ready", "no_actionable_gaps", "no_material_improvement",
            "max_research_rounds", "budget_exhausted"}
Record == [need : Needs, round : 1..MaxRounds, improved : BOOLEAN]
LoopState == [round : 0..MaxRounds, history : Seq(Record),
              pending : Needs \cup {NoNeed}, reason : Reasons]
Blank == [round |-> 0, history |-> <<>>, pending |-> NoNeed, reason |-> "none"]

VARIABLES
    evidence,    \* what the stored evidence shows for each need
    saved,       \* the loop state in the last checkpoint of the task
    checkpointed,
    loop,        \* ResearchLoopState in memory
    status,      \* the assessment in memory: information_need_assessments,
    stale,       \*   and those with assessment_current = False
    gaps,        \* the gaps the current search was chosen from
    touched,     \* the needs the current search found evidence for
    improving,   \* round_had_improvement
    stalled,     \* stalled_need_ids
    pc,
    outcome,     \* how the task ended
    searches,    \* searches made for each need, those forgotten by a crash included
    crashes

memory == <<loop, status, stale, gaps, touched, improving, stalled>>
vars == <<evidence, saved, checkpointed, memory, pc, outcome, searches, crashes>>

Pc == {"idle", "round", "gap", "search", "record", "endround", "gate", "ended"}
Outcome == {"none", "ready", "scoped", "insufficient", "failed"}

Recorded(h) == {h[i].need : i \in DOMAIN h}
\* gap_attempt_counts, which grows with the history
Attempts(h, n) == Cardinality({i \in DOMAIN h : h[i].need = n})
\* Mutant: what stalled in the round is not read back from the history.
StalledForgotten(h, round) == {}

\* _stalled_need_ids_for_round
Stalled(h, round) ==
    {h[i].need : i \in {j \in DOMAIN h : h[j].round = round /\ ~h[j].improved}}

\* Mutant: an assessment counts although the evidence has changed since.
ReadyOnStale(s, old) == \A n \in Needs : s[n] = "sufficient"
Ready(s, old) == old = {} /\ \A n \in Needs : s[n] = "sufficient"
\* select_actionable_gaps
Actionable(s) == {n \in Needs : s[n] \in ActionableStatus}
\* need_readiness_improved
Improved(before, after, old, n) ==
    \/ Ready(after, old)
    \/ /\ before[n] # "blocked" /\ after[n] # "blocked"
       /\ Rank[after[n]] > Rank[before[n]]

Init ==
    /\ evidence \in Seeds
    /\ saved = Blank /\ checkpointed = FALSE
    /\ loop = Blank /\ status = evidence /\ stale = {}
    /\ gaps = {} /\ touched = {} /\ improving = FALSE /\ stalled = {}
    /\ pc = "idle" /\ outcome = "none"
    /\ searches = [n \in Needs |-> 0] /\ crashes = 0

\* The loop is left with this reason, and what is still pending.
Stop(reason, pending) ==
    /\ loop' = [loop EXCEPT !.reason = reason, !.pending = pending]
    /\ pc' = "gate"
--------------------------------------------------------------------------------
(***************************************************************************)
(* assess_and_apply, up to the loop.                                       *)
(***************************************************************************)

\* Everything is ready or blocked: there is no loop.
AssessOnly ==
    /\ pc = "idle" /\ outcome = "none"
    /\ status' = evidence /\ stale' = {}
    /\ Actionable(evidence) = {}
    /\ loop' = [saved EXCEPT !.reason = IF Ready(evidence, {}) THEN "ready" ELSE "none"]
    /\ pc' = "gate"
    /\ UNCHANGED <<evidence, saved, checkpointed, gaps, touched, improving, stalled,
                   outcome, searches, crashes>>

\* _restore_loop_state and the checkpoint before the loop; the loop resumes in
\* the round it had reached.
AssessAndLoop ==
    /\ pc = "idle" /\ outcome = "none"
    /\ status' = evidence /\ stale' = {}
    /\ Actionable(evidence) # {}
    /\ loop' = [saved EXCEPT !.round = IF @ = 0 THEN 1 ELSE @]
    /\ checkpointed' = TRUE
    /\ pc' = "round"
    /\ UNCHANGED <<evidence, saved, gaps, touched, improving, stalled, outcome,
                   searches, crashes>>
--------------------------------------------------------------------------------
(***************************************************************************)
(* run_bounded_loop.                                                       *)
(***************************************************************************)
BeginRound ==
    /\ pc = "round"
    /\ improving' = FALSE
    /\ stalled' = Stalled(loop.history, loop.round)
    /\ pc' = "gap"
    /\ UNCHANGED <<evidence, saved, checkpointed, loop, status, stale, gaps, touched,
                   outcome, searches, crashes>>

\* A pending request that the history already records is complete.
Pending == IF loop.pending \in Recorded(loop.history) THEN NoNeed ELSE loop.pending
Gaps == Actionable(status) \cap (IF Pending = NoNeed THEN Needs ELSE {Pending})

Eligible(G) == {n \in G : Attempts(loop.history, n) < MaxAttempts /\ n \notin stalled}
\* decide_next_actionable_gap: first opportunities before repeats, needs without
\* qualifying evidence before the others, then by id.
Preferred(G) ==
    LET first == {n \in Eligible(G) : Attempts(loop.history, n) = 0}
        cohort == IF first # {} THEN first ELSE Eligible(G)
        empty == {n \in cohort : evidence[n] = "missing"}
        best == IF empty # {} THEN empty ELSE cohort
    IN  CHOOSE n \in best : \A m \in best : n <= m

NothingToSelect ==
    /\ pc = "gap"
    /\ \/ Ready(status, stale) /\ Stop("ready", loop.pending)
       \/ ~Ready(status, stale) /\ Gaps = {} /\ Stop("no_actionable_gaps", Pending)
    /\ UNCHANGED <<evidence, saved, checkpointed, status, stale, gaps, touched,
                   improving, stalled, outcome, searches, crashes>>

\* sufficiency_unavailable_reason or evidence_remediation_unavailable_reason,
\* also when the round ended without improvement
BudgetUnavailable ==
    /\ \/ pc = "gap" /\ ~Ready(status, stale) /\ Gaps # {}
       \/ pc = "endround" /\ ~improving
    /\ Stop("budget_exhausted", Pending)
    /\ UNCHANGED <<evidence, saved, checkpointed, status, stale, gaps, touched,
                   improving, stalled, outcome, searches, crashes>>

SelectGap ==
    /\ pc = "gap" /\ ~Ready(status, stale) /\ Gaps # {}
    /\ IF Eligible(Gaps) = {}
       THEN /\ loop' = [loop EXCEPT !.pending = Pending]
            /\ pc' = "endround"
            /\ UNCHANGED <<saved, gaps>>
       ELSE /\ loop' = [loop EXCEPT !.pending = Preferred(Gaps)]
            /\ saved' = loop' /\ gaps' = Gaps
            /\ pc' = "search"
    /\ UNCHANGED <<evidence, checkpointed, status, stale, touched, improving, stalled,
                   outcome, searches, crashes>>

\* TargetedResearchRunner.run: evidence for any needs, the target among them or
\* not, is stored as it is found.
Search ==
    /\ pc = "search"
    /\ \E T \in SUBSET Needs :
        /\ Cardinality(T \ {loop.pending}) <= MaxReach
        /\ touched' = T
        /\ evidence' \in [Needs -> Status]
        /\ \A n \in Needs : IF n \in T THEN evidence'[n] \in Findings
                                       ELSE evidence'[n] = evidence[n]
    /\ searches' = [searches EXCEPT ![loop.pending] = @ + 1]
    /\ pc' = "record"
    /\ UNCHANGED <<saved, checkpointed, loop, status, stale, gaps, improving, stalled,
                   outcome, crashes>>

\* The evidence stage stops before it extracted anything.
SearchStops ==
    /\ pc = "search"
    /\ searches' = [searches EXCEPT ![loop.pending] = @ + 1]
    /\ Stop("budget_exhausted", loop.pending)
    /\ UNCHANGED <<evidence, saved, checkpointed, status, stale, gaps, touched,
                   improving, stalled, outcome, crashes>>

Target == loop.pending
CrossOnly == touched # {} /\ Target \notin touched
\* The assessment of what a search found for other needs waits while a need
\* without evidence has not had its turn.
Deferred ==
    /\ CrossOnly
    /\ \E n \in gaps \ {Target} :
        /\ n \notin stalled /\ Attempts(loop.history, n) < MaxAttempts
        /\ evidence[n] = "missing"

Recording(improved) ==
    [loop EXCEPT !.history = Append(@, [need |-> Target, round |-> loop.round,
                                        improved |-> improved]),
                 !.pending = NoNeed]

\* The search is assessed, recorded and checkpointed.
RecordSearch ==
    /\ pc = "record"
    /\ \/ status' = evidence /\ stale' = {}
       \/ Deferred /\ status' = status /\ stale' = stale \cup touched
    /\ LET improved == ~CrossOnly /\ Improved(status, status', stale', Target)
       IN  /\ loop' = Recording(improved) /\ saved' = loop'
           /\ improving' = (improving \/ improved)
           /\ stalled' = IF improved THEN stalled ELSE stalled \cup {Target}
    /\ gaps' = {} /\ touched' = {}
    /\ pc' = "gap"
    /\ UNCHANGED <<evidence, checkpointed, outcome, searches, crashes>>

\* The sufficiency budget is exhausted during the assessment: the search is
\* recorded on the assessments that were completed, and the loop ends.
RecordAndStop ==
    /\ pc = "record"
    /\ \E done \in SUBSET (touched \cup stale) :
        /\ done # touched \cup stale
        /\ status' = [n \in Needs |-> IF n \in done THEN evidence[n] ELSE status[n]]
        /\ stale' = (touched \cup stale) \ done
    /\ loop' = [Recording(Improved(status, status', stale', Target))
                  EXCEPT !.reason = "budget_exhausted"]
    /\ pc' = "gate"
    /\ UNCHANGED <<evidence, saved, checkpointed, gaps, touched, improving, stalled,
                   outcome, searches, crashes>>

\* A round goes on to the next when it improved something, or when one of its
\* records names a strategy that remains, which each of them does.
InRound == {i \in DOMAIN loop.history : loop.history[i].round = loop.round}
\* Mutant: the rounds are not counted.
EndRoundUncounted ==
    /\ pc = "endround"
    /\ IF ~improving /\ InRound = {} THEN Stop("no_material_improvement", loop.pending)
       ELSE loop' = [loop EXCEPT !.round = @ + 1] /\ pc' = "round"
    /\ UNCHANGED <<evidence, saved, checkpointed, status, stale, gaps, touched,
                   improving, stalled, outcome, searches, crashes>>
\* Mutant: a round that could not search anything is made again.
EndRoundInsisting ==
    /\ pc = "endround"
    /\ \/ ~improving /\ InRound = {} /\ pc' = "round" /\ UNCHANGED loop
       \/ /\ improving \/ InRound # {}
          /\ IF loop.round = MaxRounds THEN Stop("max_research_rounds", loop.pending)
             ELSE loop' = [loop EXCEPT !.round = @ + 1] /\ pc' = "round"
    /\ UNCHANGED <<evidence, saved, checkpointed, status, stale, gaps, touched,
                   improving, stalled, outcome, searches, crashes>>
EndRound ==
    /\ pc = "endround"
    /\ \/ ~improving /\ InRound = {} /\ Stop("no_material_improvement", loop.pending)
       \/ /\ improving \/ InRound # {}
          /\ IF loop.round = MaxRounds THEN Stop("max_research_rounds", loop.pending)
             ELSE loop' = [loop EXCEPT !.round = @ + 1] /\ pc' = "round"
    /\ UNCHANGED <<evidence, saved, checkpointed, status, stale, gaps, touched,
                   improving, stalled, outcome, searches, crashes>>
--------------------------------------------------------------------------------
(***************************************************************************)
(* The end of assess_and_apply, and crashes.                               *)
(***************************************************************************)

\* The task leaves memory; what a finished loop concluded stays in the task result.
Release ==
    /\ status' = evidence /\ stale' = {}
    /\ gaps' = {} /\ touched' = {} /\ improving' = FALSE /\ stalled' = {}

\* _finalize_terminal_readiness, apply_analysis_gate and the checkpoint of the
\* completed task.  A current PARTIAL assessment is eligible if it supports one
\* of the required aspects.
Gate ==
    /\ pc = "gate"
    /\ \E supported \in SUBSET {n \in Needs : status[n] = "partial"} :
        LET eligible == (supported \cup {n \in Needs : status[n] = "sufficient"}) \ stale
        IN  outcome' = IF Ready(status, stale) THEN "ready"
                       ELSE IF eligible # {} THEN "scoped" ELSE "insufficient"
    /\ saved' = loop /\ checkpointed' = TRUE
    /\ pc' = "ended"
    /\ Release
    /\ UNCHANGED <<evidence, loop, searches, crashes>>

\* The task starts again from its checkpoint, and fails if it has none
\* (recover_interrupted_running_tasks).
Crash ==
    /\ pc \notin {"idle", "ended"} /\ crashes < MaxCrashes
    /\ crashes' = crashes + 1
    /\ IF checkpointed THEN pc' = "idle" /\ UNCHANGED outcome
                       ELSE pc' = "ended" /\ outcome' = "failed"
    /\ loop' = Blank /\ Release
    /\ UNCHANGED <<evidence, saved, checkpointed, searches>>

\* A technical error, or a budget stop that is not graceful.  The graceful stop of
\* the first assessment is one of these: an assessment is only charged where there
\* is evidence, and _missing_readiness_fallback raises where there is evidence.
Fail ==
    /\ pc \in {"idle", "search", "record"} /\ outcome = "none"
    /\ pc' = "ended" /\ outcome' = "failed"
    /\ loop' = Blank /\ Release
    /\ UNCHANGED <<evidence, saved, checkpointed, searches, crashes>>

Step == AssessOnly \/ AssessAndLoop \/ BeginRound \/ NothingToSelect \/ SelectGap
        \/ Search \/ RecordSearch \/ EndRound \/ Gate
Next == Step \/ BudgetUnavailable \/ SearchStops \/ RecordAndStop \/ Fail \/ Crash

Spec == Init /\ [][Next]_vars
FairSpec == Spec /\ WF_vars(Step)
--------------------------------------------------------------------------------
(***************************************************************************)
(* Properties.                                                             *)
(***************************************************************************)
TypeOK ==
    /\ evidence \in [Needs -> Status] /\ status \in [Needs -> Status]
    /\ saved \in LoopState /\ loop \in LoopState
    /\ checkpointed \in BOOLEAN /\ improving \in BOOLEAN
    /\ stale \subseteq Needs /\ gaps \subseteq Needs
    /\ touched \subseteq Needs /\ stalled \subseteq Needs
    /\ pc \in Pc /\ outcome \in Outcome
    /\ searches \in [Needs -> Nat] /\ crashes \in 0..MaxCrashes

\* The paid searches are bounded whatever crashes: an attempt that is recorded is
\* never repeated beyond the bound, and each crash forgets at most one search.
SearchesBounded ==
    \A n \in Needs : /\ Attempts(loop.history, n) <= MaxAttempts
                     /\ searches[n] <= MaxAttempts + crashes

\* A gap that did not improve waits for the next round.
StalledGapWaits ==
    \A i, j \in DOMAIN loop.history :
        /\ i < j /\ loop.history[i].need = loop.history[j].need
        /\ loop.history[i].round = loop.history[j].round
        => loop.history[i].improved

\* No need is searched twice while one without any evidence was never searched.
UntriedGapComesFirst ==
    (\E n \in Needs : evidence[n] = "missing" /\ Attempts(loop.history, n) = 0) =>
        \A n \in Needs : Attempts(loop.history, n) <= 1

TurnsAreFair == SearchesBounded /\ StalledGapWaits /\ UntriedGapComesFirst

\* Analysis starts on what the stored evidence shows, never on an assessment that
\* it has outrun, and the reason given for ending the loop is the true one.  The
\* exception is a crash after a search that closed its gap: the pending request is
\* then the only gap considered, and the others are reported as not there.
OutcomeIsTrue ==
    /\ outcome = "ready" => \A n \in Needs : evidence[n] = "sufficient"
    /\ outcome = "scoped" => \E n \in Needs : evidence[n] \in {"partial", "sufficient"}
    /\ outcome \in {"ready", "scoped", "insufficient"} =>
        /\ loop.reason = "no_actionable_gaps" =>
              Actionable(evidence) = {} \/ (crashes > 0 /\ loop.pending # NoNeed)
        /\ loop.reason = "max_research_rounds" => loop.round = MaxRounds
        /\ loop.reason = "no_material_improvement" => InRound = {}

\* The task ends, whatever crashes.
LoopEnds == <>(outcome # "none")
===============================================================================
