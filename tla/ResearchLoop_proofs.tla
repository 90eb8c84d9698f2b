-------------------------- MODULE ResearchLoop_proofs --------------------------
(***************************************************************************)
(* That the searches of the research loop are bounded and in turn, and its *)
(* outcome true, for any needs, rounds, budgets and number of crashes.     *)
(***************************************************************************)
EXTENDS ResearchLoop, TLAPS, FiniteSetTheorems, WellFoundedInduction

InLoop == {"round", "gap", "search", "record", "endround"}

\* Some need without any evidence was never searched.
Untried(ev, h) == \E n \in Needs : ev[n] = "missing" /\ Attempts(h, n) = 0

\* TurnsAreFair of a history: of the loop's, and of the one a restart begins with.
HistoryOK(ev, h) ==
    /\ \A n \in Needs : Attempts(h, n) <= MaxAttempts
    /\ \A i, j \in DOMAIN h :
        i < j /\ h[i].need = h[j].need /\ h[i].round = h[j].round => h[i].improved
    /\ Untried(ev, h) => \A n \in Needs : Attempts(h, n) <= 1

\* The copy in memory and the checkpoint differ in the last request only.  What the
\* loop is left with after a crash is a request that was pending.
CopyOK ==
    /\ pc \in InLoop => /\ loop.history = saved.history
                        /\ loop.round # 0 /\ loop.reason = "none"
    /\ pc # "ended" => saved.reason = "none"
    /\ pc \in {"round", "gap", "endround"} /\ loop.pending # NoNeed => crashes > 0
    /\ pc = "idle" /\ saved.pending # NoNeed => crashes > 0
    /\ pc = "ended" <=> outcome # "none"

\* stalled_need_ids covers what the history says of the round, and only needs
\* that were searched.
StalledOK ==
    /\ pc \in {"gap", "search", "record"} => Stalled(loop.history, loop.round) \subseteq stalled
    /\ stalled \subseteq Recorded(loop.history)
    /\ pc = "idle" => stalled = {}

\* The need that is searched has its turn.
TurnOK ==
    pc \in {"search", "record"} =>
        /\ loop.pending \in Needs \ stalled
        /\ Attempts(loop.history, loop.pending) < MaxAttempts
        /\ Attempts(loop.history, loop.pending) # 0 => ~Untried(evidence, loop.history)

\* What is not marked stale is what the evidence shows, and a need without
\* evidence is known to have none.
SeenOK ==
    /\ \A n \in Needs : evidence[n] = "missing" => status[n] = "missing"
    /\ \A n \in Needs : \/ n \in stale \/ (pc = "record" /\ n \in touched)
                        \/ status[n] = evidence[n]
    /\ pc \notin {"record", "gate"} /\ stale # {} => \E n \in Needs : evidence[n] = "missing"

\* The searches that the checkpoint does not show.
CountOK ==
    \A n \in Needs :
        /\ searches[n] <= MaxAttempts + crashes
        /\ pc \notin {"gate", "ended"} =>
              searches[n] <= Attempts(saved.history, n) + crashes
                             + (IF pc = "record" /\ n = loop.pending THEN 1 ELSE 0)
        /\ pc = "gate" => searches[n] <= Attempts(saved.history, n) + crashes + 1

ReasonOK ==
    /\ loop.reason = "no_actionable_gaps" =>
          Actionable(evidence) = {} \/ (crashes > 0 /\ loop.pending # NoNeed)
    /\ loop.reason = "max_research_rounds" => loop.round = MaxRounds
    /\ loop.reason = "no_material_improvement" => InRound = {}
ConclusionOK ==
    /\ pc \in {"gate", "ended"} => ReasonOK
    /\ outcome = "ready" => \A n \in Needs : evidence[n] = "sufficient"
    /\ outcome = "scoped" => \E n \in Needs : evidence[n] \in {"partial", "sufficient"}

LoopInv ==
    /\ TypeOK
    /\ HistoryOK(evidence, loop.history) /\ HistoryOK(evidence, saved.history)
    /\ CopyOK /\ StalledOK /\ TurnOK /\ SeenOK /\ CountOK /\ ConclusionOK
--------------------------------------------------------------------------------
(***************************************************************************)
(* Attempts and their histories.                                           *)
(***************************************************************************)
LEMMA AttemptsNat ==
    ASSUME NEW h \in Seq(Record), NEW n
    PROVE  /\ IsFiniteSet({i \in DOMAIN h : h[i].need = n})
           /\ Attempts(h, n) \in Nat
           /\ Attempts(h, n) = 0 <=> n \notin Recorded(h)
  <1> DEFINE S == {i \in DOMAIN h : h[i].need = n}
  <1>1. IsFiniteSet(1..Len(h))
    BY FS_Interval
  <1>2. IsFiniteSet(S)
    BY <1>1, FS_Subset
  <1>3. Cardinality(S) \in Nat /\ (Cardinality(S) = 0 <=> S = {})
    BY <1>2, FS_CardinalityType, FS_EmptySet
  <1> QED
    BY <1>2, <1>3 DEF Attempts, Recorded

LEMMA AttemptsAppend ==
    ASSUME NEW h \in Seq(Record), NEW e \in Record, NEW n
    PROVE  Attempts(Append(h, e), n) = Attempts(h, n) + (IF e.need = n THEN 1 ELSE 0)
  <1> DEFINE g == Append(h, e)
             S == {i \in DOMAIN h : h[i].need = n}
             T == {i \in DOMAIN g : g[i].need = n}
  <1>1. /\ DOMAIN g = DOMAIN h \cup {Len(h) + 1} /\ Len(h) + 1 \notin DOMAIN h
        /\ \A i \in DOMAIN h : g[i] = h[i]
        /\ g[Len(h) + 1] = e
    OBVIOUS
  <1>2. T = IF e.need = n THEN S \cup {Len(h) + 1} ELSE S
    BY <1>1
  <1>3. IsFiniteSet(S) /\ Cardinality(S) \in Nat /\ Len(h) + 1 \notin S
    BY <1>1, AttemptsNat, FS_CardinalityType
  <1>4. Cardinality(S \cup {Len(h) + 1}) = Cardinality(S) + 1
    BY <1>3, FS_AddElement
  <1>5. Attempts(g, n) = Cardinality(T) /\ Attempts(h, n) = Cardinality(S)
    BY DEF Attempts
  <1> HIDE DEF S, T, g
  <1> QED
    BY <1>2, <1>3, <1>4, <1>5 DEF g

\* The counters that the checkpoint is compared with.
LEMMA CountTypes ==
    ASSUME TypeOK, NEW n \in Needs
    PROVE  /\ Attempts(saved.history, n) \in Nat /\ MaxAttempts \in Nat
           /\ searches[n] \in Nat /\ crashes \in Nat
  <1>1. saved.history \in Seq(Record)
    BY DEF TypeOK, LoopState
  <1>2. Attempts(saved.history, n) \in Nat
    BY <1>1, AttemptsNat
  <1>3. MaxAttempts \in Nat /\ MaxCrashes \in Nat
    BY BoundsAssumption
  <1> QED
    BY <1>2, <1>3 DEF TypeOK

LEMMA AttemptsEmpty == \A n : Attempts(<<>>, n) = 0
  <1> SUFFICES ASSUME NEW n PROVE Attempts(<<>>, n) = 0
    OBVIOUS
  <1>1. {i \in DOMAIN <<>> : <<>>[i].need = n} = {}
    OBVIOUS
  <1> QED
    BY <1>1, FS_EmptySet DEF Attempts

LEMMA BlankOK ==
    ASSUME NEW ev PROVE HistoryOK(ev, Blank.history) /\ Recorded(Blank.history) = {}
  <1>1. \A i \in DOMAIN Blank.history : FALSE
    BY DEF Blank
  <1>2. \A n : Attempts(Blank.history, n) = 0
    BY AttemptsEmpty DEF Blank
  <1> QED
    BY <1>1, <1>2, BoundsAssumption DEF HistoryOK, Recorded

\* Evidence is never lost, so that what was untried may only come to be tried.
LEMMA FoundOK ==
    ASSUME NEW ev, NEW ev2, NEW h, HistoryOK(ev, h),
           \A n \in Needs : ev2[n] = "missing" => ev[n] = "missing"
    PROVE  HistoryOK(ev2, h) /\ (Untried(ev2, h) => Untried(ev, h))
  BY DEF HistoryOK, Untried

LEMMA AppendOK ==
    ASSUME NEW ev, NEW h \in Seq(Record), NEW e \in Record,
           HistoryOK(ev, h), Attempts(h, e.need) < MaxAttempts,
           e.need \notin Stalled(h, e.round),
           Attempts(h, e.need) # 0 => ~Untried(ev, h)
    PROVE  /\ HistoryOK(ev, Append(h, e))
           /\ Recorded(Append(h, e)) = Recorded(h) \cup {e.need}
           /\ Stalled(Append(h, e), e.round) =
                 Stalled(h, e.round) \cup (IF e.improved THEN {} ELSE {e.need})
  <1> DEFINE g == Append(h, e)
  <1>1. /\ g \in Seq(Record)
        /\ DOMAIN g = DOMAIN h \cup {Len(h) + 1}
        /\ DOMAIN h = 1..Len(h) /\ Len(h) \in Nat
        /\ \A i \in DOMAIN h : g[i] = h[i]
        /\ g[Len(h) + 1] = e
    OBVIOUS
  <1>2. \A n \in Needs : /\ Attempts(h, n) \in Nat
                         /\ Attempts(g, n) = Attempts(h, n) + (IF e.need = n THEN 1 ELSE 0)
    BY AttemptsNat, AttemptsAppend
  <1>3. \A n \in Needs : Attempts(g, n) <= MaxAttempts
    BY <1>2, BoundsAssumption DEF HistoryOK
  <1>4. ASSUME NEW i \in DOMAIN g, NEW j \in DOMAIN g, i < j,
               g[i].need = g[j].need, g[i].round = g[j].round
        PROVE  g[i].improved
    <2>1. i \in DOMAIN h /\ g[i] = h[i]
      BY <1>1, <1>4
    <2>2. CASE j \in DOMAIN h
      BY <2>1, <2>2, <1>1, <1>4 DEF HistoryOK
    <2>3. CASE j = Len(h) + 1
      <3>1. h[i].need = e.need /\ h[i].round = e.round
        BY <2>1, <2>3, <1>1, <1>4
      <3> QED
        BY <3>1, <2>1 DEF Stalled
    <2> QED
      BY <2>2, <2>3, <1>1
  <1>5. Untried(ev, g) => \A n \in Needs : Attempts(g, n) <= 1
    <2> SUFFICES ASSUME Untried(ev, g), NEW n \in Needs PROVE Attempts(g, n) <= 1
      OBVIOUS
    <2>1. Untried(ev, h)
      BY <1>2 DEF Untried
    <2>2. Attempts(h, n) <= 1 /\ Attempts(h, e.need) = 0
      BY <2>1 DEF HistoryOK
    <2> QED
      BY <2>2, <1>2
  <1>6. Recorded(g) = Recorded(h) \cup {e.need}
    BY <1>1 DEF Recorded
  <1>7. Stalled(g, e.round) = Stalled(h, e.round) \cup (IF e.improved THEN {} ELSE {e.need})
    <2>1. ASSUME NEW n PROVE n \in Stalled(g, e.round) <=>
              n \in Stalled(h, e.round) \/ (~e.improved /\ n = e.need)
      BY <1>1 DEF Stalled
    <2> QED
      BY <2>1
  <1> QED
    BY <1>3, <1>4, <1>5, <1>6, <1>7 DEF HistoryOK
--------------------------------------------------------------------------------
(***************************************************************************)
(* The steps before and between the searches.                              *)
(***************************************************************************)
LEMMA InitInv == Init => LoopInv
  <1> SUFFICES ASSUME Init PROVE LoopInv
    OBVIOUS
  <1> USE DEF Init
  <1>1. Blank \in LoopState
    BY BoundsAssumption DEF Blank, LoopState, Reasons
  <1>2. TypeOK
    <2>1. evidence \in [Needs -> Status] /\ status = evidence
      BY NeedsAssumption
    <2>2. searches \in [Needs -> Nat] /\ crashes \in 0..MaxCrashes
      BY BoundsAssumption
    <2> QED
      BY <1>1, <2>1, <2>2 DEF TypeOK, Pc, Outcome
  <1>3. HistoryOK(evidence, loop.history) /\ HistoryOK(evidence, saved.history)
    BY BlankOK
  <1>4. CopyOK /\ StalledOK /\ TurnOK /\ SeenOK /\ ConclusionOK
    BY DEF CopyOK, StalledOK, TurnOK, SeenOK, ConclusionOK, Blank, InLoop
  <1>5. CountOK
    BY AttemptsEmpty, BoundsAssumption DEF CountOK, Blank
  <1> QED
    BY <1>2, <1>3, <1>4, <1>5 DEF LoopInv

LEMMA AssessOnlyStep == LoopInv /\ AssessOnly => LoopInv'
  <1> SUFFICES ASSUME LoopInv, AssessOnly PROVE LoopInv'
    OBVIOUS
  <1> USE DEF AssessOnly
  <1>1. TypeOK /\ saved \in LoopState
    BY DEF LoopInv, TypeOK
  <1>2. /\ loop' \in LoopState /\ loop'.history = saved.history
        /\ loop'.reason \in {"ready", "none"}
    BY <1>1 DEF LoopState, Reasons
  <1>3. TypeOK'
    BY <1>1, <1>2 DEF TypeOK, Pc
  <1>4. HistoryOK(evidence, loop.history)' /\ HistoryOK(evidence, saved.history)'
    BY <1>2 DEF LoopInv
  <1>5. CopyOK'
    BY <1>2 DEF LoopInv, CopyOK, InLoop
  <1>6. StalledOK' /\ TurnOK' /\ SeenOK'
    BY <1>2 DEF LoopInv, StalledOK, TurnOK, SeenOK
  <1>7. CountOK'
    <2> SUFFICES ASSUME NEW n \in Needs
                 PROVE  /\ searches[n] <= MaxAttempts + crashes
                        /\ searches[n] <= Attempts(saved.history, n) + crashes + 1
      BY DEF CountOK
    <2>1. /\ Attempts(saved.history, n) \in Nat /\ searches[n] \in Nat /\ crashes \in Nat
      BY <1>1, CountTypes
    <2> QED
      BY <2>1 DEF LoopInv, CountOK
  <1>8. ConclusionOK'
    BY <1>2 DEF ConclusionOK, ReasonOK
  <1> QED
    BY <1>3, <1>4, <1>5, <1>6, <1>7, <1>8 DEF LoopInv

LEMMA AssessAndLoopStep == LoopInv /\ AssessAndLoop => LoopInv'
  <1> SUFFICES ASSUME LoopInv, AssessAndLoop PROVE LoopInv'
    OBVIOUS
  <1> USE DEF AssessAndLoop
  <1>1. TypeOK /\ saved \in LoopState
    BY DEF LoopInv, TypeOK
  <1>2. /\ loop' \in LoopState /\ loop'.history = saved.history
        /\ loop'.reason = saved.reason /\ loop'.pending = saved.pending
        /\ loop'.round # 0
    BY <1>1, BoundsAssumption DEF LoopState
  <1>3. TypeOK'
    BY <1>1, <1>2 DEF TypeOK, Pc
  <1>4. HistoryOK(evidence, loop.history)' /\ HistoryOK(evidence, saved.history)'
    BY <1>2 DEF LoopInv
  <1>5. CopyOK'
    BY <1>2 DEF LoopInv, CopyOK, InLoop
  <1>6. StalledOK' /\ TurnOK' /\ SeenOK' /\ ConclusionOK'
    BY <1>2 DEF LoopInv, StalledOK, TurnOK, SeenOK, CopyOK, ConclusionOK
  <1>7. CountOK'
    BY DEF LoopInv, CountOK
  <1> QED
    BY <1>3, <1>4, <1>5, <1>6, <1>7 DEF LoopInv

LEMMA BeginRoundStep == LoopInv /\ BeginRound => LoopInv'
  <1> SUFFICES ASSUME LoopInv, BeginRound PROVE LoopInv'
    OBVIOUS
  <1> USE DEF BeginRound
  <1>1. Stalled(loop.history, loop.round) \subseteq Recorded(loop.history)
    BY DEF Stalled, Recorded
  <1>2. Recorded(loop.history) \subseteq Needs
    <2>1. loop.history \in Seq(Record)
      BY DEF LoopInv, TypeOK, LoopState
    <2>2. \A i \in DOMAIN loop.history : loop.history[i] \in Record
      BY <2>1
    <2> QED
      BY <2>2 DEF Record, Recorded
  <1>3. TypeOK'
    BY <1>1, <1>2 DEF LoopInv, TypeOK, Pc
  <1>4. CopyOK' /\ StalledOK' /\ TurnOK' /\ SeenOK' /\ ConclusionOK'
    BY <1>1 DEF LoopInv, CopyOK, StalledOK, TurnOK, SeenOK, ConclusionOK, InLoop
  <1>5. CountOK'
    BY DEF LoopInv, CountOK
  <1> QED
    BY <1>3, <1>4, <1>5 DEF LoopInv

\* The loop ends from one of its rounds, for a reason that is true.
LEMMA StopStep ==
    ASSUME LoopInv, pc \in InLoop \ {"record"}, NEW reason \in Reasons,
           NEW pending \in Needs \cup {NoNeed}, Stop(reason, pending),
           UNCHANGED <<evidence, saved, checkpointed, status, stale, gaps, touched,
                       improving, stalled, outcome, crashes>>,
           searches' \in [Needs -> Nat],
           \A n \in Needs : \/ searches'[n] = searches[n]
                            \/ /\ searches'[n] = searches[n] + 1
                               /\ Attempts(saved.history, n) < MaxAttempts,
           reason = "no_actionable_gaps" =>
               Actionable(evidence) = {} \/ (crashes > 0 /\ pending # NoNeed),
           reason = "max_research_rounds" => loop.round = MaxRounds,
           reason = "no_material_improvement" => InRound = {}
    PROVE  LoopInv'
  <1> USE DEF Stop, InLoop
  <1>1. TypeOK /\ loop \in LoopState /\ saved \in LoopState
    BY DEF LoopInv, TypeOK
  <1>2. /\ loop' \in LoopState /\ loop'.history = loop.history
        /\ loop'.reason = reason /\ loop'.round = loop.round
        /\ loop'.pending = pending
    BY <1>1 DEF LoopState
  <1>3. TypeOK'
    BY <1>1, <1>2 DEF TypeOK, Pc
  <1>4. HistoryOK(evidence, loop.history)' /\ HistoryOK(evidence, saved.history)'
    BY <1>2 DEF LoopInv
  <1>5. CopyOK' /\ StalledOK' /\ TurnOK' /\ SeenOK'
    BY <1>2 DEF LoopInv, CopyOK, StalledOK, TurnOK, SeenOK
  <1>6. CountOK'
    <2> SUFFICES ASSUME NEW n \in Needs
                 PROVE  /\ searches'[n] <= MaxAttempts + crashes
                        /\ searches'[n] <= Attempts(saved.history, n) + crashes + 1
      BY DEF CountOK
    <2>1. /\ Attempts(saved.history, n) \in Nat /\ MaxAttempts \in Nat
          /\ searches[n] \in Nat /\ crashes \in Nat
      BY <1>1, CountTypes
    <2>2. /\ searches[n] <= MaxAttempts + crashes
          /\ searches[n] <= Attempts(saved.history, n) + crashes
      BY <2>1 DEF LoopInv, CountOK
    <2> QED
      BY <2>1, <2>2
  <1>7. ConclusionOK'
    <2>1. InRound' = InRound
      BY <1>2 DEF InRound
    <2> QED
      BY <1>2, <2>1 DEF LoopInv, ConclusionOK, ReasonOK, CopyOK
  <1> QED
    BY <1>3, <1>4, <1>5, <1>6, <1>7 DEF LoopInv

\* When no gap is found, there is none but perhaps behind the pending one.
LEMMA NoGaps ==
    ASSUME LoopInv, pc = "gap", Gaps = {}
    PROVE  Actionable(evidence) = {} \/ (crashes > 0 /\ Pending # NoNeed)
  <1>1. CASE Pending # NoNeed
    BY <1>1 DEF LoopInv, CopyOK, Pending
  <1>2. CASE Pending = NoNeed
    <2>1. Actionable(status) = {}
      BY <1>2 DEF Gaps, Actionable
    <2>2. \A n \in Needs : evidence[n] # "missing"
      BY <2>1 DEF LoopInv, SeenOK, Actionable, ActionableStatus
    <2>3. stale = {}
      BY <2>2 DEF LoopInv, SeenOK
    <2>4. \A n \in Needs : status[n] = evidence[n]
      BY <2>3 DEF LoopInv, SeenOK
    <2> QED
      BY <2>1, <2>4 DEF Actionable
  <1> QED
    BY <1>1, <1>2

LEMMA StopsStep ==
    LoopInv /\ (NothingToSelect \/ BudgetUnavailable \/ SearchStops) => LoopInv'
  <1> SUFFICES ASSUME LoopInv, NothingToSelect \/ BudgetUnavailable \/ SearchStops
               PROVE  LoopInv'
    OBVIOUS
  <1>0. searches \in [Needs -> Nat] /\ {loop.pending, Pending} \subseteq Needs \cup {NoNeed}
    BY DEF LoopInv, TypeOK, LoopState, Pending
  <1>1. CASE NothingToSelect /\ Ready(status, stale)
    BY <1>1, <1>0, StopStep DEF NothingToSelect, InLoop, Reasons
  <1>2. CASE NothingToSelect /\ ~Ready(status, stale)
    BY <1>2, <1>0, NoGaps, StopStep DEF NothingToSelect, InLoop, Reasons
  <1>3. CASE BudgetUnavailable
    BY <1>3, <1>0, StopStep DEF BudgetUnavailable, InLoop, Reasons
  <1>4. CASE SearchStops
    <2>1. /\ loop.pending \in Needs /\ Attempts(saved.history, loop.pending) < MaxAttempts
      BY <1>4 DEF SearchStops, LoopInv, TurnOK, CopyOK, InLoop
    <2>2. /\ searches' \in [Needs -> Nat]
          /\ \A n \in Needs : searches'[n] = searches[n] + (IF n = loop.pending THEN 1 ELSE 0)
      BY <1>0, <1>4, <2>1 DEF SearchStops
    <2>3. \A n \in Needs : \/ searches'[n] = searches[n]
                           \/ /\ searches'[n] = searches[n] + 1
                              /\ Attempts(saved.history, n) < MaxAttempts
      BY <2>1, <2>2, <1>0
    <2> QED
      BY <1>4, <2>2, <2>3, StopStep DEF SearchStops, InLoop, Reasons
  <1> QED
    BY <1>1, <1>2, <1>3, <1>4

LEMMA EndRoundStep == LoopInv /\ EndRound => LoopInv'
  <1> SUFFICES ASSUME LoopInv, EndRound PROVE LoopInv'
    OBVIOUS
  <1>0. searches \in [Needs -> Nat] /\ pc = "endround" /\ loop.pending \in Needs \cup {NoNeed}
    BY DEF LoopInv, TypeOK, LoopState, EndRound
  <1>1. CASE Stop("no_material_improvement", loop.pending) /\ InRound = {}
    BY <1>0, <1>1, StopStep DEF EndRound, InLoop, Reasons
  <1>2. CASE Stop("max_research_rounds", loop.pending) /\ loop.round = MaxRounds
    BY <1>0, <1>2, StopStep DEF EndRound, InLoop, Reasons
  <1>3. CASE /\ loop.round < MaxRounds
             /\ loop' = [loop EXCEPT !.round = @ + 1] /\ pc' = "round"
    <2> USE <1>0, <1>3 DEF EndRound
    <2>1. TypeOK /\ loop \in LoopState /\ loop.round \in Nat /\ loop.round # 0
      BY DEF LoopInv, TypeOK, LoopState, CopyOK, InLoop
    <2>2. /\ loop' \in LoopState /\ loop'.history = loop.history
          /\ loop'.pending = loop.pending /\ loop'.reason = loop.reason
          /\ loop'.round # 0
      BY <2>1, BoundsAssumption DEF LoopState
    <2>3. TypeOK'
      BY <2>1, <2>2 DEF TypeOK, Pc
    <2>4. HistoryOK(evidence, loop.history)' /\ HistoryOK(evidence, saved.history)'
      BY <2>2 DEF LoopInv
    <2>5. CopyOK' /\ StalledOK' /\ TurnOK' /\ SeenOK' /\ ConclusionOK'
      BY <2>2 DEF LoopInv, CopyOK, StalledOK, TurnOK, SeenOK, ConclusionOK, InLoop
    <2>6. CountOK'
      BY DEF LoopInv, CountOK
    <2> QED
      BY <2>3, <2>4, <2>5, <2>6 DEF LoopInv
  <1>4. loop.round \in 0..MaxRounds /\ MaxRounds \in Nat
    BY BoundsAssumption DEF LoopInv, TypeOK, LoopState
  <1>5. loop.round = MaxRounds \/ loop.round < MaxRounds
    BY <1>4
  <1> QED
    BY <1>1, <1>2, <1>3, <1>5 DEF EndRound
--------------------------------------------------------------------------------
(***************************************************************************)
(* The choice of a gap.                                                    *)
(***************************************************************************)
LEMMA NatMin ==
    ASSUME NEW S \in SUBSET Nat, S # {}
    PROVE  \E n \in S : \A k \in S : n <= k
  <1> DEFINE R == OpToRel(<, Nat)
  <1>1. IsWellFoundedOn(R, Nat)
    BY NatLessThanWellFounded
  <1>2. \A x, y \in Nat : x < y => <<x, y>> \in R
    BY DEF OpToRel
  <1> HIDE DEF R
  <1>3. \E x \in S : \A y \in S : ~(<<y, x>> \in R)
    BY <1>1, WFMin
  <1>4. \A x, y \in S : ~(<<y, x>> \in R) => x <= y
    BY <1>2
  <1> QED
    BY <1>3, <1>4

\* decide_next_actionable_gap finds a need whose turn it is.
LEMMA PreferredTurn ==
    ASSUME LoopInv, pc = "gap", Eligible(Gaps) # {}
    PROVE  /\ Preferred(Gaps) \in Gaps \ stalled
           /\ Attempts(loop.history, Preferred(Gaps)) < MaxAttempts
           /\ Attempts(loop.history, Preferred(Gaps)) # 0 => ~Untried(evidence, loop.history)
  <1> DEFINE p == Preferred(Gaps)
             first == {n \in Eligible(Gaps) : Attempts(loop.history, n) = 0}
             cohort == IF first # {} THEN first ELSE Eligible(Gaps)
             empty == {n \in cohort : evidence[n] = "missing"}
             best == IF empty # {} THEN empty ELSE cohort
  <1>1. Gaps \subseteq Needs /\ Eligible(Gaps) \subseteq Gaps
    BY DEF Gaps, Actionable, Eligible
  <1>2. best \subseteq cohort /\ cohort \subseteq Eligible(Gaps) /\ best # {}
    OBVIOUS
  <1>3. best \in SUBSET Nat
    BY <1>1, <1>2, NeedsAssumption
  <1>4. \E n \in best : \A m \in best : n <= m
    BY <1>2, <1>3, NatMin
  <1>5. p = CHOOSE n \in best : \A m \in best : n <= m
    BY DEF Preferred
  <1> HIDE DEF best
  <1>6. p \in best
    BY <1>4, <1>5
  <1> HIDE DEF p
  <1>7. p \in cohort /\ p \in Eligible(Gaps)
    BY <1>2, <1>6
  <1>8. p \in Gaps \ stalled /\ Attempts(loop.history, p) < MaxAttempts
    BY <1>7 DEF Eligible
  <1>9. ASSUME Attempts(loop.history, p) # 0, Untried(evidence, loop.history) PROVE FALSE
    <2>1. loop.history \in Seq(Record) /\ p \in Needs
      BY <1>1, <1>8 DEF LoopInv, TypeOK, LoopState
    <2>2. Pending = NoNeed
      <3> SUFFICES ASSUME Pending # NoNeed PROVE FALSE
        OBVIOUS
      <3>1. p = Pending
        BY <1>8 DEF Gaps
      <3>2. Pending \notin Recorded(loop.history)
        BY DEF Pending
      <3> QED
        BY <3>1, <3>2, <2>1, <1>9, AttemptsNat
    <2>3. PICK n \in Needs : evidence[n] = "missing" /\ Attempts(loop.history, n) = 0
      BY <1>9 DEF Untried
    <2>4. n \in Gaps
      BY <2>2, <2>3 DEF LoopInv, SeenOK, Gaps, Actionable, ActionableStatus
    <2>5. n \notin stalled
      BY <2>1, <2>3, AttemptsNat DEF LoopInv, StalledOK
    <2>6. n \in first
      BY <2>3, <2>4, <2>5, BoundsAssumption DEF Eligible
    <2>7. p \in first
      BY <2>6, <1>7
    <2> QED
      BY <2>7, <1>9
  <1> QED
    BY <1>8, <1>9 DEF p

LEMMA SelectGapStep == LoopInv /\ SelectGap => LoopInv'
  <1> SUFFICES ASSUME LoopInv, SelectGap PROVE LoopInv'
    OBVIOUS
  <1> USE DEF SelectGap
  <1>1. TypeOK /\ loop \in LoopState /\ saved \in LoopState /\ pc = "gap"
    BY DEF LoopInv, TypeOK
  <1>2. Gaps \subseteq Needs
    BY DEF Gaps, Actionable
  <1>3. CASE Eligible(Gaps) = {}
    <2>1. /\ Pending \in Needs \cup {NoNeed}
          /\ Pending # NoNeed => loop.pending # NoNeed
      BY <1>1 DEF Pending, LoopState
    <2>2. /\ loop' = [loop EXCEPT !.pending = Pending] /\ pc' = "endround"
          /\ UNCHANGED <<saved, gaps, evidence, checkpointed, status, stale, touched,
                         improving, stalled, outcome, searches, crashes>>
      BY <1>3
    <2>3. /\ loop' \in LoopState /\ loop'.history = loop.history
          /\ loop'.pending = Pending /\ loop'.reason = loop.reason
          /\ loop'.round = loop.round
      BY <1>1, <2>1, <2>2 DEF LoopState
    <2>4. TypeOK'
      BY <1>1, <2>2, <2>3 DEF TypeOK, Pc
    <2>5. HistoryOK(evidence, loop.history)' /\ HistoryOK(evidence, saved.history)'
      BY <2>2, <2>3 DEF LoopInv
    <2>6. CopyOK' /\ StalledOK' /\ TurnOK' /\ SeenOK' /\ ConclusionOK'
      BY <1>1, <2>1, <2>2, <2>3
         DEF LoopInv, CopyOK, StalledOK, TurnOK, SeenOK, ConclusionOK, InLoop
    <2>7. CountOK'
      BY <1>1, <2>2 DEF LoopInv, CountOK
    <2> QED
      BY <2>4, <2>5, <2>6, <2>7 DEF LoopInv
  <1>4. CASE Eligible(Gaps) # {}
    <2> DEFINE p == Preferred(Gaps)
    <2>1. /\ loop' = [loop EXCEPT !.pending = p] /\ saved' = loop' /\ gaps' = Gaps
          /\ pc' = "search"
          /\ UNCHANGED <<evidence, checkpointed, status, stale, touched,
                         improving, stalled, outcome, searches, crashes>>
      BY <1>4
    <2>2. /\ p \in Needs \ stalled /\ Attempts(loop.history, p) < MaxAttempts
          /\ Attempts(loop.history, p) # 0 => ~Untried(evidence, loop.history)
      BY <1>1, <1>2, <1>4, PreferredTurn
    <2> HIDE DEF p
    <2>3. /\ loop' \in LoopState /\ loop'.history = loop.history
          /\ loop'.pending = p /\ loop'.reason = loop.reason
          /\ loop'.round = loop.round
      BY <1>1, <2>1, <2>2 DEF LoopState
    <2>4. loop.history = saved.history /\ loop.round # 0 /\ loop.reason = "none"
      BY <1>1 DEF LoopInv, CopyOK, InLoop
    <2>5. TypeOK'
      BY <1>1, <1>2, <2>1, <2>3 DEF TypeOK, Pc
    <2>6. HistoryOK(evidence, loop.history)' /\ HistoryOK(evidence, saved.history)'
      BY <2>1, <2>3 DEF LoopInv
    <2>7. CopyOK' /\ StalledOK' /\ TurnOK' /\ SeenOK' /\ ConclusionOK'
      BY <1>1, <2>1, <2>2, <2>3, <2>4
         DEF LoopInv, CopyOK, StalledOK, TurnOK, SeenOK, ConclusionOK, InLoop
    <2>8. CountOK'
      BY <1>1, <2>1, <2>3, <2>4 DEF LoopInv, CountOK
    <2> QED
      BY <2>5, <2>6, <2>7, <2>8 DEF LoopInv
  <1> QED
    BY <1>3, <1>4
--------------------------------------------------------------------------------
(***************************************************************************)
(* A search, and its record.                                               *)
(***************************************************************************)
LEMMA SearchStep == LoopInv /\ Search => LoopInv'
  <1> SUFFICES ASSUME LoopInv, Search PROVE LoopInv'
    OBVIOUS
  <1> DEFINE p == loop.pending
  <1>1. /\ pc = "search" /\ pc' = "record" /\ searches' = [searches EXCEPT ![p] = @ + 1]
        /\ UNCHANGED <<saved, checkpointed, loop, status, stale, gaps, improving, stalled,
                       outcome, crashes>>
    BY DEF Search
  <1>2. /\ touched' \subseteq Needs /\ evidence' \in [Needs -> Status]
        /\ \A n \in Needs : IF n \in touched' THEN evidence'[n] \in Findings
                                              ELSE evidence'[n] = evidence[n]
    BY DEF Search
  <1>3. \A n \in Needs : evidence'[n] = "missing" => evidence[n] = "missing"
    BY <1>2, NeedsAssumption
  <1>4. /\ TypeOK /\ loop \in LoopState /\ saved \in LoopState
        /\ loop.history = saved.history
    BY <1>1 DEF LoopInv, TypeOK, CopyOK, InLoop
  <1>5. /\ p \in Needs \ stalled /\ Attempts(loop.history, p) < MaxAttempts
        /\ Attempts(loop.history, p) # 0 => ~Untried(evidence, loop.history)
    BY <1>1 DEF LoopInv, TurnOK
  <1>6. TypeOK'
    BY <1>1, <1>2, <1>4, <1>5 DEF TypeOK, Pc
  <1>7. /\ HistoryOK(evidence', loop.history)
        /\ Untried(evidence', loop.history) => Untried(evidence, loop.history)
    BY <1>3, FoundOK DEF LoopInv
  <1>8. HistoryOK(evidence, loop.history)' /\ HistoryOK(evidence, saved.history)'
    BY <1>1, <1>4, <1>7
  <1>9. CopyOK' /\ StalledOK'
    BY <1>1 DEF LoopInv, CopyOK, StalledOK, InLoop
  <1>10. TurnOK'
    BY <1>1, <1>5, <1>7 DEF TurnOK
  <1>11. SeenOK'
    BY <1>1, <1>2, <1>3 DEF LoopInv, SeenOK
  <1>12. CountOK'
    <2> SUFFICES ASSUME NEW n \in Needs
                 PROVE  /\ searches'[n] <= MaxAttempts + crashes
                        /\ searches'[n] <= Attempts(saved.history, n) + crashes
                                           + (IF n = p THEN 1 ELSE 0)
      BY <1>1 DEF CountOK
    <2>1. /\ Attempts(saved.history, n) \in Nat /\ MaxAttempts \in Nat
          /\ searches[n] \in Nat /\ crashes \in Nat
      BY <1>4, CountTypes
    <2>2. /\ searches[n] <= MaxAttempts + crashes
          /\ searches[n] <= Attempts(saved.history, n) + crashes
      BY <1>1, <2>1 DEF LoopInv, CountOK
    <2>3. searches'[n] = searches[n] + (IF n = p THEN 1 ELSE 0)
      BY <1>1, <1>4, <1>5 DEF TypeOK
    <2>4. CASE n = p
      BY <2>1, <2>2, <2>3, <2>4, <1>4, <1>5
    <2>5. CASE n # p
      BY <2>1, <2>2, <2>3, <2>5
    <2> QED
      BY <2>4, <2>5
  <1>13. ConclusionOK'
    BY <1>1 DEF LoopInv, ConclusionOK, CopyOK
  <1> QED
    BY <1>6, <1>8, <1>9, <1>10, <1>11, <1>12, <1>13 DEF LoopInv

\* What every record of a search makes of the loop state.
LEMMA RecordingOK ==
    ASSUME LoopInv, pc = "record", NEW b \in BOOLEAN
    PROVE  /\ Recording(b) \in LoopState
           /\ Recording(b).pending = NoNeed /\ Recording(b).reason = "none"
           /\ Recording(b).round = loop.round /\ loop.round # 0
           /\ loop.history = saved.history
           /\ Target \in Needs \ stalled /\ Target = loop.pending
           /\ HistoryOK(evidence, Recording(b).history)
           /\ Recorded(Recording(b).history) = Recorded(loop.history) \cup {Target}
           /\ Stalled(Recording(b).history, loop.round) =
                 Stalled(loop.history, loop.round) \cup (IF b THEN {} ELSE {Target})
           /\ \A n \in Needs : Attempts(Recording(b).history, n) =
                 Attempts(saved.history, n) + (IF n = Target THEN 1 ELSE 0)
  <1> DEFINE e == [need |-> Target, round |-> loop.round, improved |-> b]
             h == loop.history
  <1>1. /\ loop \in LoopState /\ h \in Seq(Record) /\ h = saved.history
        /\ loop.round \in 1..MaxRounds /\ loop.reason = "none"
    BY DEF LoopInv, TypeOK, LoopState, CopyOK, InLoop
  <1>2. /\ Target = loop.pending /\ Target \in Needs \ stalled
        /\ Attempts(h, Target) < MaxAttempts
        /\ Attempts(h, Target) # 0 => ~Untried(evidence, h)
    BY DEF LoopInv, TurnOK, Target
  <1>3. e \in Record /\ e.need = Target /\ e.round = loop.round /\ e.improved = b
    BY <1>1, <1>2 DEF Record
  <1>4. Target \notin Stalled(h, loop.round)
    BY <1>2 DEF LoopInv, StalledOK
  <1>5. HistoryOK(evidence, h)
    BY DEF LoopInv
  <1>6. /\ Recording(b).history = Append(h, e) /\ Recording(b).pending = NoNeed
        /\ Recording(b).reason = "none" /\ Recording(b).round = loop.round
    BY <1>1 DEF Recording, LoopState
  <1> HIDE DEF e, h
  <1>7. Append(h, e) \in Seq(Record)
    BY <1>1, <1>3
  <1>8. Recording(b) \in LoopState
    BY <1>1, <1>7 DEF Recording, LoopState, e, h
  <1>9. /\ HistoryOK(evidence, Append(h, e))
        /\ Recorded(Append(h, e)) = Recorded(h) \cup {Target}
        /\ Stalled(Append(h, e), loop.round) =
              Stalled(h, loop.round) \cup (IF b THEN {} ELSE {Target})
    <2>1. /\ e.need \notin Stalled(h, e.round) /\ Attempts(h, e.need) < MaxAttempts
          /\ Attempts(h, e.need) # 0 => ~Untried(evidence, h)
      BY <1>2, <1>3, <1>4
    <2>2. /\ HistoryOK(evidence, Append(h, e))
          /\ Recorded(Append(h, e)) = Recorded(h) \cup {e.need}
          /\ Stalled(Append(h, e), e.round) =
                Stalled(h, e.round) \cup (IF e.improved THEN {} ELSE {e.need})
      BY <1>1, <1>3, <1>5, <2>1, AppendOK
    <2> QED
      BY <1>3, <2>2
  <1>10. \A n \in Needs : Attempts(Append(h, e), n) =
            Attempts(h, n) + (IF n = Target THEN 1 ELSE 0)
    BY <1>1, <1>3, AttemptsAppend
  <1> QED
    BY <1>1, <1>2, <1>6, <1>8, <1>9, <1>10 DEF h

LEMMA RecordSearchStep == LoopInv /\ RecordSearch => LoopInv'
  <1> SUFFICES ASSUME LoopInv, RecordSearch PROVE LoopInv'
    OBVIOUS
  <1>1. /\ pc = "record" /\ pc' = "gap" /\ gaps' = {} /\ touched' = {}
        /\ UNCHANGED <<evidence, checkpointed, outcome, searches, crashes>>
    BY DEF RecordSearch
  <1>2. PICK b \in BOOLEAN :
           /\ loop' = Recording(b) /\ saved' = loop'
           /\ improving' \in BOOLEAN
           /\ stalled' = IF b THEN stalled ELSE stalled \cup {Target}
    <2> DEFINE b == ~CrossOnly /\ Improved(status, status', stale', Target)
    <2>1. b \in BOOLEAN
      OBVIOUS
    <2>2. improving \in BOOLEAN
      BY DEF LoopInv, TypeOK
    <2>3. /\ loop' = Recording(b) /\ saved' = loop'
          /\ improving' = (improving \/ b)
          /\ stalled' = IF b THEN stalled ELSE stalled \cup {Target}
      BY DEF RecordSearch
    <2> QED
      BY <2>1, <2>2, <2>3
  <1>3. \/ status' = evidence /\ stale' = {}
        \/ Deferred /\ status' = status /\ stale' = stale \cup touched
    BY DEF RecordSearch
  <1>4. TypeOK
    BY DEF LoopInv
  <1>5. /\ loop' \in LoopState /\ loop'.pending = NoNeed /\ loop'.reason = "none"
        /\ loop'.round = loop.round /\ loop.round # 0
        /\ Target \in Needs \ stalled /\ Target = loop.pending
        /\ HistoryOK(evidence, loop'.history)
        /\ Recorded(loop'.history) = Recorded(loop.history) \cup {Target}
        /\ Stalled(loop'.history, loop.round) =
              Stalled(loop.history, loop.round) \cup (IF b THEN {} ELSE {Target})
        /\ \A n \in Needs : Attempts(loop'.history, n) =
              Attempts(saved.history, n) + (IF n = Target THEN 1 ELSE 0)
    BY <1>1, <1>2, RecordingOK
  <1>6. TypeOK'
    <2>1. status' \in [Needs -> Status] /\ stale' \subseteq Needs
      BY <1>3, <1>4 DEF TypeOK
    <2> QED
      BY <1>1, <1>2, <1>4, <1>5, <2>1 DEF TypeOK, Pc
  <1>7. HistoryOK(evidence, loop.history)' /\ HistoryOK(evidence, saved.history)'
    BY <1>1, <1>2, <1>5
  <1>8. CopyOK' /\ TurnOK' /\ ConclusionOK'
    BY <1>1, <1>2, <1>5 DEF LoopInv, CopyOK, TurnOK, ConclusionOK, InLoop
  <1>9. StalledOK'
    BY <1>1, <1>2, <1>5 DEF LoopInv, StalledOK
  <1>10. SeenOK'
    <2>1. CASE status' = evidence /\ stale' = {}
      BY <1>1, <2>1 DEF SeenOK
    <2>2. CASE Deferred /\ status' = status /\ stale' = stale \cup touched
      <3>1. gaps \subseteq Needs
        BY <1>4 DEF TypeOK
      <3>2. \E n \in Needs : evidence[n] = "missing"
        BY <2>2, <3>1 DEF Deferred
      <3> QED
        BY <1>1, <2>2, <3>2 DEF LoopInv, SeenOK
    <2> QED
      BY <1>3, <2>1, <2>2
  <1>11. CountOK'
    <2> SUFFICES ASSUME NEW n \in Needs
                 PROVE  /\ searches[n] <= MaxAttempts + crashes
                        /\ searches[n] <= Attempts(loop'.history, n) + crashes + 0
      BY <1>1, <1>2 DEF CountOK
    <2>1. /\ Attempts(saved.history, n) \in Nat /\ searches[n] \in Nat /\ crashes \in Nat
      BY <1>4, CountTypes
    <2> QED
      BY <2>1, <1>1, <1>5 DEF LoopInv, CountOK
  <1> QED
    BY <1>6, <1>7, <1>8, <1>9, <1>10, <1>11 DEF LoopInv

LEMMA RecordAndStopStep == LoopInv /\ RecordAndStop => LoopInv'
  <1> SUFFICES ASSUME LoopInv, RecordAndStop PROVE LoopInv'
    OBVIOUS
  <1>1. /\ pc = "record" /\ pc' = "gate"
        /\ UNCHANGED <<evidence, saved, checkpointed, gaps, touched, improving, stalled,
                       outcome, searches, crashes>>
    BY DEF RecordAndStop
  <1>2. PICK b \in BOOLEAN : loop' = [Recording(b) EXCEPT !.reason = "budget_exhausted"]
    <2> DEFINE b == Improved(status, status', stale', Target)
    <2>1. b \in BOOLEAN
      BY DEF Improved
    <2> QED
      BY <2>1 DEF RecordAndStop
  <1>3. PICK done \in SUBSET (touched \cup stale) :
           /\ status' = [n \in Needs |-> IF n \in done THEN evidence[n] ELSE status[n]]
           /\ stale' = (touched \cup stale) \ done
    BY DEF RecordAndStop
  <1>4. TypeOK
    BY DEF LoopInv
  <1>5. /\ Recording(b) \in LoopState
        /\ HistoryOK(evidence, Recording(b).history)
        /\ loop.history = saved.history /\ Target = loop.pending
        /\ Recorded(Recording(b).history) = Recorded(loop.history) \cup {Target}
    BY <1>1, RecordingOK
  <1>6. /\ loop' \in LoopState /\ loop'.history = Recording(b).history
        /\ loop'.reason = "budget_exhausted"
    BY <1>2, <1>5 DEF LoopState, Reasons
  <1>7. TypeOK'
    <2>1. status' \in [Needs -> Status] /\ stale' \subseteq Needs
      BY <1>3, <1>4 DEF TypeOK
    <2> QED
      BY <1>1, <1>4, <1>6, <2>1 DEF TypeOK, Pc
  <1>8. HistoryOK(evidence, loop.history)' /\ HistoryOK(evidence, saved.history)'
    BY <1>1, <1>5, <1>6 DEF LoopInv
  <1>9. CopyOK' /\ StalledOK' /\ TurnOK'
    BY <1>1, <1>5, <1>6 DEF LoopInv, CopyOK, StalledOK, TurnOK, InLoop
  <1>10. SeenOK'
    BY <1>1, <1>3 DEF LoopInv, SeenOK
  <1>11. CountOK'
    <2> SUFFICES ASSUME NEW n \in Needs
                 PROVE  /\ searches[n] <= MaxAttempts + crashes
                        /\ searches[n] <= Attempts(saved.history, n) + crashes + 1
      BY <1>1 DEF CountOK
    <2>1. Attempts(saved.history, n) \in Nat /\ searches[n] \in Nat /\ crashes \in Nat
      BY <1>4, CountTypes
    <2> QED
      BY <2>1, <1>1 DEF LoopInv, CountOK
  <1>12. ConclusionOK'
    BY <1>1, <1>6 DEF LoopInv, ConclusionOK, ReasonOK, CopyOK
  <1> QED
    BY <1>7, <1>8, <1>9, <1>10, <1>11, <1>12 DEF LoopInv
--------------------------------------------------------------------------------
(***************************************************************************)
(* The ends of the task.                                                   *)
(***************************************************************************)
LEMMA ReleaseOK ==
    ASSUME LoopInv, Release
    PROVE  /\ status' = evidence /\ stale' = {} /\ stalled' = {}
           /\ status' \in [Needs -> Status] /\ gaps' = {} /\ touched' = {}
           /\ improving' \in BOOLEAN
  BY DEF LoopInv, TypeOK, Release

LEMMA GateStep == LoopInv /\ Gate => LoopInv'
  <1> SUFFICES ASSUME LoopInv, Gate PROVE LoopInv'
    OBVIOUS
  <1>1. /\ pc = "gate" /\ pc' = "ended" /\ saved' = loop /\ checkpointed' = TRUE /\ Release
        /\ UNCHANGED <<evidence, loop, searches, crashes>>
    BY DEF Gate
  <1>2. TypeOK
    BY DEF LoopInv
  <1>3. /\ outcome' \in {"ready", "scoped", "insufficient"}
        /\ outcome' = "ready" => Ready(status, stale)
        /\ outcome' = "scoped" =>
              \E n \in Needs \ stale : status[n] \in {"partial", "sufficient"}
    BY DEF Gate
  <1>4. TypeOK'
    BY <1>1, <1>2, <1>3, ReleaseOK DEF TypeOK, Pc, Outcome
  <1>5. HistoryOK(evidence, loop.history)' /\ HistoryOK(evidence, saved.history)'
    BY <1>1 DEF LoopInv
  <1>6. CopyOK' /\ StalledOK' /\ TurnOK' /\ SeenOK'
    BY <1>1, <1>3, ReleaseOK DEF CopyOK, StalledOK, TurnOK, SeenOK, InLoop
  <1>7. CountOK'
    BY <1>1 DEF LoopInv, CountOK
  <1>8. ConclusionOK'
    <2>1. \A n \in Needs \ stale : status[n] = evidence[n]
      BY <1>1 DEF LoopInv, SeenOK
    <2>2. outcome' = "ready" => \A n \in Needs : evidence[n] = "sufficient"
      BY <1>3, <2>1 DEF Ready
    <2>3. outcome' = "scoped" => \E n \in Needs : evidence[n] \in {"partial", "sufficient"}
      BY <1>3, <2>1
    <2>4. ReasonOK /\ InRound' = InRound
      BY <1>1 DEF LoopInv, ConclusionOK, InRound
    <2> QED
      BY <1>1, <2>2, <2>3, <2>4 DEF ConclusionOK, ReasonOK
  <1> QED
    BY <1>4, <1>5, <1>6, <1>7, <1>8 DEF LoopInv

LEMMA LeaveStep == LoopInv /\ (Crash \/ Fail) => LoopInv'
  <1> SUFFICES ASSUME LoopInv, Crash \/ Fail PROVE LoopInv'
    OBVIOUS
  <1>1. /\ pc # "ended" /\ loop' = Blank /\ Release
        /\ UNCHANGED <<evidence, saved, checkpointed, searches>>
        /\ \/ pc' = "idle" /\ pc # "idle" /\ outcome' = outcome
              /\ crashes' = crashes + 1 /\ crashes < MaxCrashes
           \/ pc' = "ended" /\ outcome' = "failed" /\ crashes' = crashes
           \/ pc' = "ended" /\ outcome' = "failed" /\ crashes' = crashes + 1
              /\ crashes < MaxCrashes
    BY DEF Crash, Fail
  <1>2. TypeOK /\ saved \in LoopState /\ crashes \in Nat /\ crashes' \in Nat
    BY <1>1, BoundsAssumption DEF LoopInv, TypeOK
  <1>3. Blank \in LoopState /\ Blank.reason = "none" /\ Blank.pending = NoNeed
    BY BoundsAssumption DEF Blank, LoopState, Reasons
  <1>4. TypeOK'
    BY <1>1, <1>2, <1>3, ReleaseOK, BoundsAssumption DEF TypeOK, Pc, Outcome
  <1>5. HistoryOK(evidence, loop.history)' /\ HistoryOK(evidence, saved.history)'
    BY <1>1, BlankOK DEF LoopInv
  <1>6. CopyOK' /\ StalledOK' /\ TurnOK' /\ SeenOK'
    BY <1>1, <1>2, <1>3, ReleaseOK, BlankOK
       DEF LoopInv, CopyOK, StalledOK, TurnOK, SeenOK, InLoop
  <1>7. CountOK'
    <2> SUFFICES ASSUME NEW n \in Needs
                 PROVE  /\ searches[n] <= MaxAttempts + crashes'
                        /\ pc' = "idle" =>
                              searches[n] <= Attempts(saved.history, n) + crashes' + 0
      BY <1>1 DEF CountOK
    <2>1. Attempts(saved.history, n) \in Nat /\ searches[n] \in Nat /\ MaxAttempts \in Nat
      BY <1>2, CountTypes
    <2>2. /\ searches[n] <= MaxAttempts + crashes
          /\ searches[n] <= Attempts(saved.history, n) + crashes + 1
      BY <2>1, <1>1, <1>2 DEF LoopInv, CountOK
    <2> QED
      BY <2>1, <2>2, <1>1, <1>2
  <1>8. ConclusionOK'
    BY <1>1, <1>3 DEF LoopInv, ConclusionOK, ReasonOK, CopyOK
  <1> QED
    BY <1>4, <1>5, <1>6, <1>7, <1>8 DEF LoopInv

LEMMA StutterStep == LoopInv /\ UNCHANGED vars => LoopInv'
  BY DEF vars, memory, LoopInv, TypeOK, HistoryOK, Untried, CopyOK, StalledOK, TurnOK,
         SeenOK, CountOK, ConclusionOK, ReasonOK, InRound

LEMMA NextInv == LoopInv /\ [Next]_vars => LoopInv'
  BY AssessOnlyStep, AssessAndLoopStep, BeginRoundStep, StopsStep, EndRoundStep,
     SelectGapStep, SearchStep, RecordSearchStep, RecordAndStopStep, GateStep, LeaveStep,
     StutterStep
     DEF Next, Step
--------------------------------------------------------------------------------
(***************************************************************************)
(* The theorems.                                                           *)
(***************************************************************************)
\* The inductive invariant of the readiness task.
THEOREM InvHolds == Spec => []LoopInv
  BY InitInv, NextInv, PTL DEF Spec

\* Types.
THEOREM TypeCorrect == Spec => []TypeOK
  <1>1. LoopInv => TypeOK
    BY DEF LoopInv
  <1> QED
    BY <1>1, InvHolds, PTL

\* ResearchLoopService.run_bounded_loop: paid searches stay bounded and in turn,
\* whatever crashes between a search and its checkpoint.
THEOREM FairTurns == Spec => []TurnsAreFair
  <1>1. LoopInv => TurnsAreFair
    <2> SUFFICES ASSUME LoopInv PROVE TurnsAreFair
      OBVIOUS
    <2>1. SearchesBounded
      BY DEF LoopInv, HistoryOK, CountOK, SearchesBounded
    <2>2. StalledGapWaits
      BY DEF LoopInv, HistoryOK, StalledGapWaits
    <2>3. UntriedGapComesFirst
      BY DEF LoopInv, HistoryOK, Untried, UntriedGapComesFirst
    <2> QED
      BY <2>1, <2>2, <2>3 DEF TurnsAreFair
  <1> QED
    BY <1>1, InvHolds, PTL

\* ResearchReadinessService.assess_and_apply: the outcome of the task is what the
\* stored evidence shows, and its reason is the true one.
THEOREM TrueOutcome == Spec => []OutcomeIsTrue
  <1>1. LoopInv => OutcomeIsTrue
    BY DEF LoopInv, CopyOK, ConclusionOK, ReasonOK, OutcomeIsTrue
  <1> QED
    BY <1>1, InvHolds, PTL
===============================================================================
