------------------------- MODULE ResearchKernel_proofs -------------------------
(***************************************************************************)
(* Theorems about ResearchKernel, for any executions, actions, costs and   *)
(* limits: type correctness, what a checkpoint may change, the inductive   *)
(* invariant KernelInv with one lemma per group of steps, the safety       *)
(* properties that follow from it, and the refinement of ResearchAccount.  *)
(***************************************************************************)
EXTENDS ResearchKernel, FiniteSetTheorems, TLAPS

\* Where an execution is, or will be once its checkpoint is durable.
At(e) == IF pc[e] = "save" THEN then[e] ELSE pc[e]

Working == {"authorize", "method", "call", "unsure"}

\* TypeOK, with the action at hand during a checkpoint as well.
TypeInv == TypeOK /\ \A e \in Executions : At(e) \in Working => mem[e].pending \in Actions

\* What the types say of one execution.
ExecutionOK(e) ==
    /\ pc[e] \in Place
    /\ mem[e] \in KernelState
    /\ then[e] \in AfterSave
    /\ count[e] \in Nat
    /\ ambiguous[e] \in BOOLEAN
    /\ At(e) \in Working => mem[e].pending \in Actions

\* The kernel states that the steps write are well-formed.
LEMMA AbsentIsState == Absent \in KernelState /\ Pristine \in KernelState
  BY DEF Absent, Pristine, KernelState, Stop, StopReason

\* The types of the fields of a kernel state.
LEMMA StateFields ==
    ASSUME NEW k \in KernelState
    PROVE  /\ k.revision \in Nat \cup {-1}
           /\ k.used \in Nat
           /\ k.reserved \in Nat
           /\ k.pending \in Actions \cup {NoAction}
           /\ k.completed \subseteq Actions
           /\ k.terminal \in Stop \cup {"none"}
  BY DEF KernelState

\* The updates of the controller yield kernel states.
LEMMA StateUpdates ==
    ASSUME NEW k \in KernelState
    PROVE  /\ [k EXCEPT !.revision = @ + 1] \in KernelState
           /\ \A s \in Stop : [k EXCEPT !.terminal = s] \in KernelState
           /\ \A a \in Actions, n \in Nat :
                 [k EXCEPT !.pending = a, !.reserved = n] \in KernelState
           /\ \A n \in Nat : [k EXCEPT !.reserved = n] \in KernelState
           /\ k.pending \in Actions => Consumed(k) \in KernelState
<1>1. [k EXCEPT !.revision = @ + 1] \in KernelState
  BY DEF KernelState
<1>2. ASSUME NEW s \in Stop PROVE [k EXCEPT !.terminal = s] \in KernelState
  BY DEF KernelState
<1>3. ASSUME NEW a \in Actions, NEW n \in Nat
      PROVE  [k EXCEPT !.pending = a, !.reserved = n] \in KernelState
  BY DEF KernelState
<1>4. ASSUME NEW n \in Nat PROVE [k EXCEPT !.reserved = n] \in KernelState
  BY DEF KernelState
<1>5. ASSUME k.pending \in Actions PROVE Consumed(k) \in KernelState
  <2>1. k.used + k.reserved \in Nat /\ k.completed \cup {k.pending} \subseteq Actions
    BY <1>5 DEF KernelState
  <2>2. \A u \in Nat, c \in SUBSET Actions :
           [k EXCEPT !.used = u, !.reserved = 0, !.pending = NoAction, !.completed = c]
              \in KernelState
    BY DEF KernelState
  <2> QED
    BY <2>1, <2>2 DEF Consumed
<1> QED
  BY <1>1, <1>2, <1>3, <1>4, <1>5

\* The type invariant, execution by execution.
LEMMA TypeOfAll == TypeInv => \A e \in Executions : ExecutionOK(e)
  BY DEF TypeInv, TypeOK, ExecutionOK

-------------------------------------------------------------------------------

\* A step of one execution is well-typed if what it writes is.
LEMMA OneExecution ==
    ASSUME TypeInv, NEW e \in Executions,
           \A f \in Executions \ {e} :
              /\ pc'[f] = pc[f] /\ mem'[f] = mem[f] /\ then'[f] = then[f]
              /\ count'[f] = count[f] /\ ambiguous'[f] = ambiguous[f],
           ExecutionOK(e)',
           pc' \in [Executions -> Place], mem' \in [Executions -> KernelState],
           then' \in [Executions -> AfterSave], count' \in [Executions -> Nat],
           ambiguous' \in [Executions -> BOOLEAN],
           UNCHANGED rowVars, ledger' \in KernelState,
           token' \in Executions \cup {NoExecution}, dispatch' \in Actions \cup {NoAction},
           UNCHANGED late, spent' \in Nat, dispatches' \in [Actions -> Nat], faults' \in Nat
    PROVE  TypeInv'
<1>1. \A f \in Executions : (At(f) \in Working => mem[f].pending \in Actions)'
  BY DEF TypeInv, ExecutionOK, At
<1>2. \A f \in Executions : (pc[f] \in {"method", "call", "unsure", "authorize"} => mem[f].pending \in Actions)'
  BY <1>1 DEF At, Working
<1> QED
  BY <1>1, <1>2 DEF TypeInv, TypeOK, rowVars

\* The start of a checkpoint.
LEMMA SavingType ==
    ASSUME TypeInv, NEW e \in Executions, NEW k \in KernelState, NEW place \in AfterSave,
           place \in Working => k.pending \in Actions,
           Saving(e, k, place), UNCHANGED <<rowVars, storeVars, late, faults, dispatches>>,
           spent' \in Nat, count' \in [Executions -> Nat], ambiguous' \in [Executions -> BOOLEAN],
           \A f \in Executions \ {e} : count'[f] = count[f] /\ ambiguous'[f] = ambiguous[f]
    PROVE  TypeInv'
<1>1. /\ mem' = [mem EXCEPT ![e] = [k EXCEPT !.revision = @ + 1]]
      /\ then' = [then EXCEPT ![e] = place]
      /\ pc' = [pc EXCEPT ![e] = "save"]
  BY DEF Saving, Goto
<1>2. [k EXCEPT !.revision = @ + 1] \in KernelState
  BY StateUpdates
<1>3. [k EXCEPT !.revision = @ + 1].pending = k.pending
  BY DEF KernelState
<1>4. ExecutionOK(e)'
  BY <1>1, <1>2, <1>3 DEF ExecutionOK, At, Place, TypeInv, TypeOK
<1> QED
  BY <1>1, <1>2, <1>4, OneExecution DEF TypeInv, TypeOK, storeVars, Place

\* The end of an execution.
LEMMA EndType ==
    ASSUME TypeInv, NEW e \in Executions, NEW place \in Final,
           End(e, place), UNCHANGED <<rowVars, token, late, spent>>,
           ledger' \in KernelState, dispatch' \in Actions \cup {NoAction},
           dispatches' \in [Actions -> Nat], faults' \in Nat
    PROVE  TypeInv'
<1>1. ExecutionOK(e)'
  BY AbsentIsState DEF End, Goto, ExecutionOK, At, Place, Final, AfterSave, Working, TypeInv, TypeOK
<1> QED
  BY <1>1, OneExecution, AbsentIsState
     DEF End, Goto, TypeInv, TypeOK, Place, AfterSave, Final

\* The initial state is well-typed.
LEMMA InitType == Init => TypeInv
<1> SUFFICES ASSUME Init PROVE TypeInv
  OBVIOUS
<1>1. TypeOK
  BY AbsentIsState DEF Init, TypeOK, Place, AfterSave
<1>2. \A e \in Executions : At(e) \notin Working
  BY DEF Init, At, Working
<1> QED
  BY <1>1, <1>2 DEF TypeInv

\* The steps of the decision loop are well-typed.
LEMMA LoopType ==
    ASSUME TypeInv, NEW e \in Executions,
           \/ Ready(e) \/ DeadlineStop(e) \/ NothingToDo(e) \/ StopExhausted(e)
           \/ \E a \in Actions : Reserve(e, a)
    PROVE  TypeInv'
<1>0. mem[e] \in KernelState /\ count \in [Executions -> Nat] /\ ambiguous \in [Executions -> BOOLEAN]
      /\ spent \in Nat
  BY DEF TypeInv, TypeOK
<1>1. ASSUME NEW stop \in Stop, StopWith(e, mem[e], stop),
             UNCHANGED <<rowVars, storeVars, count, ambiguous, late, spent, dispatches, faults>>
      PROVE  TypeInv'
  <2>1. [mem[e] EXCEPT !.terminal = stop] \in KernelState
    BY <1>0, StateUpdates
  <2>2. "returned" \in AfterSave /\ "returned" \notin Working
    BY DEF AfterSave, Working
  <2> QED
    BY <1>0, <1>1, <2>1, <2>2, SavingType DEF StopWith
<1>2. CASE Ready(e)
  BY <1>1, <1>2 DEF Ready, Stop
<1>3. CASE DeadlineStop(e)
  BY <1>1, <1>3 DEF DeadlineStop, Stop
<1>4. CASE NothingToDo(e)
  BY <1>1, <1>4 DEF NothingToDo, Stop
<1>5. CASE StopExhausted(e)
  BY <1>1, <1>5 DEF StopExhausted, Stop
<1>6. ASSUME NEW a \in Actions, Reserve(e, a) PROVE TypeInv'
  <2> DEFINE k == [mem[e] EXCEPT !.pending = a, !.reserved = Cost[a]]
  <2>1. k \in KernelState
    BY <1>0, StateUpdates, LimitsAssumption
  <2>2. k.pending \in Actions
    BY <1>0 DEF KernelState
  <2>3. "authorize" \in AfterSave
    BY DEF AfterSave
  <2>4. Saving(e, k, "authorize") /\ UNCHANGED <<rowVars, storeVars, count, ambiguous, late, spent, dispatches, faults>>
    BY <1>6 DEF Reserve
  <2> HIDE DEF k
  <2> QED
    BY <1>0, <2>1, <2>2, <2>3, <2>4, SavingType
<1> QED
  BY <1>2, <1>3, <1>4, <1>5, <1>6

\* The steps of the method are well-typed.
LEMMA MethodType ==
    ASSUME TypeInv, NEW e \in Executions, Method(e)
    PROVE  TypeInv'
<1>0. /\ mem[e] \in KernelState /\ count \in [Executions -> Nat]
      /\ ambiguous \in [Executions -> BOOLEAN] /\ spent \in Nat
      /\ pc[e] \in {"method", "call", "unsure"} => mem[e].pending \in Actions
  BY DEF TypeInv, TypeOK
<1>1. {"call", "method", "unsure", "observe", "exhausted", "returned"} \subseteq AfterSave
      /\ {"observe", "exhausted", "returned"} \cap Working = {}
  BY DEF AfterSave, Working
<1>2. LeaveMethod(e) =>
        /\ count' \in [Executions -> Nat] /\ ambiguous' \in [Executions -> BOOLEAN]
        /\ \A f \in Executions \ {e} : count'[f] = count[f] /\ ambiguous'[f] = ambiguous[f]
  BY <1>0 DEF LeaveMethod
<1>3. CASE BeginAttempt(e)
  <2> DEFINE k == IF count[e] = 0 THEN mem[e]
                  ELSE [mem[e] EXCEPT !.reserved = @ + Cost[mem[e].pending]]
  <2>1. mem[e].pending \in Actions
    BY <1>0, <1>3 DEF BeginAttempt
  <2>2. mem[e].reserved + Cost[mem[e].pending] \in Nat
    BY <1>0, <2>1, LimitsAssumption, StateFields
  <2>3. k \in KernelState
    BY <1>0, <2>2, StateUpdates
  <2>4. k.pending \in Actions
    BY <1>0, <2>1 DEF KernelState
  <2>5. /\ Saving(e, k, "call") /\ count' = [count EXCEPT ![e] = @ + 1]
        /\ UNCHANGED <<rowVars, storeVars, ambiguous, late, spent, dispatches, faults>>
    BY <1>3 DEF BeginAttempt
  <2> HIDE DEF k
  <2> QED
    BY <1>0, <1>1, <2>3, <2>4, <2>5, SavingType
<1>4. CASE Call(e)
  <2>1. mem[e].pending \in Actions
    BY <1>0, <1>4 DEF Call
  <2>2. spent' \in Nat
    BY <1>0, <1>4, <2>1, LimitsAssumption DEF Call
  <2> QED
    BY <1>0, <1>1, <1>4, <2>1, <2>2, SavingType DEF Call
<1>5. CASE MarkAmbiguous(e)
  <2>1. mem[e].pending \in Actions
    BY <1>0, <1>5 DEF MarkAmbiguous
  <2>2. ambiguous' \in [Executions -> BOOLEAN]
        /\ \A f \in Executions \ {e} : ambiguous'[f] = ambiguous[f]
    BY <1>0, <1>5 DEF MarkAmbiguous
  <2> QED
    BY <1>0, <1>1, <1>5, <2>1, <2>2, SavingType DEF MarkAmbiguous
<1>6. CASE MethodReturns(e)
  <2>1. mem[e].pending \in Actions
    BY <1>0, <1>6 DEF MethodReturns
  <2>2. Consumed(mem[e]) \in KernelState
    BY <1>0, <2>1, StateUpdates
  <2> QED
    BY <1>0, <1>1, <1>2, <1>6, <2>2, SavingType DEF MethodReturns
<1>7. CASE MethodExhausted(e)
  <2>1. mem[e].pending \in Actions
    BY <1>0, <1>7 DEF MethodExhausted
  <2>2. Consumed(mem[e]) \in KernelState
    BY <1>0, <2>1, StateUpdates
  <2> QED
    BY <1>0, <1>1, <1>2, <1>7, <2>2, SavingType DEF MethodExhausted
<1>8. CASE MethodRaises(e)
  <2>1. [mem[e] EXCEPT !.terminal = "reconciliation_required"] \in KernelState
    BY <1>0, StateUpdates DEF Stop
  <2> QED
    BY <1>0, <1>1, <1>2, <1>8, <2>1, SavingType DEF MethodRaises, StopWith
<1> QED
  BY <1>3, <1>4, <1>5, <1>6, <1>7, <1>8 DEF Method

\* So are loading, authorizing, and the outcomes of a checkpoint.
LEMMA StoreType ==
    ASSUME TypeInv, NEW e \in Executions,
           \/ Acquire(e) \/ Load(e) \/ Authorize(e)
           \/ SaveCommits(e) \/ SaveRefused(e) \/ SaveFails(e)
    PROVE  TypeInv'
<1>0. /\ mem[e] \in KernelState /\ ledger \in KernelState /\ then[e] \in AfterSave /\ faults \in Nat
      /\ spent \in Nat /\ count \in [Executions -> Nat] /\ ambiguous \in [Executions -> BOOLEAN]
      /\ dispatches \in [Actions -> Nat] /\ dispatch \in Actions \cup {NoAction}
  BY DEF TypeInv, TypeOK
<1>1. AfterSave \subseteq Place /\ {"acquired", "method"} \cup Final \subseteq Place
  BY DEF AfterSave, Place, Final
<1>2. CASE Acquire(e)
  <2>1. ExecutionOK(e)'
    BY <1>2 DEF Acquire, Goto, ExecutionOK, At, Place, Working, TypeInv, TypeOK
  <2> QED
    BY <1>1, <1>2, <2>1, OneExecution DEF Acquire, Goto, TypeInv, TypeOK
<1>3. CASE Load(e)
  <2>1. CASE End(e, "ended")
    BY <1>0, <1>3, <2>1, EndType DEF Load, Final, storeVars
  <2>2. CASE Saving(e, Absent, "observe") /\ UNCHANGED <<count, ambiguous>>
    BY <1>0, <1>3, <2>2, AbsentIsState, SavingType DEF Load, AfterSave, Working
  <2>3. CASE /\ Saving(e, [ledger EXCEPT !.terminal = "reconciliation_required"], "returned")
             /\ UNCHANGED <<count, ambiguous>>
    <3>1. [ledger EXCEPT !.terminal = "reconciliation_required"] \in KernelState
      BY <1>0, StateUpdates DEF Stop
    <3> QED
      BY <1>0, <1>3, <2>3, <3>1, SavingType DEF Load, AfterSave, Working
  <2>4. ASSUME NEW place \in {"returned", "observe"},
               mem' = [mem EXCEPT ![e] = ledger], Goto(e, place), UNCHANGED <<then, count, ambiguous>>
        PROVE  TypeInv'
    <3>1. ExecutionOK(e)'
      BY <1>0, <2>4 DEF Goto, ExecutionOK, At, Place, Working, AfterSave, TypeInv, TypeOK
    <3> QED
      BY <1>0, <1>1, <1>3, <2>4, <3>1, OneExecution DEF Load, Goto, TypeInv, TypeOK, storeVars, AfterSave
  <2> QED
    BY <1>3, <2>1, <2>2, <2>3, <2>4 DEF Load
<1>4. CASE Authorize(e)
  <2>1. pc[e] = "authorize" /\ mem[e].pending \in Actions
    BY <1>4 DEF Authorize, TypeInv, TypeOK
  <2>2. CASE End(e, "ended") /\ UNCHANGED <<dispatch, dispatches>>
    BY <1>0, <1>4, <2>2, EndType DEF Authorize, Final
  <2>3. CASE /\ dispatch' = mem[e].pending
             /\ dispatches' = [dispatches EXCEPT ![mem[e].pending] = @ + 1]
             /\ Goto(e, "method")
             /\ UNCHANGED <<mem, then, count, ambiguous>>
    <3>1. ExecutionOK(e)'
      BY <1>4, <2>1, <2>3 DEF Goto, ExecutionOK, At, Place, Working, TypeInv, TypeOK
    <3>2. dispatches' \in [Actions -> Nat]
      BY <1>0, <2>1, <2>3
    <3> QED
      BY <1>0, <1>1, <1>4, <2>1, <2>3, <3>1, <3>2, OneExecution DEF Authorize, Goto, TypeInv, TypeOK
  <2> QED
    BY <1>4, <2>2, <2>3 DEF Authorize
<1>5. CASE SaveCommits(e)
  <2>1. ExecutionOK(e)'
    BY <1>0, <1>1, <1>5 DEF SaveCommits, Goto, ExecutionOK, At, AfterSave, TypeInv, TypeOK
  <2> QED
    BY <1>0, <1>1, <1>5, <2>1, OneExecution DEF SaveCommits, Goto, TypeInv, TypeOK, AfterSave
<1>6. ASSUME pc[e] = "save", SaveRaises(e), UNCHANGED <<rowVars, token, dispatch, late, spent, dispatches>>,
             ledger' \in KernelState, faults' \in Nat
      PROVE  TypeInv'
  <2>1. CASE then[e] \in {"call", "unsure", "method"}
    <3>1. ExecutionOK(e)'
      BY <1>0, <1>6, <2>1 DEF SaveRaises, Goto, ExecutionOK, At, Working, Place, AfterSave, TypeInv, TypeOK
    <3> QED
      BY <1>0, <1>1, <1>6, <2>1, <3>1, OneExecution DEF SaveRaises, Goto, TypeInv, TypeOK, AfterSave
  <2>2. CASE then[e] \notin {"call", "unsure", "method"}
    BY <1>0, <1>6, <2>2, EndType DEF SaveRaises, Final
  <2> QED
    BY <2>1, <2>2
<1>7. CASE SaveRefused(e)
  BY <1>0, <1>6, <1>7 DEF SaveRefused, storeVars
<1>8. CASE SaveFails(e)
  BY <1>0, <1>6, <1>8 DEF SaveFails
<1> QED
  BY <1>2, <1>3, <1>4, <1>5, <1>7, <1>8

\* Every step is well-typed.
LEMMA NextType == TypeInv /\ [Next]_vars => TypeInv'
<1> SUFFICES ASSUME TypeInv, [Next]_vars PROVE TypeInv'
  OBVIOUS
<1>0. /\ spent \in Nat /\ faults \in Nat /\ ledger \in KernelState
      /\ dispatches \in [Actions -> Nat] /\ dispatch \in Actions \cup {NoAction}
  BY DEF TypeInv, TypeOK
<1>1. ASSUME NEW e \in Executions, Finish(e) PROVE TypeInv'
  BY <1>0, <1>1, EndType DEF Finish, Final, storeVars
<1>2. ASSUME NEW e \in Executions, Crash(e) PROVE TypeInv'
  <2>1. dispatch' \in Actions \cup {NoAction} /\ dispatches' \in [Actions -> Nat]
    BY <1>0, <1>2 DEF Crash, Authorizes, TypeInv, TypeOK
  <2>2. faults' \in Nat /\ End(e, "ended") /\ UNCHANGED <<rowVars, ledger, token, late, spent>>
    BY <1>0, <1>2 DEF Crash
  <2> QED
    BY <1>0, <2>1, <2>2, EndType DEF Final
<1>3. CASE Environment
  BY <1>3 DEF Environment, LeaseMoves, RunCloses, DeadlinePasses, TypeInv, TypeOK, At, rowVars, storeVars, executionVars
<1>4. CASE UNCHANGED vars
  BY <1>4 DEF vars, TypeInv, TypeOK, At, rowVars, storeVars, executionVars
<1> QED
  BY <1>1, <1>2, <1>3, <1>4, LoopType, MethodType, StoreType DEF Next, Step

\* THEOREM.  The state of the kernel is well-typed.
THEOREM TypeCorrect == Spec => []TypeOK
<1>1. TypeInv => TypeOK
  BY DEF TypeInv
<1> QED
  BY <1>1, InitType, NextType, PTL DEF Spec

-------------------------------------------------------------------------------
(* What a checkpoint may change. *)

Charge(k) == k.used + k.reserved

\* What the controller does to a state between two checkpoints, of which the
\* second takes it to place.
Change(old, k, place) ==
    /\ old.terminal = "none"
    /\ \/ place = "observe" /\ old = Absent /\ k = Absent
       \/ /\ place \in {"observe", "exhausted"}
          /\ old.pending \in Actions
          /\ k = Consumed(old)
       \/ /\ place = "authorize"
          /\ old.pending = NoAction
          /\ \E a \in Unattempted(old) :
                Fits(old, a) /\ k = [old EXCEPT !.pending = a, !.reserved = Cost[a]]
       \/ /\ place = "call"
          /\ old.pending \in Actions
          /\ \/ k = old
             \/ /\ Cost[old.pending] <= Remaining(old)
                /\ k = [old EXCEPT !.reserved = @ + Cost[old.pending]]
       \/ place \in {"unsure", "method"} /\ old.pending \in Actions /\ k = old
       \/ /\ place = "returned"
          /\ \E stop \in Stop :
                /\ k = [old EXCEPT !.terminal = stop]
                /\ old.pending # NoAction => stop = "reconciliation_required"

\* The checkpoint m follows the checkpoint old.
Checkpoint(old, m, place) ==
    \E k \in KernelState : Change(old, k, place) /\ m = [k EXCEPT !.revision = @ + 1]

\* The fields after each of the updates.
LEMMA ConsumedFields ==
    ASSUME NEW k \in KernelState
    PROVE  /\ Consumed(k).revision = k.revision
           /\ Consumed(k).used = k.used + k.reserved
           /\ Consumed(k).reserved = 0
           /\ Consumed(k).pending = NoAction
           /\ Consumed(k).completed = k.completed \cup {k.pending}
           /\ Consumed(k).terminal = k.terminal
  BY DEF KernelState, Consumed

\* A further attempt touches the reservation only.
LEMMA ExtendedFields ==
    ASSUME NEW k \in KernelState, NEW n, NEW m, m = [k EXCEPT !.reserved = n]
    PROVE  /\ m.revision = k.revision
           /\ m.used = k.used
           /\ m.reserved = n
           /\ m.pending = k.pending
           /\ m.completed = k.completed
           /\ m.terminal = k.terminal
  BY DEF KernelState

\* A stop touches the terminal field only.
LEMMA StoppedFields ==
    ASSUME NEW k \in KernelState, NEW s, NEW m, m = [k EXCEPT !.terminal = s]
    PROVE  /\ m.revision = k.revision
           /\ m.used = k.used
           /\ m.reserved = k.reserved
           /\ m.pending = k.pending
           /\ m.completed = k.completed
           /\ m.terminal = s
  BY DEF KernelState

\* A checkpoint has the next revision and changes nothing else.
LEMMA NextFields ==
    ASSUME NEW k \in KernelState, NEW m, m = [k EXCEPT !.revision = @ + 1]
    PROVE  /\ m.revision = k.revision + 1
           /\ m.used = k.used
           /\ m.reserved = k.reserved
           /\ m.pending = k.pending
           /\ m.completed = k.completed
           /\ m.terminal = k.terminal
  BY DEF KernelState

\* The fields of the absent payload.
LEMMA AbsentFields ==
    /\ Absent.revision = -1 /\ Absent.used = 0 /\ Absent.reserved = 0
    /\ Absent.pending = NoAction /\ Absent.completed = {} /\ Absent.terminal = "none"
  BY DEF Absent

\* What a change does to the fields, by the place it leads to.
LEMMA ChangeFields ==
    ASSUME NEW old \in KernelState, NEW k \in KernelState, NEW place \in AfterSave,
           Change(old, k, place)
    PROVE  /\ old.terminal = "none"
           /\ k.revision = old.revision
           /\ place # "returned" => k.terminal = "none"
           /\ place = "returned" => k.terminal \in Stop
           /\ place \in {"method", "call", "unsure", "returned"} =>
                 k.pending = old.pending /\ k.completed = old.completed /\ k.used = old.used
           /\ place \in {"method", "unsure", "returned"} => k.reserved = old.reserved
           /\ place = "call" =>
                 \/ k.reserved = old.reserved
                 \/ /\ k.reserved = old.reserved + Cost[old.pending]
                    /\ Cost[old.pending] <= Remaining(old)
           /\ place = "authorize" =>
                 /\ old.pending = NoAction
                 /\ k.pending \in Unattempted(old)
                 /\ Fits(old, k.pending)
                 /\ k.reserved = Cost[k.pending]
                 /\ k.used = old.used
                 /\ k.completed = old.completed
           /\ place \in {"observe", "exhausted"} =>
                 /\ k.pending = NoAction
                 /\ k.reserved = 0
                 /\ \/ old = Absent /\ k = Absent
                    \/ /\ old.pending \in Actions
                       /\ k.used = old.used + old.reserved
                       /\ k.completed = old.completed \cup {old.pending}
           /\ place = "returned" /\ old.pending # NoAction => k.terminal = "reconciliation_required"
<1>1. CASE place \in {"observe", "exhausted"}
  <2>1. CASE old = Absent /\ k = Absent
    BY <1>1, <2>1, AbsentFields DEF Change
  <2>2. CASE old.pending \in Actions /\ k = Consumed(old)
    BY <1>1, <2>2, ConsumedFields DEF Change
  <2> QED
    BY <1>1, <2>1, <2>2 DEF Change
<1>2. CASE place = "authorize"
  <2>1. PICK a \in Unattempted(old) :
           Fits(old, a) /\ k = [old EXCEPT !.pending = a, !.reserved = Cost[a]]
    BY <1>2 DEF Change
  <2>2. old.pending = NoAction /\ old.terminal = "none"
    BY <1>2 DEF Change
  <2>3. /\ k.revision = old.revision /\ k.used = old.used /\ k.reserved = Cost[a] /\ k.pending = a
        /\ k.completed = old.completed /\ k.terminal = old.terminal
    BY <2>1 DEF KernelState
  <2> QED
    BY <1>2, <2>1, <2>2, <2>3
<1>3. CASE place = "call"
  <2>1. CASE k = old
    BY <1>3, <2>1 DEF Change
  <2>2. CASE /\ Cost[old.pending] <= Remaining(old)
             /\ k = [old EXCEPT !.reserved = @ + Cost[old.pending]]
    BY <1>3, <2>2, ExtendedFields DEF Change
  <2> QED
    BY <1>3, <2>1, <2>2 DEF Change
<1>4. CASE place \in {"unsure", "method"}
  BY <1>4 DEF Change
<1>5. CASE place = "returned"
  <2>1. PICK stop \in Stop :
           /\ k = [old EXCEPT !.terminal = stop]
           /\ old.pending # NoAction => stop = "reconciliation_required"
    BY <1>5 DEF Change
  <2> QED
    BY <1>5, <2>1, StoppedFields DEF Change
<1> QED
  BY <1>1, <1>2, <1>3, <1>4, <1>5 DEF AfterSave

\* A change of a valid state is valid, whatever the action and its retries
\* cost: the validations of the checkpoint never refuse the controller.
LEMMA ChangeValid ==
    ASSUME NEW old \in KernelState, NEW k \in KernelState, NEW place \in AfterSave,
           NEW m \in KernelState, m = [k EXCEPT !.revision = @ + 1],
           Change(old, k, place), ValidState(old), IsFiniteSet(old.completed)
    PROVE  /\ ValidTransition(old, m)
           /\ IsFiniteSet(m.completed)
           /\ Charge(old) <= Charge(m)
<1>0. /\ m.used = k.used /\ m.reserved = k.reserved /\ m.pending = k.pending
      /\ m.completed = k.completed /\ m.terminal = k.terminal
  BY NextFields
<1>1. /\ old.used \in Nat /\ old.reserved \in Nat /\ k.used \in Nat /\ k.reserved \in Nat
      /\ old.completed \subseteq Actions /\ old.pending \in Actions \cup {NoAction}
  BY StateFields
<1>2. Units \in Nat /\ Decisions \in Nat /\ NoAction \notin Actions /\ \A a \in Actions : Cost[a] \in Nat
  BY LimitsAssumption, ActionsAssumption
<1>3. Cardinality(old.completed) \in Nat
  BY FS_CardinalityType
<1>4. /\ 0 <= Remaining(old)
      /\ DecisionsUsed(old) <= Decisions
      /\ old.pending = NoAction => old.reserved = 0
      /\ old.pending \notin old.completed
      /\ old.terminal = "none"
  BY ChangeFields DEF ValidState
<1> DEFINE Goal == /\ 0 <= Remaining(m)
                   /\ DecisionsUsed(m) <= Decisions
                   /\ m.pending = NoAction => m.reserved = 0
                   /\ m.pending \notin m.completed
                   /\ m.pending # NoAction =>
                        m.terminal \in {"none", "reconciliation_required", "failed_technical", "stopped_safety"}
                   /\ old.completed \subseteq m.completed
                   /\ old.used <= m.used
                   /\ Remaining(m) <= Remaining(old)
                   /\ old.pending # NoAction /\ old.pending \notin m.completed =>
                        m.pending = old.pending /\ old.reserved <= m.reserved
                   /\ IsFiniteSet(m.completed)
<1>5. ASSUME place \in {"method", "unsure", "returned", "call"} PROVE Goal
  <2>1. /\ m.pending = old.pending /\ m.completed = old.completed /\ m.used = old.used
        /\ place = "returned" /\ old.pending # NoAction => m.terminal = "reconciliation_required"
        /\ place # "returned" => m.terminal = "none"
    BY <1>0, <1>5, ChangeFields
  <2>2. DecisionsUsed(m) = DecisionsUsed(old)
    BY <2>1 DEF DecisionsUsed
  <2>3. CASE m.reserved = old.reserved
    BY <1>1, <1>2, <1>4, <1>5, <2>1, <2>2, <2>3 DEF Remaining
  <2>4. CASE place = "call" /\ m.reserved = old.reserved + Cost[old.pending] /\ Cost[old.pending] <= Remaining(old)
    <3>1. old.pending \in Actions
      BY <2>4 DEF Change
    <3>2. Cost[old.pending] \in Nat
      BY <1>2, <3>1
    <3> QED
      BY <1>1, <1>2, <1>4, <1>5, <2>1, <2>2, <2>4, <3>1, <3>2 DEF Remaining
  <2> QED
    BY <1>0, <1>5, <2>3, <2>4, ChangeFields
<1>6. ASSUME place = "authorize" PROVE Goal
  <2>1. /\ old.pending = NoAction /\ m.pending \in Actions \ old.completed
        /\ Cost[m.pending] <= Remaining(old) /\ DecisionsUsed(old) < Decisions
        /\ m.reserved = Cost[m.pending] /\ m.used = old.used /\ m.completed = old.completed
        /\ m.terminal = "none"
    BY <1>0, <1>6, ChangeFields DEF Unattempted, Fits
  <2>2. DecisionsUsed(old) = Cardinality(old.completed) /\ DecisionsUsed(m) = Cardinality(old.completed) + 1
    BY <1>2, <1>3, <2>1 DEF DecisionsUsed
  <2>3. Cost[m.pending] \in Nat /\ m.pending # NoAction
    BY <1>2, <2>1
  <2>4. 0 <= Remaining(m) /\ Remaining(m) <= Remaining(old) /\ old.used <= m.used
    BY <1>1, <1>2, <1>4, <2>1, <2>3 DEF Remaining
  <2>5. DecisionsUsed(m) <= Decisions
    BY <1>2, <1>3, <2>1, <2>2
  <2> QED
    BY <1>4, <2>1, <2>3, <2>4, <2>5
<1>7. ASSUME place \in {"observe", "exhausted"} PROVE Goal
  <2>1. CASE old = Absent /\ k = Absent
    <3>1. /\ m.used = 0 /\ m.reserved = 0 /\ m.pending = NoAction /\ m.completed = {}
          /\ old.used = 0 /\ old.reserved = 0 /\ old.pending = NoAction /\ old.completed = {}
      BY <1>0, <2>1, AbsentFields
    <3>2. /\ DecisionsUsed(m) = DecisionsUsed(old)
          /\ Remaining(m) = Remaining(old) /\ Remaining(m) \in Int
          /\ IsFiniteSet(m.completed)
      BY <1>2, <1>4, <3>1, FS_EmptySet DEF Remaining, DecisionsUsed
    <3> QED
      BY <1>2, <1>4, <3>1, <3>2
  <2>2. CASE old.pending \in Actions /\ m.used = old.used + old.reserved
             /\ m.completed = old.completed \cup {old.pending}
    <3>1. m.pending = NoAction /\ m.reserved = 0 /\ m.terminal = "none"
      BY <1>0, <1>7, ChangeFields
    <3>2. IsFiniteSet(m.completed) /\ Cardinality(m.completed) = Cardinality(old.completed) + 1
      BY <1>4, <2>2, FS_AddElement
    <3>3. old.pending # NoAction
      BY <1>2, <2>2
    <3>4. DecisionsUsed(m) = DecisionsUsed(old)
      BY <1>3, <3>1, <3>2, <3>3 DEF DecisionsUsed
    <3> QED
      BY <1>1, <1>2, <1>4, <2>2, <3>1, <3>2, <3>3, <3>4 DEF Remaining
  <2> QED
    BY <1>0, <1>7, <2>1, <2>2, ChangeFields
<1>8. Goal
  BY <1>5, <1>6, <1>7 DEF AfterSave
<1>9. Charge(old) <= Charge(m)
  BY <1>0, <1>1, <1>2, <1>8 DEF Charge, Remaining
<1> QED
  BY <1>4, <1>8, <1>9 DEF ValidTransition, ValidState

-------------------------------------------------------------------------------
(* The inductive invariant. *)

\* The places from which an execution writes further checkpoints, and those
\* of the method, the checkpoint that leads to each included.
Loop == AfterSave \ {"returned"}
MethodPlaces == {"method", "call", "unsure"}
InMethod(e) == At(e) \in MethodPlaces

\* The ledger is valid, covers what was spent, and still shows every action
\* that was dispatched.
LedgerInv ==
    /\ ledger.revision = -1 => ledger = Absent
    /\ ValidState(ledger)
    /\ IsFiniteSet(ledger.completed)
    /\ spent <= Charge(ledger)
    /\ \A a \in Actions :
          /\ dispatches[a] <= 1
          /\ dispatches[a] = 0 \/ a \in ledger.completed \/ a = ledger.pending

\* What an execution's place says of its own copy.
CopyInv(e) ==
    /\ At(e) \in {"observe", "exhausted"} => mem[e].pending = NoAction
    /\ At(e) \in Loop => mem[e].terminal = "none"
    /\ At(e) = "returned" => mem[e].terminal # "none"
    /\ At(e) \in {"call", "unsure"} \/ (pc[e] = "save" /\ then[e] = "method") => count[e] > 0

\* The copy of the execution that holds the fence is the ledger, or one
\* checkpoint ahead of it, or so far ahead that no save is accepted any more.
FenceInv(e) ==
    token = e =>
        /\ pc[e] \in AfterSave =>
              /\ ledger.revision <= mem[e].revision
              /\ ledger.revision = mem[e].revision => ledger = mem[e]
        /\ pc[e] = "save" =>
              /\ ledger.revision < mem[e].revision
              /\ mem[e].revision = ledger.revision + 1 => Checkpoint(ledger, mem[e], then[e])
        /\ pc[e] = "authorize" /\ mem[e].revision = ledger.revision =>
              /\ spent + Cost[mem[e].pending] <= Charge(mem[e])
              /\ dispatches[mem[e].pending] = 0

\* An execution in its method has the ledger's pending action, and its copy
\* covers the calls it has made and the one it is allowed to make.  It is
\* alone there, and a successor gets no further than to a stop.
MethodInv(e) ==
    InMethod(e) =>
        /\ ledger.pending = mem[e].pending
        /\ spent <= Charge(mem[e])
        /\ At(e) = "call" \/ (pc[e] = "method" /\ count[e] = 0) =>
              spent + Cost[mem[e].pending] <= Charge(mem[e])
        /\ pc[e] = "call" => spent + Cost[mem[e].pending] <= Charge(ledger)
        /\ \A f \in Executions \ {e} :
              /\ ~InMethod(f)
              /\ token = f => At(f) \notin Loop

\* What an execution returned is stored, and final.
StoredInv(e) == pc[e] = "returned" => mem[e].terminal # "none" /\ ledger = mem[e]

ExecutionInv(e) == CopyInv(e) /\ FenceInv(e) /\ MethodInv(e) /\ StoredInv(e)

KernelInv == TypeInv /\ LedgerInv /\ \A e \in Executions : ExecutionInv(e)

Commit(e) == pc[e] = "save" /\ Accepts(e) /\ ledger' = mem[e]

\* All but e stay where they are, with the copies they have.
OthersStay(e) ==
    \A f \in Executions \ {e} :
        /\ pc'[f] = pc[f] /\ mem'[f] = mem[f] /\ then'[f] = then[f]
        /\ count'[f] = count[f]

\* What the types of the state are used for below.
LEMMA Typed ==
    ASSUME KernelInv, NEW e \in Executions
    PROVE  /\ pc[e] \in Place /\ mem[e] \in KernelState /\ then[e] \in AfterSave
           /\ count[e] \in Nat
           /\ At(e) \in Working => mem[e].pending \in Actions
           /\ ledger \in KernelState /\ spent \in Nat
           /\ ExecutionInv(e)
  BY TypeOfAll DEF KernelInv, TypeInv, TypeOK, ExecutionOK

\* The charge of a state is a number, as are the costs.
LEMMA ChargeType ==
    /\ \A k \in KernelState : Charge(k) \in Nat
    /\ \A a \in Actions : Cost[a] \in Nat \ {0} /\ a # NoAction
  BY StateFields, LimitsAssumption, ActionsAssumption DEF Charge

\* A checkpoint, field by field.
LEMMA CheckpointFields ==
    ASSUME NEW old \in KernelState, NEW m \in KernelState, NEW place \in AfterSave,
           Checkpoint(old, m, place)
    PROVE  /\ old.terminal = "none"
           /\ m.revision = old.revision + 1
           /\ place # "returned" => m.terminal = "none"
           /\ place = "returned" => m.terminal \in Stop
           /\ place \in MethodPlaces \cup {"returned"} =>
                 m.pending = old.pending /\ m.completed = old.completed /\ m.used = old.used
           /\ place = "returned" => Charge(m) = Charge(old)
           /\ place = "authorize" =>
                 /\ old.pending = NoAction
                 /\ m.pending \in Unattempted(old)
                 /\ m.reserved = Cost[m.pending]
                 /\ m.used = old.used
                 /\ m.completed = old.completed
           /\ place \in {"observe", "exhausted"} =>
                 /\ m.pending = NoAction
                 /\ \/ old = Absent
                    \/ m.completed = old.completed \cup {old.pending}
<1>1. PICK k \in KernelState : Change(old, k, place) /\ m = [k EXCEPT !.revision = @ + 1]
  BY DEF Checkpoint
<1>2. /\ m.used = k.used /\ m.reserved = k.reserved /\ m.pending = k.pending
      /\ m.completed = k.completed /\ m.terminal = k.terminal /\ m.revision = k.revision + 1
  BY <1>1, NextFields
<1> QED
  BY <1>1, <1>2, ChangeFields DEF MethodPlaces, Charge

\* A checkpoint of a valid ledger is a valid transition that charges no less.
LEMMA CheckpointValid ==
    ASSUME NEW old \in KernelState, NEW m \in KernelState, NEW place \in AfterSave,
           Checkpoint(old, m, place), ValidState(old), IsFiniteSet(old.completed)
    PROVE  /\ ValidTransition(old, m)
           /\ ValidState(m)
           /\ IsFiniteSet(m.completed)
           /\ Charge(old) <= Charge(m)
<1>1. PICK k \in KernelState : Change(old, k, place) /\ m = [k EXCEPT !.revision = @ + 1]
  BY DEF Checkpoint
<1>2. ValidTransition(old, m) /\ IsFiniteSet(m.completed) /\ Charge(old) <= Charge(m)
  BY <1>1, ChangeValid
<1> QED
  BY <1>2 DEF ValidTransition

\* What is committed is a checkpoint of the ledger.
LEMMA CommitFacts ==
    ASSUME KernelInv, NEW e \in Executions, Commit(e)
    PROVE  /\ token = e
           /\ Checkpoint(ledger, mem[e], then[e])
           /\ ledger' = mem[e]
           /\ mem[e].revision = ledger.revision + 1
           /\ mem[e].revision \in Nat
           /\ ledger.terminal = "none"
           /\ ValidState(mem[e])
           /\ IsFiniteSet(mem[e].completed)
           /\ Charge(ledger) <= Charge(mem[e])
<1>1. token = e /\ mem[e].revision = ledger.revision + 1 /\ pc[e] = "save" /\ ledger' = mem[e]
  BY DEF Commit, Accepts, Fenced
<1>2. Checkpoint(ledger, mem[e], then[e])
  BY <1>1, Typed DEF ExecutionInv, FenceInv
<1>3. ledger.terminal = "none"
  BY <1>2, Typed, CheckpointFields
<1>4. ValidState(ledger) /\ IsFiniteSet(ledger.completed)
  BY DEF KernelInv, LedgerInv
<1>5. mem[e].revision \in Nat
  <2>1. ledger.revision \in Nat \cup {-1}
    BY Typed, StateFields
  <2> QED
    BY <1>1, <2>1
<1> QED
  BY <1>1, <1>2, <1>3, <1>4, <1>5, Typed, CheckpointValid

\* The ledger stays valid and goes on covering what is spent.
LEMMA LedgerKept ==
    ASSUME KernelInv, NEW e \in Executions,
           ledger' = ledger \/ Commit(e),
           spent' = spent \/ spent' <= Charge(ledger),
           spent' \in Nat,
           \A a \in Actions :
              \/ dispatches'[a] = dispatches[a]
              \/ a = ledger.pending /\ ledger' = ledger /\ dispatches'[a] = 1
    PROVE  LedgerInv'
<1>1. ledger \in KernelState /\ mem[e] \in KernelState /\ then[e] \in AfterSave /\ spent \in Nat
  BY Typed
<1>2. /\ ledger.revision = -1 => ledger = Absent
      /\ ValidState(ledger) /\ IsFiniteSet(ledger.completed) /\ spent <= Charge(ledger)
      /\ \A a \in Actions :
            /\ dispatches[a] <= 1
            /\ dispatches[a] = 0 \/ a \in ledger.completed \/ a = ledger.pending
  BY DEF KernelInv, LedgerInv
<1>3. spent' <= Charge(ledger)
  BY <1>2
<1>4. CASE ledger' = ledger
  <2>1. ValidState(ledger') /\ IsFiniteSet(ledger'.completed) /\ spent' <= Charge(ledger')
    BY <1>2, <1>3, <1>4
  <2>2. \A a \in Actions :
            /\ dispatches'[a] <= 1
            /\ dispatches'[a] = 0 \/ a \in ledger'.completed \/ a = ledger'.pending
    BY <1>2, <1>4
  <2> QED
    BY <1>2, <1>4, <2>1, <2>2 DEF LedgerInv, ValidState, Remaining, DecisionsUsed, Charge
<1>5. CASE Commit(e)
  <2>1. /\ Checkpoint(ledger, mem[e], then[e]) /\ ledger' = mem[e] /\ mem[e].revision \in Nat
        /\ ValidState(mem[e]) /\ IsFiniteSet(mem[e].completed) /\ Charge(ledger) <= Charge(mem[e])
        /\ mem[e].revision = ledger.revision + 1
    BY <1>5, CommitFacts
  <2>2. spent' <= Charge(mem[e])
    BY <1>1, <1>3, <2>1, ChargeType
  <2>3. ASSUME NEW a \in Actions
        PROVE  /\ dispatches'[a] <= 1
               /\ dispatches'[a] = 0 \/ a \in mem[e].completed \/ a = mem[e].pending
    <3>1. ledger' # ledger
      BY <1>1, <2>1, StateFields
    <3>2. dispatches'[a] = dispatches[a] /\ dispatches[a] <= 1
      BY <1>2, <3>1
    <3>3. a \in ledger.completed \/ a = ledger.pending => a \in mem[e].completed \/ a = mem[e].pending
      BY <1>1, <2>1, CheckpointFields, ActionsAssumption, AbsentFields DEF AfterSave, MethodPlaces
    <3> QED
      BY <1>2, <3>2, <3>3
  <2> QED
    BY <2>1, <2>2, <2>3 DEF LedgerInv, ValidState, Remaining, DecisionsUsed, Charge
<1> QED
  BY <1>4, <1>5

\* What a step of e does not disturb in the others.
LEMMA OthersKept ==
    ASSUME KernelInv, NEW e \in Executions, OthersStay(e),
           ledger' = ledger \/ Commit(e),
           token' \in {token, e},
           spent' = spent \/ InMethod(e),
           dispatches' = dispatches \/ token = e,
           \A f \in Executions \ {e} :
              InMethod(f) => ~InMethod(e)' /\ (token' = e => At(e)' \notin Loop)
    PROVE  \A f \in Executions \ {e} : ExecutionInv(f)'
<1> SUFFICES ASSUME NEW f \in Executions, f # e PROVE ExecutionInv(f)'
  OBVIOUS
<1>1. pc'[f] = pc[f] /\ mem'[f] = mem[f] /\ then'[f] = then[f] /\ count'[f] = count[f]
  BY DEF OthersStay
<1>2. \A g \in Executions \ {e} : At(g)' = At(g) /\ InMethod(g)' = InMethod(g)
  BY DEF OthersStay, At, InMethod
<1>3. CopyInv(f) /\ FenceInv(f) /\ MethodInv(f) /\ StoredInv(f) /\ MethodInv(e)
  BY Typed DEF ExecutionInv
<1>4. CopyInv(f)'
  BY <1>1, <1>2, <1>3 DEF CopyInv
<1>5. Commit(e) => token = e /\ ledger.terminal = "none"
  BY CommitFacts
<1>6. FenceInv(f)'
  <2> SUFFICES ASSUME token' = f PROVE FenceInv(f)'
    BY DEF FenceInv
  <2>1. token = f /\ ledger' = ledger /\ dispatches' = dispatches
    BY <1>5
  <2>2. pc[f] = "authorize" => spent' = spent
    BY <1>3, <2>1 DEF MethodInv, Loop, AfterSave, At
  <2> QED
    BY <1>1, <1>3, <2>1, <2>2 DEF FenceInv
<1>7. MethodInv(f)'
  <2> SUFFICES ASSUME InMethod(f) PROVE MethodInv(f)'
    BY <1>2 DEF MethodInv
  <2>1. ~InMethod(e) /\ (token = e => At(e) \notin Loop) /\ spent' = spent
    BY <1>3 DEF MethodInv
  <2>2. ledger'.pending = ledger.pending /\ Charge(ledger') = Charge(ledger)
    <3>1. CASE ledger' = ledger
      BY <3>1
    <3>2. CASE Commit(e)
      <4>1. At(e) = then[e] /\ At(e) \notin Loop /\ then[e] \in AfterSave
        BY <1>5, <2>1, <3>2, Typed DEF Commit, At
      <4>2. then[e] = "returned"
        BY <4>1 DEF Loop
      <4>3. mem[e].pending = ledger.pending /\ Charge(mem[e]) = Charge(ledger) /\ ledger' = mem[e]
        BY <3>2, <4>1, <4>2, CommitFacts, CheckpointFields, Typed DEF MethodPlaces
      <4> QED
        BY <4>3
    <3> QED
      BY <3>1, <3>2
  <2>3. \A g \in Executions \ {f} : ~InMethod(g)' /\ (token' = g => At(g)' \notin Loop)
    <3>1. ASSUME NEW g \in Executions, g # f, g # e
          PROVE ~InMethod(g)' /\ (token' = g => At(g)' \notin Loop)
      BY <1>2, <1>3, <3>1 DEF MethodInv
    <3> QED
      BY <3>1
  <2>4. Charge(ledger)' = Charge(ledger') /\ Charge(mem[f])' = Charge(mem'[f])
    BY DEF Charge
  <2> QED
    BY <1>1, <1>2, <1>3, <2>1, <2>2, <2>3, <2>4 DEF MethodInv
<1>8. StoredInv(f)'
  BY <1>1, <1>3, <1>5 DEF StoredInv
<1> QED
  BY <1>4, <1>6, <1>7, <1>8 DEF ExecutionInv

\* The start of a checkpoint keeps the invariant, if the checkpoint follows
\* the ledger and pays for the calls that it leads to.
LEMMA SavingKept ==
    ASSUME KernelInv, NEW e \in Executions, NEW k \in KernelState, NEW place \in AfterSave,
           Saving(e, k, place), OthersStay(e), UNCHANGED <<ledger, token, dispatches>>,
           spent' \in Nat,
           spent' = spent \/ (InMethod(e) /\ spent' <= Charge(ledger)),
           place \in {"observe", "exhausted"} => k.pending = NoAction,
           place \in Loop => k.terminal = "none",
           place = "returned" => k.terminal # "none",
           token = e =>
              /\ ledger.revision <= k.revision
              /\ ledger.revision = k.revision => Change(ledger, k, place),
           place \in MethodPlaces =>
              InMethod(e) /\ count'[e] > 0 /\ k.pending = mem[e].pending /\ spent' <= Charge(k),
           place = "call" => spent' + Cost[k.pending] <= Charge(k),
           \A f \in Executions \ {e} :
              InMethod(f) => place \notin MethodPlaces /\ (token = e => place = "returned")
    PROVE  LedgerInv' /\ \A f \in Executions : ExecutionInv(f)'
<1> DEFINE m == [k EXCEPT !.revision = @ + 1]
<1>1. pc'[e] = "save" /\ then'[e] = place /\ mem'[e] = m
  BY DEF KernelInv, TypeInv, TypeOK, Saving, Goto
<1>2. /\ m \in KernelState /\ m.revision = k.revision + 1 /\ m.terminal = k.terminal
      /\ m.pending = k.pending /\ Charge(m) = Charge(k)
  BY StateUpdates, NextFields DEF Charge
<1>3. k.revision \in Int /\ ledger.revision \in Int
  BY Typed, StateFields
<1> HIDE DEF m
<1>4. At(e)' = place /\ (InMethod(e)' <=> place \in MethodPlaces)
  BY <1>1 DEF At, InMethod
<1>5. \A f \in Executions \ {e} : ExecutionInv(f)'
  <2>1. ledger' = ledger /\ token' = token /\ dispatches' = dispatches
    OBVIOUS
  <2>2. \A f \in Executions \ {e} :
           InMethod(f) => ~InMethod(e)' /\ (token' = e => At(e)' \notin Loop)
    BY <1>4, <2>1 DEF Loop
  <2> QED
    BY <2>1, <2>2, OthersKept
<1>6. LedgerInv'
  <2>1. ledger' = ledger /\ dispatches' = dispatches
    OBVIOUS
  <2> QED
    BY <2>1, LedgerKept
<1>7. CopyInv(e)'
  BY <1>1, <1>2, <1>4 DEF CopyInv, AfterSave, MethodPlaces
<1>8. FenceInv(e)'
  <2>1. pc[e]' = "save" /\ mem[e]' = m /\ then[e]' = place /\ ledger' = ledger /\ token' = token
    BY <1>1
  <2>2. k.revision = ledger.revision => (token = e => Checkpoint(ledger, m, place))
    BY DEF Checkpoint, m
  <2>3. token = e => /\ ledger.revision < m.revision
                     /\ m.revision = ledger.revision + 1 => Checkpoint(ledger, m, place)
    BY <1>2, <1>3, <2>2
  <2> QED
    BY <2>1, <2>3 DEF FenceInv, AfterSave, Checkpoint
<1>9. MethodInv(e)'
  <2> SUFFICES ASSUME place \in MethodPlaces PROVE MethodInv(e)'
    BY <1>4 DEF MethodInv
  <2>1. InMethod(e) /\ k.pending = mem[e].pending /\ spent' <= Charge(k)
    OBVIOUS
  <2>2. ledger'.pending = mem'[e].pending
    BY <1>1, <1>2, <2>1, Typed DEF ExecutionInv, MethodInv
  <2>3. spent' <= Charge(mem'[e])
    BY <1>1, <1>2, <2>1
  <2>4. At(e)' = "call" \/ (pc'[e] = "method" /\ count'[e] = 0) =>
           spent' + Cost[mem'[e].pending] <= Charge(mem'[e])
    BY <1>1, <1>2, <1>4
  <2>5. \A f \in Executions \ {e} : ~InMethod(f)' /\ (token' = f => At(f)' \notin Loop)
    BY <2>1, Typed DEF ExecutionInv, MethodInv, OthersStay, At, InMethod
  <2>6. Charge(mem[e])' = Charge(mem'[e]) /\ pc'[e] # "call"
    BY <1>1 DEF Charge
  <2> QED
    BY <2>2, <2>3, <2>4, <2>5, <2>6 DEF MethodInv
<1>10. StoredInv(e)'
  BY <1>1 DEF StoredInv
<1> QED
  BY <1>5, <1>6, <1>7, <1>8, <1>9, <1>10 DEF ExecutionInv

\* The checkpoints of the loop and of the method.
LEMMA LoopSavingKept ==
    ASSUME KernelInv, NEW e \in Executions, NEW k \in KernelState, NEW place \in AfterSave,
           pc[e] \in Loop, Change(mem[e], k, place),
           Saving(e, k, place), OthersStay(e), UNCHANGED <<ledger, token, dispatches>>,
           spent' \in Nat,
           spent' = spent \/ (InMethod(e) /\ spent' <= Charge(ledger)),
           place \in MethodPlaces => InMethod(e) /\ count'[e] > 0 /\ spent' <= Charge(k),
           place = "call" => spent' + Cost[k.pending] <= Charge(k)
    PROVE  LedgerInv' /\ \A f \in Executions : ExecutionInv(f)'
<1>1. At(e) = pc[e] /\ pc[e] \in AfterSave
  BY DEF At, Loop, AfterSave
<1>2. /\ mem[e].terminal = "none"
      /\ k.revision = mem[e].revision
      /\ place # "returned" => k.terminal = "none"
      /\ place = "returned" => k.terminal # "none"
      /\ place \in MethodPlaces => k.pending = mem[e].pending
      /\ place \in {"observe", "exhausted"} => k.pending = NoAction
  BY Typed, ChangeFields DEF MethodPlaces, Stop
<1>3. token = e =>
        /\ ledger.revision <= k.revision
        /\ ledger.revision = k.revision => Change(ledger, k, place)
  BY <1>1, <1>2, Typed DEF ExecutionInv, FenceInv
<1>4. ASSUME NEW f \in Executions \ {e}, InMethod(f)
      PROVE  place \notin MethodPlaces /\ (token = e => place = "returned")
  BY <1>1, <1>4, Typed DEF ExecutionInv, MethodInv
<1> QED
  BY <1>2, <1>3, <1>4, SavingKept DEF Loop

\* The decision loop keeps the invariant.
LEMMA LoopKept ==
    ASSUME KernelInv, NEW e \in Executions,
           \/ Ready(e) \/ DeadlineStop(e) \/ NothingToDo(e) \/ StopExhausted(e)
           \/ \E a \in Actions : Reserve(e, a)
    PROVE  LedgerInv' /\ \A f \in Executions : ExecutionInv(f)'
<1>0. mem[e] \in KernelState /\ spent \in Nat /\ CopyInv(e)
  BY Typed DEF ExecutionInv
<1>1. ASSUME NEW stop \in Stop, pc[e] \in {"observe", "exhausted"}, StopWith(e, mem[e], stop),
             UNCHANGED <<rowVars, storeVars, count, ambiguous, late, spent, dispatches, faults>>
      PROVE  LedgerInv' /\ \A f \in Executions : ExecutionInv(f)'
  <2> DEFINE k == [mem[e] EXCEPT !.terminal = stop]
  <2>1. k \in KernelState
    BY <1>0, StateUpdates
  <2>2. mem[e].pending = NoAction /\ mem[e].terminal = "none" /\ pc[e] \in Loop
    BY <1>0, <1>1 DEF CopyInv, At, Loop, AfterSave
  <2>3. Change(mem[e], k, "returned")
    BY <2>2 DEF Change
  <2>4. Saving(e, k, "returned") /\ OthersStay(e) /\ UNCHANGED <<ledger, token, dispatches, spent>>
    BY <1>1 DEF StopWith, Saving, Goto, OthersStay, storeVars, KernelInv, TypeInv, TypeOK
  <2>5. "returned" \in AfterSave /\ "returned" \notin MethodPlaces
    BY DEF AfterSave, MethodPlaces
  <2> HIDE DEF k
  <2> QED
    BY <1>0, <2>1, <2>2, <2>3, <2>4, <2>5, LoopSavingKept
<1>2. CASE Ready(e)
  BY <1>1, <1>2 DEF Ready, Stop
<1>3. CASE DeadlineStop(e)
  BY <1>1, <1>3 DEF DeadlineStop, Stop
<1>4. CASE NothingToDo(e)
  BY <1>1, <1>4 DEF NothingToDo, Stop
<1>5. CASE StopExhausted(e)
  BY <1>1, <1>5 DEF StopExhausted, Stop
<1>6. ASSUME NEW a \in Actions, Reserve(e, a)
      PROVE  LedgerInv' /\ \A f \in Executions : ExecutionInv(f)'
  <2> DEFINE k == [mem[e] EXCEPT !.pending = a, !.reserved = Cost[a]]
  <2>1. k \in KernelState
    BY <1>0, StateUpdates, ChargeType
  <2>2. mem[e].pending = NoAction /\ mem[e].terminal = "none" /\ pc[e] \in Loop
    BY <1>0, <1>6 DEF CopyInv, At, Loop, AfterSave, Reserve
  <2>3. Change(mem[e], k, "authorize")
    BY <1>6, <2>2 DEF Change, Reserve
  <2>4. Saving(e, k, "authorize") /\ OthersStay(e) /\ UNCHANGED <<ledger, token, dispatches, spent>>
    BY <1>6 DEF Reserve, Saving, Goto, OthersStay, storeVars, KernelInv, TypeInv, TypeOK
  <2>5. "authorize" \in AfterSave /\ "authorize" \notin MethodPlaces
    BY DEF AfterSave, MethodPlaces
  <2> HIDE DEF k
  <2> QED
    BY <1>0, <2>1, <2>2, <2>3, <2>4, <2>5, LoopSavingKept
<1> QED
  BY <1>2, <1>3, <1>4, <1>5, <1>6

\* So does the method.
LEMMA MethodKept ==
    ASSUME KernelInv, NEW e \in Executions, Method(e)
    PROVE  LedgerInv' /\ \A f \in Executions : ExecutionInv(f)'
<1>1. /\ mem[e] \in KernelState /\ spent \in Nat /\ count[e] \in Nat
      /\ pc[e] \in MethodPlaces /\ At(e) = pc[e] /\ InMethod(e) /\ pc[e] \in Loop
  BY Typed DEF Method, BeginAttempt, Call, MarkAmbiguous, MethodReturns, MethodExhausted,
               MethodRaises, MethodPlaces, At, InMethod, Loop, AfterSave
<1>2. /\ mem[e].terminal = "none"
      /\ pc[e] \in {"call", "unsure"} => count[e] > 0
      /\ mem[e].pending \in Actions
      /\ mem[e].pending # NoAction
      /\ spent <= Charge(mem[e])
      /\ pc[e] = "call" \/ (pc[e] = "method" /\ count[e] = 0) =>
            spent + Cost[mem[e].pending] <= Charge(mem[e])
      /\ pc[e] = "call" => spent + Cost[mem[e].pending] <= Charge(ledger)
  BY <1>1, Typed, ChargeType DEF ExecutionInv, CopyInv, MethodInv, Working, MethodPlaces
<1>3. Cost[mem[e].pending] \in Nat /\ Charge(mem[e]) \in Nat /\ mem[e].reserved \in Nat /\ mem[e].used \in Nat
  BY <1>1, <1>2, ChargeType, StateFields
<1>4. {"observe", "exhausted", "returned"} \cap MethodPlaces = {}
      /\ {"observe", "exhausted", "returned"} \cup MethodPlaces \subseteq AfterSave
  BY DEF MethodPlaces, AfterSave
<1>5. OthersStay(e) /\ UNCHANGED <<ledger, token, dispatches>>
  BY DEF Method, BeginAttempt, Call, MarkAmbiguous, MethodReturns, MethodExhausted, MethodRaises,
         LeaveMethod, StopWith, Saving, Goto, OthersStay, storeVars, KernelInv, TypeInv, TypeOK
<1>6. CASE BeginAttempt(e)
  <2> DEFINE more == [mem[e] EXCEPT !.reserved = @ + Cost[mem[e].pending]]
             k == IF count[e] = 0 THEN mem[e] ELSE more
  <2>1. more \in KernelState
    <3>1. mem[e].reserved + Cost[mem[e].pending] \in Nat
      BY <1>3
    <3> QED
      BY <1>1, <3>1, StateUpdates
  <2>2. /\ pc[e] = "method"
        /\ count[e] > 0 => Cost[mem[e].pending] <= Remaining(mem[e])
        /\ count' = [count EXCEPT ![e] = @ + 1] /\ Saving(e, k, "call") /\ spent' = spent
    BY <1>6 DEF BeginAttempt, AttemptAllowed
  <2>3. more.pending = mem[e].pending /\ Charge(more) = Charge(mem[e]) + Cost[mem[e].pending]
    BY <1>1, <1>3, ExtendedFields DEF Charge
  <2>4. count'[e] > 0
    BY <1>1, <2>2 DEF KernelInv, TypeInv, TypeOK
  <2>5. CASE count[e] = 0
    <3>1. k = mem[e] /\ Change(mem[e], k, "call")
      BY <1>2, <2>5 DEF Change
    <3> HIDE DEF k
    <3> QED
      BY <1>1, <1>2, <1>4, <1>5, <2>2, <2>4, <2>5, <3>1, LoopSavingKept DEF MethodPlaces
  <2>6. CASE count[e] # 0
    <3>1. k = more
      BY <2>6
    <3>2. count[e] > 0
      BY <1>1, <2>6
    <3>3. Change(mem[e], more, "call")
      BY <1>2, <2>2, <3>2 DEF Change
    <3>4. spent' <= Charge(more) /\ spent' + Cost[more.pending] <= Charge(more)
      BY <1>1, <1>2, <1>3, <2>2, <2>3
    <3>5. Saving(e, more, "call")
      BY <2>2, <3>1
    <3> HIDE DEF k, more
    <3> QED
      BY <1>1, <1>4, <1>5, <2>1, <2>2, <2>4, <3>3, <3>4, <3>5, LoopSavingKept DEF MethodPlaces
  <2> QED
    BY <2>5, <2>6
<1>7. CASE Call(e)
  <2>1. pc[e] = "call" /\ spent' = spent + Cost[mem[e].pending] /\ count' = count
    BY <1>7 DEF Call
  <2>2. PICK place \in {"method", "unsure"} : Saving(e, mem[e], place)
    BY <1>7 DEF Call
  <2>3. Change(mem[e], mem[e], place)
    BY <1>2 DEF Change
  <2>4. spent' \in Nat /\ spent' <= Charge(ledger) /\ spent' <= Charge(mem[e])
    BY <1>1, <1>2, <1>3, <2>1
  <2> QED
    BY <1>1, <1>2, <1>4, <1>5, <2>1, <2>2, <2>3, <2>4, LoopSavingKept DEF MethodPlaces
<1>8. CASE MarkAmbiguous(e)
  <2>1. Saving(e, mem[e], "method") /\ count' = count /\ spent' = spent /\ count[e] > 0
    BY <1>2, <1>8 DEF MarkAmbiguous
  <2>2. Change(mem[e], mem[e], "method")
    BY <1>2 DEF Change
  <2> QED
    BY <1>1, <1>2, <1>4, <1>5, <2>1, <2>2, LoopSavingKept DEF MethodPlaces
<1>9. ASSUME NEW place \in {"observe", "exhausted"}, Saving(e, Consumed(mem[e]), place), spent' = spent
      PROVE  LedgerInv' /\ \A f \in Executions : ExecutionInv(f)'
  <2>1. Consumed(mem[e]) \in KernelState
    BY <1>1, <1>2, StateUpdates
  <2>2. Change(mem[e], Consumed(mem[e]), place)
    BY <1>2 DEF Change
  <2> QED
    BY <1>1, <1>4, <1>5, <1>9, <2>1, <2>2, LoopSavingKept
<1>10. CASE MethodReturns(e)
  BY <1>9, <1>10 DEF MethodReturns
<1>11. CASE MethodExhausted(e)
  BY <1>9, <1>11 DEF MethodExhausted
<1>12. CASE MethodRaises(e)
  <2> DEFINE k == [mem[e] EXCEPT !.terminal = "reconciliation_required"]
  <2>1. k \in KernelState
    BY <1>1, StateUpdates DEF Stop
  <2>2. Change(mem[e], k, "returned")
    BY <1>2 DEF Change, Stop
  <2>3. Saving(e, k, "returned") /\ spent' = spent
    BY <1>12 DEF MethodRaises, StopWith
  <2> HIDE DEF k
  <2> QED
    BY <1>1, <1>4, <1>5, <2>1, <2>2, <2>3, LoopSavingKept
<1> QED
  BY <1>6, <1>7, <1>8, <1>10, <1>11, <1>12 DEF Method

\* What an authorization finds, and what it records.
LEMMA AuthorizeFacts ==
    ASSUME KernelInv, NEW e \in Executions, pc[e] = "authorize", Authorizes(e),
           dispatches' = [dispatches EXCEPT ![mem[e].pending] = @ + 1], ledger' = ledger
    PROVE  /\ token = e
           /\ ledger = mem[e]
           /\ mem[e].terminal = "none"
           /\ spent + Cost[mem[e].pending] <= Charge(mem[e])
           /\ \A a \in Actions :
                 \/ dispatches'[a] = dispatches[a]
                 \/ a = ledger.pending /\ ledger' = ledger /\ dispatches'[a] = 1
<1>1. token = e /\ ledger.revision = mem[e].revision /\ At(e) = "authorize"
      /\ "authorize" \in Loop /\ pc[e] \in AfterSave
  BY DEF Authorizes, Fenced, At, Loop, AfterSave
<1>2. mem[e].pending \in Actions /\ dispatches \in [Actions -> Nat]
  BY <1>1, Typed DEF Working, KernelInv, TypeInv, TypeOK
<1>3. /\ ledger = mem[e] /\ dispatches[mem[e].pending] = 0 /\ mem[e].terminal = "none"
      /\ spent + Cost[mem[e].pending] <= Charge(mem[e])
  BY <1>1, Typed DEF ExecutionInv, FenceInv, CopyInv
<1>4. ASSUME NEW a \in Actions
      PROVE  \/ dispatches'[a] = dispatches[a]
             \/ a = ledger.pending /\ ledger' = ledger /\ dispatches'[a] = 1
  BY <1>2, <1>3
<1> QED
  BY <1>1, <1>3, <1>4

\* The end of an execution keeps the invariant, whatever it did last.
LEMMA EndKept ==
    ASSUME KernelInv, NEW e \in Executions, NEW place \in Final, End(e, place),
           ledger' = ledger \/ Commit(e), token' = token, spent' = spent,
           dispatches' = dispatches \/ token = e,
           \A a \in Actions :
              \/ dispatches'[a] = dispatches[a]
              \/ a = ledger.pending /\ ledger' = ledger /\ dispatches'[a] = 1
    PROVE  LedgerInv' /\ \A f \in Executions : ExecutionInv(f)'
<1>1. pc'[e] = place /\ OthersStay(e) /\ place \notin {"save"} \cup AfterSave
  BY DEF End, Goto, OthersStay, Final, AfterSave, KernelInv, TypeInv, TypeOK
<1>2. At(e)' = place
  BY <1>1 DEF At
<1>3. ~InMethod(e)' /\ At(e)' \notin Loop
  BY <1>1, <1>2 DEF InMethod, Loop, MethodPlaces, AfterSave
<1>4. ExecutionInv(e)'
  BY <1>1, <1>2, <1>3 DEF ExecutionInv, CopyInv, FenceInv, MethodInv, StoredInv, AfterSave, Loop
<1>5. \A f \in Executions \ {e} : ExecutionInv(f)'
  BY <1>1, <1>3, OthersKept
<1>6. LedgerInv'
  <2>1. spent' \in Nat
    BY Typed
  <2> QED
    BY <2>1, LedgerKept
<1> QED
  BY <1>4, <1>5, <1>6

\* The start of a store.
LEMMA AcquireKept ==
    ASSUME KernelInv, NEW e \in Executions, Acquire(e)
    PROVE  LedgerInv' /\ \A f \in Executions : ExecutionInv(f)'
<1>1. /\ pc'[e] = "acquired" /\ OthersStay(e) /\ token' = e
      /\ ledger' = ledger /\ spent' = spent /\ dispatches' = dispatches
  BY DEF Acquire, Goto, OthersStay, KernelInv, TypeInv, TypeOK
<1>2. At(e)' = "acquired"
  BY <1>1 DEF At
<1>3. ~InMethod(e)' /\ At(e)' \notin Loop
  BY <1>2 DEF InMethod, Loop, MethodPlaces, AfterSave
<1>4. ExecutionInv(e)'
  BY <1>1, <1>2, <1>3 DEF ExecutionInv, CopyInv, FenceInv, MethodInv, StoredInv, AfterSave
<1>5. \A f \in Executions \ {e} : ExecutionInv(f)'
  BY <1>1, <1>3, OthersKept
<1>6. LedgerInv'
  <2>1. spent' \in Nat
    BY <1>1, Typed
  <2> QED
    BY <1>1, <2>1, LedgerKept
<1> QED
  BY <1>4, <1>5, <1>6

\* An execution in its method has an action open, which stops whoever loads
\* the ledger.
LEMMA OpenInMethod ==
    ASSUME KernelInv, NEW f \in Executions, InMethod(f)
    PROVE  ledger.pending \in Actions /\ ledger.pending # NoAction
  BY Typed, ChargeType DEF ExecutionInv, MethodInv, InMethod, MethodPlaces, Working

\* Loading keeps the invariant: an action found open leads to a stop.
LEMMA LoadKept ==
    ASSUME KernelInv, NEW e \in Executions, Load(e)
    PROVE  LedgerInv' /\ \A f \in Executions : ExecutionInv(f)'
<1>1. /\ ledger' = ledger /\ token' = token /\ spent' = spent /\ dispatches' = dispatches
      /\ pc[e] = "acquired"
  BY DEF Load, storeVars
<1>2. ledger \in KernelState /\ spent \in Nat /\ spent' \in Nat /\ count[e] \in Nat
  BY <1>1, Typed
<1>3. /\ "observe" \in AfterSave /\ "returned" \in AfterSave
      /\ "observe" \notin MethodPlaces /\ "returned" \notin MethodPlaces /\ "returned" \notin Loop
  BY DEF AfterSave, MethodPlaces, Loop
<1>4. CASE End(e, "ended")
  BY <1>1, <1>4, EndKept DEF Final
<1>5. CASE ledger.revision = -1 /\ Saving(e, Absent, "observe") /\ UNCHANGED <<count, ambiguous>>
  <2>1. ledger = Absent /\ ledger.pending = NoAction /\ ledger.terminal = "none"
    BY <1>5, AbsentFields DEF KernelInv, LedgerInv
  <2>2. Change(ledger, Absent, "observe")
    BY <2>1 DEF Change
  <2>3. \A f \in Executions : ~InMethod(f)
    BY <2>1, OpenInMethod
  <2>4. OthersStay(e)
    BY <1>5 DEF Saving, Goto, OthersStay, KernelInv, TypeInv, TypeOK
  <2> QED
    BY <1>1, <1>2, <1>3, <1>5, <2>1, <2>2, <2>3, <2>4, AbsentIsState, AbsentFields, SavingKept
<1>6. CASE /\ ledger.terminal = "none" /\ ledger.pending # NoAction
           /\ Saving(e, [ledger EXCEPT !.terminal = "reconciliation_required"], "returned")
           /\ UNCHANGED <<count, ambiguous>>
  <2> DEFINE k == [ledger EXCEPT !.terminal = "reconciliation_required"]
  <2>1. k \in KernelState
    BY <1>2, StateUpdates DEF Stop
  <2>2. Change(ledger, k, "returned")
    BY <1>6 DEF Change, Stop
  <2>3. OthersStay(e)
    BY <1>6 DEF Saving, Goto, OthersStay, KernelInv, TypeInv, TypeOK
  <2>4. k.terminal # "none" /\ k.revision = ledger.revision /\ ledger.revision \in Int
    BY <1>2, StoppedFields, StateFields
  <2> HIDE DEF k
  <2>5. Saving(e, k, "returned")
    BY <1>6 DEF k
  <2> QED
    BY <1>1, <1>2, <1>3, <2>1, <2>2, <2>3, <2>4, <2>5, SavingKept
<1>7. ASSUME mem' = [mem EXCEPT ![e] = ledger], UNCHANGED then, UNCHANGED <<count, ambiguous>>,
             \/ Goto(e, "returned") /\ ledger.terminal # "none"
             \/ Goto(e, "observe") /\ ledger.terminal = "none" /\ ledger.pending = NoAction
      PROVE  LedgerInv' /\ \A f \in Executions : ExecutionInv(f)'
  <2>1. /\ OthersStay(e) /\ mem'[e] = ledger
        /\ \/ pc'[e] = "returned" /\ ledger.terminal # "none"
           \/ pc'[e] = "observe" /\ ledger.terminal = "none" /\ ledger.pending = NoAction
    BY <1>7 DEF Goto, OthersStay, KernelInv, TypeInv, TypeOK
  <2>2. At(e)' = pc'[e] /\ ~InMethod(e)'
    BY <2>1 DEF At, InMethod, MethodPlaces
  <2>3. ASSUME NEW f \in Executions, InMethod(f) PROVE At(e)' = "returned"
    BY <2>1, <2>2, <2>3, OpenInMethod
  <2>4. ledger.revision \in Int
    BY <1>2, StateFields
  <2>5. ExecutionInv(e)'
    BY <1>1, <2>1, <2>2, <2>4 DEF ExecutionInv, CopyInv, FenceInv, MethodInv, StoredInv, AfterSave, Loop
  <2>6. \A f \in Executions \ {e} : ExecutionInv(f)'
    BY <1>1, <1>3, <2>1, <2>2, <2>3, OthersKept
  <2>7. LedgerInv'
    BY <1>1, <1>2, LedgerKept
  <2> QED
    BY <2>5, <2>6, <2>7
<1> QED
  BY <1>4, <1>5, <1>6, <1>7 DEF Load

\* So does the authorization of the reserved action, or its refusal.
LEMMA AuthorizeKept ==
    ASSUME KernelInv, NEW e \in Executions, Authorize(e)
    PROVE  LedgerInv' /\ \A f \in Executions : ExecutionInv(f)'
<1>1. pc[e] = "authorize" /\ ledger' = ledger /\ token' = token /\ spent' = spent
  BY DEF Authorize
<1>2. spent' \in Nat /\ ledger.revision \in Int
  BY <1>1, Typed, StateFields
<1>3. CASE End(e, "ended") /\ UNCHANGED <<dispatch, dispatches>>
  BY <1>1, <1>3, EndKept DEF Final
<1>4. CASE /\ Authorizes(e)
           /\ dispatches' = [dispatches EXCEPT ![mem[e].pending] = @ + 1]
           /\ Goto(e, "method")
           /\ UNCHANGED <<mem, then, count, ambiguous>>
  <2>1. /\ token = e /\ ledger = mem[e] /\ mem[e].terminal = "none"
        /\ spent + Cost[mem[e].pending] <= Charge(mem[e])
        /\ \A a \in Actions :
              \/ dispatches'[a] = dispatches[a]
              \/ a = ledger.pending /\ ledger' = ledger /\ dispatches'[a] = 1
    BY <1>1, <1>4, AuthorizeFacts
  <2>2. pc'[e] = "method" /\ OthersStay(e) /\ mem' = mem
    BY <1>4 DEF Goto, OthersStay, KernelInv, TypeInv, TypeOK
  <2>3. At(e) = "authorize" /\ At(e) \in Loop /\ At(e)' = "method" /\ InMethod(e)'
    BY <1>1, <2>2 DEF At, InMethod, MethodPlaces, Loop, AfterSave
  <2>4. \A f \in Executions \ {e} : ~InMethod(f)
    BY <2>1, <2>3, Typed DEF ExecutionInv, MethodInv
  <2>5. LedgerInv'
    BY <1>1, <1>2, <2>1, LedgerKept
  <2>6. \A f \in Executions \ {e} : ExecutionInv(f)'
    BY <1>1, <2>1, <2>2, <2>4, OthersKept
  <2>7. CopyInv(e)' /\ StoredInv(e)'
    BY <2>1, <2>2, <2>3 DEF CopyInv, StoredInv
  <2>8. FenceInv(e)'
    BY <1>1, <1>2, <2>1, <2>2 DEF FenceInv
  <2>9. MethodInv(e)'
    <3>1. \A f \in Executions \ {e} : ~InMethod(f)' /\ token' # f
      BY <1>1, <2>1, <2>2, <2>4 DEF InMethod, At, OthersStay
    <3>2. spent <= Charge(mem[e])
      BY <2>1 DEF KernelInv, LedgerInv
    <3>3. Charge(mem[e])' = Charge(mem[e])
      BY <2>2 DEF Charge
    <3> QED
      BY <1>1, <2>1, <2>2, <2>3, <3>1, <3>2, <3>3 DEF MethodInv
  <2> QED
    BY <2>5, <2>6, <2>7, <2>8, <2>9 DEF ExecutionInv
<1> QED
  BY <1>3, <1>4 DEF Authorize

\* The end of a checkpoint that leaves the execution at work: committed, and
\* on its way; or failed inside the method, and perhaps committed.
LEMMA SaveMovesKept ==
    ASSUME KernelInv, NEW e \in Executions, pc[e] = "save", NEW place \in AfterSave,
           pc' = [pc EXCEPT ![e] = place], then' = [then EXCEPT ![e] = "observe"],
           UNCHANGED <<token, mem, count, spent, dispatches>>,
           \/ Commit(e) /\ place = then[e]
           \/ /\ ledger' = ledger \/ Commit(e)
              /\ then[e] \in MethodPlaces
              /\ place = "method"
    PROVE  LedgerInv' /\ \A f \in Executions : ExecutionInv(f)'
<1>1. /\ pc'[e] = place /\ OthersStay(e) /\ mem' = mem /\ count' = count /\ spent' = spent
      /\ dispatches' = dispatches /\ token' = token /\ place # "save"
  BY DEF OthersStay, KernelInv, TypeInv, TypeOK, AfterSave
<1>2. /\ At(e) = then[e] /\ At(e)' = place /\ (InMethod(e)' <=> place \in MethodPlaces)
      /\ InMethod(e)' <=> InMethod(e)
  BY <1>1 DEF At, InMethod, MethodPlaces
<1>3. CopyInv(e) /\ FenceInv(e) /\ MethodInv(e)
  BY Typed DEF ExecutionInv
<1>4. /\ Commit(e) => /\ token = e /\ ledger' = mem[e] /\ Checkpoint(ledger, mem[e], then[e])
                      /\ mem[e].revision \in Nat
      /\ ledger \in KernelState /\ mem[e] \in KernelState /\ then[e] \in AfterSave
      /\ ledger.revision \in Int /\ mem[e].revision \in Int /\ spent \in Nat /\ count[e] \in Nat
      /\ ExecutionInv(e)
  BY CommitFacts, Typed, StateFields
<1>5. LedgerInv'
  <2>1. ledger' = ledger \/ Commit(e)
    OBVIOUS
  <2>2. \A a \in Actions : dispatches'[a] = dispatches[a]
    BY <1>1
  <2> QED
    BY <1>1, <1>4, <2>1, <2>2, LedgerKept
<1>6. \A f \in Executions \ {e} : ExecutionInv(f)'
  <2>1. ASSUME NEW f \in Executions \ {e}, InMethod(f)
        PROVE  ~InMethod(e)' /\ (token' = e => At(e)' \notin Loop)
    <3>1. ~InMethod(e) /\ (token = e => At(e) \notin Loop)
      BY <2>1, Typed DEF ExecutionInv, MethodInv
    <3> QED
      BY <1>1, <1>2, <3>1 DEF InMethod
  <2> QED
    BY <1>1, <2>1, OthersKept
<1>7. place = "method" => count[e] > 0
  BY <1>2, <1>3 DEF CopyInv, MethodPlaces
<1>8. CopyInv(e)'
  BY <1>1, <1>2, <1>3, <1>7 DEF CopyInv, MethodPlaces, Loop, AfterSave
<1>9. FenceInv(e)'
  <2> SUFFICES ASSUME token = e PROVE FenceInv(e)'
    BY <1>1 DEF FenceInv
  <2>1. CASE Commit(e)
    <3>1. ASSUME place = "authorize"
          PROVE  spent + Cost[mem[e].pending] <= Charge(mem[e]) /\ dispatches[mem[e].pending] = 0
      <4>1. then[e] = "authorize" /\ ledger.pending = NoAction
        BY <1>4, <2>1, <3>1, CheckpointFields
      <4>2. /\ mem[e].pending \in Unattempted(ledger) /\ mem[e].reserved = Cost[mem[e].pending]
            /\ mem[e].used = ledger.used
        BY <1>4, <2>1, <4>1, CheckpointFields
      <4>3. ledger.reserved = 0 /\ spent <= Charge(ledger)
        BY <4>1 DEF KernelInv, LedgerInv, ValidState
      <4>4. Cost[mem[e].pending] \in Nat /\ ledger.used \in Nat
        BY <1>4, <4>2, ChargeType, StateFields DEF Unattempted
      <4>5. spent + Cost[mem[e].pending] <= Charge(mem[e])
        BY <1>4, <4>2, <4>3, <4>4 DEF Charge
      <4>6. dispatches[mem[e].pending] = 0
        BY <4>2 DEF KernelInv, LedgerInv, Unattempted
      <4> QED
        BY <4>5, <4>6
    <3>2. Charge(mem[e])' = Charge(mem[e])
      BY <1>1 DEF Charge
    <3> QED
      BY <1>1, <1>4, <2>1, <3>1, <3>2 DEF FenceInv
  <2>2. CASE ledger' = ledger /\ place = "method"
    BY <1>1, <1>3, <1>4, <2>2 DEF FenceInv
  <2> QED
    BY <2>1, <2>2
<1>10. MethodInv(e)'
  <2> SUFFICES ASSUME InMethod(e), place \in MethodPlaces PROVE MethodInv(e)'
    BY <1>2 DEF MethodInv
  <2>1. /\ ledger.pending = mem[e].pending /\ spent <= Charge(mem[e])
        /\ At(e) = "call" => spent + Cost[mem[e].pending] <= Charge(mem[e])
        /\ \A f \in Executions \ {e} : ~InMethod(f) /\ (token = f => At(f) \notin Loop)
    BY <1>3 DEF MethodInv
  <2>2. ledger'.pending = mem[e].pending
    BY <1>4, <2>1
  <2>3. place = "call" => ledger' = mem[e] /\ At(e) = "call"
    BY <1>2, <1>4
  <2>4. \A f \in Executions \ {e} : ~InMethod(f)' /\ (token' = f => At(f)' \notin Loop)
    BY <1>1, <2>1 DEF OthersStay, At, InMethod
  <2>5. Charge(mem[e])' = Charge(mem[e]) /\ Charge(ledger)' = Charge(ledger')
    BY <1>1 DEF Charge
  <2> QED
    BY <1>1, <1>2, <1>7, <2>1, <2>2, <2>3, <2>4, <2>5 DEF MethodInv
<1>11. StoredInv(e)'
  <2> SUFFICES ASSUME place = "returned" PROVE StoredInv(e)'
    BY <1>1 DEF StoredInv
  <2>1. ledger' = mem[e] /\ then[e] = "returned"
    BY <1>4
  <2> QED
    BY <1>1, <1>2, <1>3, <2>1 DEF StoredInv, CopyInv
<1> QED
  BY <1>5, <1>6, <1>8, <1>9, <1>10, <1>11 DEF ExecutionInv

\* So do the outcomes of a save.
LEMMA StoreKept ==
    ASSUME KernelInv, NEW e \in Executions,
           SaveCommits(e) \/ SaveRefused(e) \/ SaveFails(e)
    PROVE  LedgerInv' /\ \A f \in Executions : ExecutionInv(f)'
<1>1. then[e] \in AfterSave /\ "method" \in AfterSave
  BY Typed DEF AfterSave
<1>2. CASE SaveCommits(e)
  BY <1>1, <1>2, SaveMovesKept DEF SaveCommits, Commit, Goto
<1>3. ASSUME pc[e] = "save", SaveRaises(e), UNCHANGED <<token, spent, dispatches>>,
             ledger' = ledger \/ Commit(e)
      PROVE  LedgerInv' /\ \A f \in Executions : ExecutionInv(f)'
  <2>1. CASE then[e] \in MethodPlaces
    BY <1>1, <1>3, <2>1, SaveMovesKept DEF SaveRaises, Goto, MethodPlaces
  <2>2. CASE then[e] \notin MethodPlaces
    BY <1>3, <2>2, EndKept DEF SaveRaises, Final, MethodPlaces
  <2> QED
    BY <2>1, <2>2
<1>4. CASE SaveRefused(e)
  BY <1>3, <1>4 DEF SaveRefused, storeVars
<1>5. CASE SaveFails(e)
  BY <1>3, <1>5 DEF SaveFails, Commit
<1> QED
  BY <1>2, <1>4, <1>5

\* So does a crash, even between the commit of an authorization and its answer.
LEMMA CrashKept ==
    ASSUME KernelInv, NEW e \in Executions, Crash(e)
    PROVE  LedgerInv' /\ \A f \in Executions : ExecutionInv(f)'
<1>1. End(e, "ended") /\ ledger' = ledger /\ token' = token /\ spent' = spent
  BY DEF Crash
<1>2. CASE dispatches' = dispatches
  BY <1>1, <1>2, EndKept DEF Final
<1>3. CASE /\ pc[e] = "authorize" /\ Authorizes(e)
           /\ dispatches' = [dispatches EXCEPT ![mem[e].pending] = @ + 1]
  BY <1>1, <1>3, AuthorizeFacts, EndKept DEF Final
<1> QED
  BY <1>2, <1>3 DEF Crash

\* Initially there is nothing to cover and nobody at work.
LEMMA InitKernelInv == Init => KernelInv
<1> SUFFICES ASSUME Init PROVE KernelInv
  OBVIOUS
<1>1. TypeInv
  BY InitType
<1>2. LedgerInv
  <2>1. ledger = Absent /\ spent = 0 /\ dispatches = [a \in Actions |-> 0]
    BY DEF Init
  <2>2. IsFiniteSet(ledger.completed) /\ Cardinality(ledger.completed) = 0
    BY <2>1, AbsentFields, FS_EmptySet
  <2>3. ValidState(ledger)
    BY <2>1, <2>2, AbsentFields, LimitsAssumption DEF ValidState, Remaining, DecisionsUsed
  <2> QED
    BY <2>1, <2>2, <2>3, AbsentFields DEF LedgerInv, Charge
<1>3. ASSUME NEW e \in Executions PROVE ExecutionInv(e)
  <2>1. pc[e] = "new" /\ At(e) = "new"
    BY DEF Init, At
  <2> QED
    BY <2>1 DEF ExecutionInv, CopyInv, FenceInv, MethodInv, StoredInv, InMethod, MethodPlaces, Loop, AfterSave
<1> QED
  BY <1>1, <1>2, <1>3 DEF KernelInv

\* Every step keeps the invariant.
LEMMA NextKernelInv == KernelInv /\ [Next]_vars => KernelInv'
<1> SUFFICES ASSUME KernelInv, [Next]_vars PROVE KernelInv'
  OBVIOUS
<1>1. TypeInv'
  BY NextType DEF KernelInv
<1>2. ASSUME NEW e \in Executions, Finish(e)
      PROVE  LedgerInv' /\ \A f \in Executions : ExecutionInv(f)'
  BY <1>2, EndKept DEF Finish, storeVars, Final
<1>3. ASSUME UNCHANGED <<storeVars, executionVars, spent, dispatches>>
      PROVE  LedgerInv' /\ \A f \in Executions : ExecutionInv(f)'
  <2>1. /\ ledger' = ledger /\ token' = token /\ pc' = pc /\ mem' = mem /\ then' = then
        /\ count' = count /\ spent' = spent /\ dispatches' = dispatches
    BY <1>3 DEF storeVars, executionVars
  <2>2. LedgerInv'
    BY <2>1 DEF KernelInv, LedgerInv, ValidState, Remaining, DecisionsUsed, Charge
  <2>3. \A f \in Executions : (At(f)' = At(f) /\ (InMethod(f)' <=> InMethod(f)))
    BY <2>1 DEF At, InMethod
  <2>4. \A f \in Executions : Charge(mem[f])' = Charge(mem[f]) /\ Charge(ledger)' = Charge(ledger)
    BY <2>1 DEF Charge
  <2>5. ASSUME NEW f \in Executions PROVE ExecutionInv(f)'
    <3>1. CopyInv(f) /\ FenceInv(f) /\ MethodInv(f) /\ StoredInv(f)
      BY Typed DEF ExecutionInv
    <3>2. CopyInv(f)' /\ StoredInv(f)'
      BY <2>1, <2>3, <3>1 DEF CopyInv, StoredInv
    <3>3. FenceInv(f)'
      BY <2>1, <2>4, <3>1 DEF FenceInv
    <3>4. MethodInv(f)'
      BY <2>1, <2>3, <2>4, <3>1 DEF MethodInv
    <3> QED
      BY <3>2, <3>3, <3>4 DEF ExecutionInv
  <2> QED
    BY <2>2, <2>5
<1>4. CASE Environment
  BY <1>1, <1>3, <1>4 DEF Environment, LeaseMoves, RunCloses, DeadlinePasses, KernelInv
<1>5. CASE UNCHANGED vars
  BY <1>1, <1>3, <1>5 DEF vars, KernelInv
<1>6. ASSUME NEW e \in Executions, Acquire(e) \/ Step(e) \/ SaveFails(e) \/ Crash(e)
      PROVE  LedgerInv' /\ \A f \in Executions : ExecutionInv(f)'
  BY <1>2, <1>6, AcquireKept, LoadKept, LoopKept, AuthorizeKept, MethodKept, StoreKept, CrashKept DEF Step
<1> QED
  BY <1>1, <1>4, <1>5, <1>6 DEF Next, KernelInv

-------------------------------------------------------------------------------
(* The safety properties. *)

\* The inductive invariant is one.
LEMMA KernelInvariant == Spec => []KernelInv
  BY InitKernelInv, NextKernelInv, PTL DEF Spec

\* THEOREM.  What the provider took is covered by the durable ledger, and the
\* ledger stays within the frozen limit.
THEOREM SpendIsCovered == Spec => []SpendCovered
<1>1. KernelInv => SpendCovered
  <2> SUFFICES ASSUME KernelInv PROVE SpendCovered
    OBVIOUS
  <2>1. spent <= ledger.used + ledger.reserved /\ 0 <= Units - ledger.used - ledger.reserved
    BY DEF KernelInv, LedgerInv, ValidState, Remaining, Charge
  <2>2. ledger.used \in Nat /\ ledger.reserved \in Nat /\ Units \in Nat
    BY StateFields, LimitsAssumption DEF KernelInv, TypeInv, TypeOK
  <2> QED
    BY <2>1, <2>2 DEF SpendCovered
<1> QED
  BY <1>1, KernelInvariant, PTL

\* THEOREM.  A provider call in flight is the only one, and the ledger holds
\* the reservation that it is made on.
THEOREM CallsAreReserved == Spec => []OneReservedCall
<1>1. KernelInv => OneReservedCall
  <2> SUFFICES ASSUME KernelInv, NEW e \in Executions, pc[e] = "call"
               PROVE  /\ mem[e].pending = ledger.pending
                      /\ spent + Cost[ledger.pending] <= ledger.used + ledger.reserved
                      /\ \A f \in Executions : pc[f] = "call" => f = e
    BY DEF OneReservedCall
  <2>1. InMethod(e)
    BY DEF InMethod, At, MethodPlaces
  <2>2. MethodInv(e)
    BY Typed DEF ExecutionInv
  <2> QED
    BY <2>1, <2>2 DEF MethodInv, Charge, InMethod, At, MethodPlaces
<1> QED
  BY <1>1, KernelInvariant, PTL

\* THEOREM.  No action is dispatched twice.
THEOREM DispatchesAreFinal == Spec => []DispatchedOnce
<1>1. KernelInv => DispatchedOnce
  BY DEF KernelInv, LedgerInv, DispatchedOnce
<1> QED
  BY <1>1, KernelInvariant, PTL

\* THEOREM.  The validation of the store refuses no checkpoint that the
\* controller writes under its fence and with the next revision.
THEOREM ChecksAgree == Spec => []OwnSaveAccepted
<1>1. KernelInv => OwnSaveAccepted
  <2> SUFFICES ASSUME KernelInv, NEW e \in Executions,
                      pc[e] = "save", Fenced(e), mem[e].revision = ledger.revision + 1
               PROVE  Accepts(e)
    BY DEF OwnSaveAccepted
  <2>1. Checkpoint(ledger, mem[e], then[e])
    BY Typed DEF ExecutionInv, FenceInv, Fenced
  <2>2. ValidState(ledger) /\ IsFiniteSet(ledger.completed)
    BY DEF KernelInv, LedgerInv
  <2>3. ValidTransition(ledger, mem[e])
    BY <2>1, <2>2, Typed, CheckpointValid
  <2> QED
    BY <2>3 DEF Accepts
<1> QED
  BY <1>1, KernelInvariant, PTL

\* THEOREM.  What a controller returns is stored, and stays so.
THEOREM ReturnsAreStored == Spec => []ReturnedIsStored
<1>1. KernelInv => ReturnedIsStored
  BY DEF KernelInv, ExecutionInv, StoredInv, ReturnedIsStored
<1> QED
  BY <1>1, KernelInvariant, PTL

-------------------------------------------------------------------------------
(* The kernel implements the abstract account. *)

\* Every checkpoint is a step of the account, or none.
LEMMA CheckpointAccount ==
    ASSUME NEW old \in KernelState, NEW m \in KernelState, NEW place \in AfterSave,
           Checkpoint(old, m, place), ValidState(old)
    PROVE  /\ old.terminal = "none"
           /\ \/ /\ old.pending = NoAction /\ m.pending \in Actions \ old.completed
                 /\ Charge(m) = Charge(old) + Cost[m.pending] /\ Charge(m) <= Units
                 /\ m.completed = old.completed /\ m.terminal = "none"
              \/ /\ old.pending # NoAction /\ m.pending = old.pending
                 /\ Charge(m) = Charge(old) + Cost[m.pending] /\ Charge(m) <= Units
                 /\ m.completed = old.completed /\ m.terminal = "none"
              \/ /\ old.pending # NoAction /\ m.pending = NoAction
                 /\ m.completed = old.completed \cup {old.pending}
                 /\ Charge(m) = Charge(old) /\ m.terminal = "none"
              \/ /\ Charge(m) = Charge(old) /\ m.pending = old.pending
                 /\ m.completed = old.completed
<1>1. PICK k \in KernelState : Change(old, k, place) /\ m = [k EXCEPT !.revision = @ + 1]
  BY DEF Checkpoint
<1>2. /\ m.used = k.used /\ m.reserved = k.reserved /\ m.pending = k.pending
      /\ m.completed = k.completed /\ m.terminal = k.terminal
  BY <1>1, NextFields
<1>3. /\ old.used \in Nat /\ old.reserved \in Nat /\ Units \in Nat
      /\ old.terminal = "none" /\ (old.pending = NoAction => old.reserved = 0)
  BY <1>1, StateFields, LimitsAssumption, ChangeFields DEF ValidState
<1>4. CASE place = "authorize"
  <2>1. /\ old.pending = NoAction /\ m.pending \in Actions \ old.completed
        /\ m.reserved = Cost[m.pending] /\ m.used = old.used
        /\ m.completed = old.completed /\ m.terminal = "none"
        /\ Cost[m.pending] <= Remaining(old)
    BY <1>1, <1>2, <1>4, ChangeFields DEF Unattempted, Fits
  <2>2. Cost[m.pending] \in Nat
    BY <2>1, ChargeType
  <2>3. Charge(m) = Charge(old) + Cost[m.pending] /\ Charge(m) <= Units
    BY <1>3, <2>1, <2>2 DEF Charge, Remaining
  <2> QED
    BY <1>3, <2>1, <2>3
<1>5. CASE place = "call"
  <2>1. /\ old.pending \in Actions /\ m.pending = old.pending
        /\ m.completed = old.completed /\ m.terminal = "none" /\ m.used = old.used
        /\ \/ m.reserved = old.reserved
           \/ /\ m.reserved = old.reserved + Cost[old.pending]
              /\ Cost[old.pending] <= Remaining(old)
    BY <1>1, <1>2, <1>5, ChangeFields DEF Change
  <2>2. Cost[old.pending] \in Nat /\ old.pending # NoAction
    BY <2>1, ChargeType
  <2>3. \/ Charge(m) = Charge(old)
        \/ Charge(m) = Charge(old) + Cost[old.pending] /\ Charge(m) <= Units
    BY <1>3, <2>1, <2>2 DEF Charge, Remaining
  <2> QED
    BY <1>3, <2>1, <2>2, <2>3
<1>6. CASE place \in {"observe", "exhausted"}
  <2>1. /\ m.pending = NoAction /\ m.reserved = 0 /\ m.terminal = "none"
        /\ \/ old = Absent /\ k = Absent
           \/ /\ old.pending \in Actions /\ m.used = old.used + old.reserved
              /\ m.completed = old.completed \cup {old.pending}
    BY <1>1, <1>2, <1>6, ChangeFields
  <2>2. CASE old = Absent /\ k = Absent
    BY <1>2, <1>3, <2>2, AbsentFields DEF Charge
  <2>3. CASE /\ old.pending \in Actions /\ m.used = old.used + old.reserved
             /\ m.completed = old.completed \cup {old.pending}
    <3>1. Charge(m) = Charge(old)
      BY <1>3, <2>1, <2>3 DEF Charge
    <3> QED
      BY <1>3, <2>1, <2>3, <3>1, ChargeType
  <2> QED
    BY <2>1, <2>2, <2>3
<1>7. CASE place \in {"unsure", "method", "returned"}
  BY <1>1, <1>2, <1>3, <1>7, ChangeFields DEF Charge
<1> QED
  BY <1>4, <1>5, <1>6, <1>7 DEF AfterSave

\* Every step is a step of the account, or leaves it alone.
LEMMA AccountStep == KernelInv /\ [Next]_vars => [Account!Next]_(Account!accountVars)
<1> SUFFICES ASSUME KernelInv, [Next]_vars PROVE [Account!Next]_(Account!accountVars)
  OBVIOUS
<1>1. ASSUME ledger' = ledger, spent' = spent PROVE UNCHANGED Account!accountVars
  BY <1>1 DEF Account!accountVars
<1>2. ASSUME NEW e \in Executions, Commit(e), spent' = spent
      PROVE  [Account!Next]_(Account!accountVars)
  <2>1. ledger' = mem[e] /\ Checkpoint(ledger, mem[e], then[e])
    BY <1>2, CommitFacts
  <2>2. ValidState(ledger) /\ ledger \in KernelState /\ mem[e] \in KernelState /\ then[e] \in AfterSave
    BY Typed DEF KernelInv, LedgerInv
  <2>3. /\ ledger.terminal = "none"
        /\ \/ /\ ledger.pending = NoAction /\ ledger'.pending \in Actions \ ledger.completed
              /\ Charge(ledger') = Charge(ledger) + Cost[ledger'.pending] /\ Charge(ledger') <= Units
              /\ ledger'.completed = ledger.completed /\ ledger'.terminal = "none"
           \/ /\ ledger.pending # NoAction /\ ledger'.pending = ledger.pending
              /\ Charge(ledger') = Charge(ledger) + Cost[ledger'.pending] /\ Charge(ledger') <= Units
              /\ ledger'.completed = ledger.completed /\ ledger'.terminal = "none"
           \/ /\ ledger.pending # NoAction /\ ledger'.pending = NoAction
              /\ ledger'.completed = ledger.completed \cup {ledger.pending}
              /\ Charge(ledger') = Charge(ledger) /\ ledger'.terminal = "none"
           \/ /\ Charge(ledger') = Charge(ledger) /\ ledger'.pending = ledger.pending
              /\ ledger'.completed = ledger.completed
    BY <2>1, <2>2, CheckpointAccount
  <2> QED
    BY <1>2, <2>3 DEF Charge, Account!Next, Account!Open, Account!Extend, Account!Close, Account!Seal,
                      Account!accountVars
<1>3. ASSUME NEW e \in Executions, Call(e) PROVE Account!Spend
  <2>1. pc[e] = "call" /\ ledger' = ledger /\ spent' = spent + Cost[mem[e].pending]
    BY <1>3 DEF Call, storeVars
  <2>2. InMethod(e)
    BY <2>1 DEF InMethod, At, MethodPlaces
  <2>3. ledger.pending = mem[e].pending /\ spent + Cost[mem[e].pending] <= Charge(ledger)
    BY <2>1, <2>2, Typed DEF ExecutionInv, MethodInv
  <2>4. ledger.pending # NoAction
    BY <2>2, OpenInMethod
  <2> QED
    BY <2>1, <2>3, <2>4 DEF Account!Spend, Charge
<1>4. ASSUME NEW e \in Executions,
             \/ Acquire(e) \/ Load(e) \/ Ready(e) \/ DeadlineStop(e) \/ NothingToDo(e)
             \/ \E a \in Actions : Reserve(e, a)
             \/ Authorize(e) \/ StopExhausted(e) \/ BeginAttempt(e) \/ MarkAmbiguous(e)
             \/ MethodReturns(e) \/ MethodExhausted(e) \/ MethodRaises(e)
             \/ SaveRefused(e) \/ Finish(e) \/ Crash(e)
      PROVE  ledger' = ledger /\ spent' = spent
  BY <1>4 DEF Acquire, Load, Ready, DeadlineStop, NothingToDo, Reserve, Authorize, StopExhausted,
              BeginAttempt, MarkAmbiguous, MethodReturns, MethodExhausted, MethodRaises,
              SaveRefused, Finish, Crash, storeVars
<1>5. ASSUME NEW e \in Executions, SaveCommits(e) \/ SaveFails(e)
      PROVE  spent' = spent /\ (ledger' = ledger \/ Commit(e))
  BY <1>5 DEF SaveCommits, SaveFails, Commit
<1>6. CASE Environment
  BY <1>1, <1>6 DEF Environment, LeaseMoves, RunCloses, DeadlinePasses, storeVars
<1>7. CASE UNCHANGED vars
  BY <1>1, <1>7 DEF vars, storeVars
<1> QED
  BY <1>1, <1>2, <1>3, <1>4, <1>5, <1>6, <1>7 DEF Next, Step, Method, Account!Next

\* THEOREM.  The kernel, with its crashes, superseded executions and uncertain
\* commits, implements the account.
THEOREM ImplementsAccount == Spec => AccountKept
<1>1. Init => Account!Init
  BY AbsentFields DEF Init, Account!Init
<1> QED
  BY <1>1, AccountStep, KernelInvariant, PTL DEF Spec, AccountKept, Account!Spec

===============================================================================
