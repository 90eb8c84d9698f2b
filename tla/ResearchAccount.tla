---------------------------- MODULE ResearchAccount ----------------------------
(***************************************************************************)
(* What the research kernel promises about paid work (ARK-01, sections 6   *)
(* and "Durable dispatch and crash behavior"): capacity is charged before  *)
(* it is spent, a charge is never given back, one action is worked on at a *)
(* time and never twice, and a sealed account is charged no more.  Module  *)
(* ResearchKernel, with its crashes, fences and uncertain commits,         *)
(* implements this one.                                                    *)
(***************************************************************************)
EXTENDS Naturals

CONSTANTS
    Actions,   \* the paid actions a method may propose
    NoAction,
    Cost,      \* the capacity one attempt of an action takes
    Units      \* the frozen limit

VARIABLES
    charged,   \* capacity consumed, reserved or uncertain
    spent,     \* capacity that provider calls really took
    open,      \* the action that is being worked on
    closed,    \* the actions that were finished
    sealed     \* a stop has been recorded

accountVars == <<charged, spent, open, closed, sealed>>

Init ==
    /\ charged = 0
    /\ spent = 0
    /\ open = NoAction
    /\ closed = {}
    /\ sealed = FALSE

\* Work on an action starts with the charge of its first attempt.
Open(a) ==
    /\ ~sealed
    /\ open = NoAction
    /\ a \notin closed
    /\ charged + Cost[a] <= Units
    /\ charged' = charged + Cost[a]
    /\ open' = a
    /\ UNCHANGED <<spent, closed, sealed>>

\* Every further attempt is charged before it is made.
Extend ==
    /\ ~sealed
    /\ open # NoAction
    /\ charged + Cost[open] <= Units
    /\ charged' = charged + Cost[open]
    /\ UNCHANGED <<spent, open, closed, sealed>>

\* A provider call is covered by a charge of the open action; it may outlive
\* the seal, when its worker was superseded in the middle of it.
Spend ==
    /\ open # NoAction
    /\ spent + Cost[open] <= charged
    /\ spent' = spent + Cost[open]
    /\ UNCHANGED <<charged, open, closed, sealed>>

\* The outcome of the open action is recorded; its charge stays.
Close ==
    /\ ~sealed
    /\ open # NoAction
    /\ closed' = closed \cup {open}
    /\ open' = NoAction
    /\ UNCHANGED <<charged, spent, sealed>>

\* A stop, after which nothing is opened, charged or closed.  The action that
\* was open stays open, its charge with it: reconciliation is due.
Seal ==
    /\ ~sealed
    /\ sealed' = TRUE
    /\ UNCHANGED <<charged, spent, open, closed>>

Next == (\E a \in Actions : Open(a)) \/ Extend \/ Spend \/ Close \/ Seal

Spec == Init /\ [][Next]_accountVars
===============================================================================
