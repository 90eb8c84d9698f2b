------------------------------- MODULE Delivery -------------------------------
(***************************************************************************)
(* What the presentation outbox promises for every source version: a       *)
(* request is worked on at most MaxAttempts times, delivery needs a stored *)
(* rendering, and a delivered or abandoned request stays so.  Several      *)
(* requests may advance in one step: a worker that looks for work also     *)
(* abandons whatever it finds exhausted.  Module PresentationJobs, with    *)
(* its leases, stale workers and user retries, implements this one.        *)
(***************************************************************************)
EXTENDS Naturals

CONSTANTS Sources, MaxAttempts

VARIABLES
    stage,      \* of each request
    tries,      \* how often it was started
    rendered    \* the sources whose presentation is stored

deliveryVars == <<stage, tries, rendered>>

Stages == {"none", "open", "closed", "delivered", "abandoned"}

Init ==
    /\ stage = [s \in Sources |-> "none"]
    /\ tries = [s \in Sources |-> 0]
    /\ rendered = {}

Requested(s) == stage[s] = "none" /\ stage'[s] = "open" /\ tries'[s] = tries[s]

Started(s) ==
    /\ stage[s] = "open" /\ stage'[s] = "open"
    /\ tries[s] < MaxAttempts
    /\ tries'[s] = tries[s] + 1

Delivered(s) ==
    /\ stage[s] = "open" /\ stage'[s] = "delivered"
    /\ s \in rendered
    /\ 0 < tries[s] /\ tries'[s] = tries[s]

Dropped(s) ==
    /\ stage[s] = "open" /\ stage'[s] \in {"closed", "abandoned"}
    /\ tries'[s] = tries[s]

\* A closed request may be opened again while there are attempts left.
Reopened(s) ==
    /\ stage[s] = "closed" /\ stage'[s] = "open"
    /\ tries[s] < MaxAttempts
    /\ tries'[s] = tries[s]

Kept(s) == stage'[s] = stage[s] /\ tries'[s] = tries[s]

\* A rendering is stored for a request that was started, and stays; it may
\* come late, from a worker that does not know the request is settled.
Next ==
    /\ \A s \in Sources :
          Requested(s) \/ Started(s) \/ Delivered(s) \/ Dropped(s) \/ Reopened(s) \/ Kept(s)
    /\ rendered \subseteq rendered'
    /\ \A s \in rendered' \ rendered : 0 < tries[s]

Spec == Init /\ [][Next]_deliveryVars
===============================================================================
