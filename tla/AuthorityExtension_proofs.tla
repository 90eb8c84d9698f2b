----------------------- MODULE AuthorityExtension_proofs -----------------------
(***************************************************************************)
(* That the ledger stays within its budgets and accounts for every call,   *)
(* that an attempt of unknown outcome stops all calls, and that success is *)
(* earned, for any number of requests and workers, any needs, budgets and  *)
(* faults.                                                                 *)
(***************************************************************************)
EXTENDS AuthorityExtension, TLAPS

\* A ledger within its budgets: what is reserved for the analysis and not yet used
\* still fits.
SoundLedger ==
    {l \in Ledger : /\ l.analysed <= l.reserved
                    /\ l.provider + l.reserved <= MaxProvider + l.analysed}
SoundDocument == {d \in Document : d.ledger \in SoundLedger \cup {NoLedger}}

TypeInv ==
    /\ TypeOK
    /\ row \in SoundDocument
    /\ copy \in [Workers -> SoundDocument]
    /\ read \in [Requests -> SoundDocument]

\* A ledger, even one that is out of date, shows nothing that is not stored.
Genuine(l) == l # NoLedger => l.observed \subseteq evidence /\ l.found \subseteq findings
Supported == findings = Needs /\ \A n \in Needs : <<n, "supporting">> \in evidence

EarnedInv ==
    /\ Genuine(row.ledger)
    /\ \A w \in Workers : Genuine(copy[w].ledger)
    /\ \A q \in Requests : Genuine(read[q].ledger)
    /\ \A w \in Workers : at[w] \in {"called", "answered"} => calls[attempt[w][1]] > 0
    /\ findings # {} => calls["analysis"] > 0
    /\ \A w \in Workers : at[w] = "composing" => Supported
    /\ \A w \in Workers : at[w] = "announcing" => composed
    /\ composed => Supported
    /\ extension.status = "succeeded" => composed

\* The attempt a worker has reserved and not made is in the ledger, beyond the calls.
RoomFor(k) ==
    /\ row.ledger # NoLedger
    /\ k = "search" => calls["search"] < row.ledger.search
    /\ k = "evidence" => calls["evidence"] + row.ledger.analysed < row.ledger.provider
    /\ k = "analysis" => calls["analysis"] < row.ledger.analysed

Unused == {NoLedger, Fresh}
Loaded == Place \ {"idle", "claimed", "loaded"}

\* What one worker relies on while nobody supersedes it.
WorkerOK(w) ==
    /\ at[w] \notin {"idle", "claimed"} => copy[w].status = "running"
    /\ at[w] \in Loaded => copy[w].ledger = row.ledger
    /\ at[w] = "reserved" => RoomFor(attempt[w][1])
    /\ at[w] \in {"reserved", "called"} =>
          row.ledger # NoLedger /\ row.ledger.pending = {attempt[w]}

AloneInv ==
    ~overwritten =>
        /\ \A v, w \in Workers : at[v] # "idle" /\ at[w] # "idle" => v = w
        /\ row.status = "paused" =>
              /\ \A w \in Workers : at[w] = "idle"
              /\ \A k \in Kinds : calls[k] = 0
              /\ row.ledger \in Unused
              /\ \A q \in Requests : read[q].status = "paused" /\ read[q].ledger \in Unused
        /\ \A w \in Workers : WorkerOK(w)
        /\ Accounted
--------------------------------------------------------------------------------
(***************************************************************************)
(* Ledgers and documents.                                                  *)
(***************************************************************************)
LEMMA FreshOK == Fresh \in SoundLedger /\ Fresh # NoLedger
  <1>1. Fresh \in Ledger
    BY BudgetAssumption DEF Fresh, Ledger
  <1> QED
    BY <1>1, BudgetAssumption, LedgerAssumption DEF SoundLedger, Fresh

\* A ledger in which nothing but sets of attempts, evidence and findings changed.
LEMMA SetsOK ==
    ASSUME NEW l \in SoundLedger
    PROVE  /\ l # NoLedger
           /\ \A a : [l EXCEPT !.pending = @ \ {a}] \in SoundLedger
           /\ \A E \in SUBSET Evidence : [l EXCEPT !.observed = @ \cup E] \in SoundLedger
           /\ \A F \in SUBSET Needs : [l EXCEPT !.found = @ \cup F] \in SoundLedger
  BY LedgerAssumption DEF SoundLedger, Ledger

LEMMA PlannedOK ==
    ASSUME NEW l \in SoundLedger, l.provider + Reservation <= MaxProvider
    PROVE  [l EXCEPT !.reserved = Reservation] \in SoundLedger
  BY BudgetAssumption DEF SoundLedger, Ledger

\* What is reserved is one attempt more, within the budget of its kind.
LEMMA ConsumedOK ==
    ASSUME NEW l \in SoundLedger, NEW k \in Kinds, ~Exhausted(l, k)
    PROVE  /\ NextAttempt(l, k) \in Kinds \X Nat /\ NextAttempt(l, k)[1] = k
           /\ Consumed(l, k) \in SoundLedger
           /\ Consumed(l, k).pending = l.pending \cup {NextAttempt(l, k)}
           /\ Consumed(l, k).observed = l.observed /\ Consumed(l, k).found = l.found
           /\ Consumed(l, k).search = l.search + IF k = "search" THEN 1 ELSE 0
           /\ Consumed(l, k).provider = l.provider + IF k = "search" THEN 0 ELSE 1
           /\ Consumed(l, k).analysed = l.analysed + IF k = "analysis" THEN 1 ELSE 0
  <1>1. /\ l \in Ledger /\ l.analysed <= l.reserved
        /\ l.provider + l.reserved <= MaxProvider + l.analysed
        /\ l.search \in Nat /\ l.provider \in Nat /\ l.reserved \in Nat /\ l.analysed \in Nat
        /\ l.search <= MaxSearch /\ l.provider <= MaxProvider /\ l.analysed <= Reservation
        /\ l.reserved \in {0, Reservation}
    BY BudgetAssumption DEF SoundLedger, Ledger
  <1>2. NextAttempt(l, k) \in Kinds \X Nat /\ NextAttempt(l, k)[1] = k
    BY <1>1 DEF NextAttempt
  <1>3. CASE k = "search"
    <2>1. l.search + 1 \in 0 .. MaxSearch /\ NextAttempt(l, k) \in Attempts
      BY <1>1, <1>3, BudgetAssumption DEF Exhausted, NextAttempt, Attempts
    <2>2. Consumed(l, k) = [search |-> l.search + 1, provider |-> l.provider,
                             reserved |-> l.reserved, analysed |-> l.analysed,
                             known |-> l.known \cup {NextAttempt(l, k)},
                             pending |-> l.pending \cup {NextAttempt(l, k)},
                             observed |-> l.observed, found |-> l.found]
      BY <1>1, <1>3 DEF Consumed, Ledger
    <2>3. Consumed(l, k) \in Ledger
      BY <1>1, <2>1, <2>2 DEF Ledger
    <2> QED
      BY <1>1, <1>2, <1>3, <2>1, <2>2, <2>3 DEF SoundLedger, Ledger
  <1>4. CASE k = "evidence"
    <2>1. /\ l.provider + 1 \in 0 .. MaxProvider /\ NextAttempt(l, k) \in Attempts
          /\ l.provider + 1 + l.reserved <= MaxProvider + l.analysed
      BY <1>1, <1>4, BudgetAssumption DEF Exhausted, NextAttempt, Attempts
    <2>2. Consumed(l, k) = [search |-> l.search, provider |-> l.provider + 1,
                             reserved |-> l.reserved, analysed |-> l.analysed,
                             known |-> l.known \cup {NextAttempt(l, k)},
                             pending |-> l.pending \cup {NextAttempt(l, k)},
                             observed |-> l.observed, found |-> l.found]
      BY <1>1, <1>4 DEF Consumed, Ledger
    <2>3. Consumed(l, k) \in Ledger
      BY <1>1, <2>1, <2>2 DEF Ledger
    <2> QED
      BY <1>1, <1>2, <1>4, <2>1, <2>2, <2>3 DEF SoundLedger, Ledger
  <1>5. CASE k = "analysis"
    <2>1. /\ l.provider + 1 \in 0 .. MaxProvider /\ NextAttempt(l, k) \in Attempts
          /\ l.analysed + 1 \in 0 .. Reservation /\ l.analysed + 1 <= l.reserved
          /\ l.provider + 1 + l.reserved <= MaxProvider + (l.analysed + 1)
      BY <1>1, <1>5, BudgetAssumption DEF Exhausted, NextAttempt, Attempts
    <2>2. Consumed(l, k) = [search |-> l.search, provider |-> l.provider + 1,
                             reserved |-> l.reserved, analysed |-> l.analysed + 1,
                             known |-> l.known \cup {NextAttempt(l, k)},
                             pending |-> l.pending \cup {NextAttempt(l, k)},
                             observed |-> l.observed, found |-> l.found]
      BY <1>1, <1>5 DEF Consumed, Ledger
    <2>3. Consumed(l, k) \in Ledger
      BY <1>1, <2>1, <2>2 DEF Ledger
    <2> QED
      BY <1>1, <1>2, <1>5, <2>1, <2>2, <2>3 DEF SoundLedger, Ledger
  <1> QED
    BY <1>3, <1>4, <1>5 DEF Kinds

LEMMA DocumentOK ==
    ASSUME NEW d \in SoundDocument
    PROVE  /\ d \in Document
           /\ d.ledger \in SoundLedger \cup {NoLedger}
           /\ \A l \in SoundLedger \cup {NoLedger} :
                 /\ [d EXCEPT !.ledger = l] \in SoundDocument
                 /\ [d EXCEPT !.ledger = l].ledger = l
                 /\ [d EXCEPT !.ledger = l].status = d.status
           /\ \A s \in {"paused", "running", "completed", "failed"} :
                 [d EXCEPT !.status = s] \in SoundDocument
           /\ \A t \in {"ready", "running", "completed", "failed"} :
                 [d EXCEPT !.task = t] \in SoundDocument
           /\ \A b \in BOOLEAN : [d EXCEPT !.progress = b] \in SoundDocument
           /\ \A s \in Stages : [d EXCEPT !.stage = s] \in SoundDocument
  BY DEF SoundDocument, Document, SoundLedger

LEMMA CreatedOK == Created \in SoundDocument /\ Created.ledger = NoLedger
  BY DEF Created, SoundDocument, Document, Stages
--------------------------------------------------------------------------------
(***************************************************************************)
(* The steps of a request.                                                 *)
(***************************************************************************)
\* What a request can do: read the row, save what it read, register or activate
\* the extension.
RequestStep(q) ==
    /\ UNCHANGED <<workerVars, composed, evidence, findings, calls>>
    /\ extension'.status \in {extension.status, "created", "active"}
    /\ \/ UNCHANGED <<rowVars, overwritten>>
       \/ /\ read' = read
          /\ overwritten' = (overwritten \/ row.status # "paused")
          /\ \/ row'.status = read[q].status /\ row'.ledger = Fresh
             \/ row'.status = "running" /\ row'.ledger = read[q].ledger
    /\ \/ read' = read
       \/ \E d \in SoundDocument : /\ read' = [read EXCEPT ![q] = d]
                                   /\ d.ledger = row.ledger
                                   /\ d.status \in {row.status, read[q].status}

LEMMA AdvanceOK ==
    ASSUME TypeInv, NEW q \in Requests, NEW s \in Step, Advance(q, s)
    PROVE  step' \in [Requests -> Step]
  BY DEF TypeInv, TypeOK, Advance

\* A request that reads the row.
LEMMA ReadingOK ==
    ASSUME TypeInv, NEW q \in Requests, NEW d \in SoundDocument,
           read' = [read EXCEPT ![q] = d]
    PROVE  read' \in [Requests -> SoundDocument] /\ read' \in [Requests -> Document]
  BY DocumentOK DEF TypeInv

\* A request that saves the run.
LEMMA SavingOK ==
    ASSUME TypeInv, NEW q \in Requests, NEW d \in SoundDocument, NEW s \in Step,
           SaveRun(q, d, s)
    PROVE  /\ row' \in SoundDocument /\ version' \in Nat /\ overwritten' \in BOOLEAN
           /\ step' \in [Requests -> Step]
           /\ \/ UNCHANGED <<rowVars, overwritten>>
              \/ row' = d /\ overwritten' = (overwritten \/ row.status # "paused")
  <1>1. CASE version = seen[q]
    <2>1. /\ row' = d /\ version' = version + 1 /\ Advance(q, s)
          /\ overwritten' = (overwritten \/ row.status # "paused")
      BY <1>1 DEF SaveRun
    <2> QED
      BY <2>1, AdvanceOK DEF TypeInv, TypeOK
  <1>2. CASE version # seen[q]
    <2>1. Advance(q, "refused") /\ UNCHANGED <<rowVars, overwritten>>
      BY <1>2 DEF SaveRun
    <2> QED
      BY <2>1, AdvanceOK DEF TypeInv, TypeOK, Step, rowVars
  <1> QED
    BY <1>1, <1>2

LEMMA RequestMoves ==
    ASSUME TypeInv, NEW q \in Requests, RequestNext(q)
    PROVE  TypeInv' /\ RequestStep(q)
  <1> USE DEF rowVars, storeVars, workerVars, requestVars, historyVars
  <1>0. /\ row \in SoundDocument /\ read[q] \in SoundDocument /\ row \in Document
        /\ read[q] \in Document /\ extension.status \in ExtensionStatus
        /\ extension \in [run : Requests \cup {NoRequest}, status : ExtensionStatus]
    BY DocumentOK DEF TypeInv, TypeOK
  <1>1. CASE Lookup(q)
    <2>1. step' \in [Requests -> Step]
      BY <1>1, AdvanceOK DEF Lookup, Step
    <2> QED
      BY <1>1, <2>1 DEF Lookup, TypeInv, TypeOK, RequestStep
  <1>2. CASE Register(q)
    <2>1. step' \in [Requests -> Step]
      BY <1>2, AdvanceOK DEF Register, Step
    <2>2. extension' \in [run : Requests \cup {NoRequest}, status : ExtensionStatus]
          /\ extension'.status = "created"
      BY <1>2 DEF Register, ExtensionStatus
    <2> QED
      BY <1>2, <2>1, <2>2 DEF Register, TypeInv, TypeOK, RequestStep
  <1>3. CASE RegisterLate(q)
    <2>1. step' \in [Requests -> Step]
      BY <1>3, AdvanceOK DEF RegisterLate, Step
    <2> QED
      BY <1>3, <2>1 DEF RegisterLate, TypeInv, TypeOK, RequestStep
  <1>4. CASE Describe(q)
    <2>1. step' \in [Requests -> Step]
      BY <1>4, AdvanceOK DEF Describe, Step
    <2>2. read' = [read EXCEPT ![q] = row]
      BY <1>4 DEF Describe
    <2>3. read' \in [Requests -> SoundDocument] /\ read' \in [Requests -> Document]
      BY <1>0, <2>2, ReadingOK
    <2>4. RequestStep(q)
      BY <1>0, <1>4, <2>2 DEF Describe, RequestStep
    <2> QED
      BY <1>4, <2>1, <2>3, <2>4 DEF Describe, TypeInv, TypeOK
  <1>5. CASE ReadVersion(q)
    <2>1. step' \in [Requests -> Step]
      BY <1>5, AdvanceOK DEF ReadVersion, Step
    <2>2. seen' \in [Requests -> Nat]
      BY <1>5 DEF ReadVersion, TypeInv, TypeOK
    <2> QED
      BY <1>5, <2>1, <2>2 DEF ReadVersion, TypeInv, TypeOK, RequestStep
  <1>6. CASE SaveLedger(q)
    <2> DEFINE d == [read[q] EXCEPT !.ledger = Fresh]
    <2>1. d \in SoundDocument /\ d.ledger = Fresh /\ d.status = read[q].status
      BY <1>0, FreshOK, DocumentOK
    <2>2. SaveRun(q, d, "activating")
      BY <1>6 DEF SaveLedger
    <2> HIDE DEF d
    <2>3. /\ row' \in SoundDocument /\ version' \in Nat /\ overwritten' \in BOOLEAN
          /\ step' \in [Requests -> Step]
          /\ \/ UNCHANGED <<rowVars, overwritten>>
             \/ row' = d /\ overwritten' = (overwritten \/ row.status # "paused")
      BY <2>1, <2>2, SavingOK DEF Step
    <2>4. RequestStep(q)
      BY <1>6, <2>1, <2>3 DEF SaveLedger, RequestStep
    <2>5. row' \in Document
      BY <2>3, DocumentOK
    <2> QED
      BY <1>6, <2>3, <2>4, <2>5 DEF SaveLedger, TypeInv, TypeOK
  <1>7. CASE ReadRun(q)
    <2>1. step' \in [Requests -> Step]
      BY <1>7, AdvanceOK DEF ReadRun, Step
    <2>2. read' = read \/ read' = [read EXCEPT ![q] = row]
      BY <1>7 DEF ReadRun
    <2>3. read' \in [Requests -> SoundDocument] /\ read' \in [Requests -> Document]
      BY <1>0, <2>2, ReadingOK DEF TypeInv, TypeOK
    <2>4. RequestStep(q)
      BY <1>0, <1>7, <2>2 DEF ReadRun, RequestStep
    <2> QED
      BY <1>7, <2>1, <2>3, <2>4 DEF ReadRun, TypeInv, TypeOK
  <1>8. CASE ReadResults(q)
    <2> DEFINE l == [read[q] EXCEPT !.ledger = row.ledger]
               d == [l EXCEPT !.progress = row.progress]
    <2>1. step' \in [Requests -> Step]
      BY <1>8, AdvanceOK DEF ReadResults, Step
    <2>2. /\ l \in SoundDocument /\ l.ledger = row.ledger /\ l.status = read[q].status
          /\ l \in Document /\ row.progress \in BOOLEAN
      BY <1>0, DocumentOK DEF Document
    <2>3. d \in SoundDocument /\ d.ledger = row.ledger /\ d.status = read[q].status
      <3> HIDE DEF l
      <3> QED
        BY <2>2, DocumentOK DEF Document
    <2>4. read' = [read EXCEPT ![q] = d]
      BY <1>8, <1>0 DEF ReadResults, TypeInv, TypeOK, Document
    <2> HIDE DEF l, d
    <2>5. read' \in [Requests -> SoundDocument] /\ read' \in [Requests -> Document]
      BY <2>3, <2>4, ReadingOK
    <2>6. RequestStep(q)
      BY <1>8, <2>3, <2>4 DEF ReadResults, RequestStep
    <2> QED
      BY <1>8, <2>1, <2>5, <2>6 DEF ReadResults, TypeInv, TypeOK
  <1>9. CASE Resume(q)
    <2> DEFINE d == [read[q] EXCEPT !.status = "running"]
    <2>1. d \in SoundDocument /\ d.ledger = read[q].ledger /\ d.status = "running"
      BY <1>0, DocumentOK DEF Document
    <2>2. SaveRun(q, d, "marking")
      BY <1>9 DEF Resume
    <2> HIDE DEF d
    <2>3. /\ row' \in SoundDocument /\ version' \in Nat /\ overwritten' \in BOOLEAN
          /\ step' \in [Requests -> Step]
          /\ \/ UNCHANGED <<rowVars, overwritten>>
             \/ row' = d /\ overwritten' = (overwritten \/ row.status # "paused")
      BY <2>1, <2>2, SavingOK DEF Step
    <2>4. RequestStep(q)
      BY <1>9, <2>1, <2>3 DEF Resume, RequestStep
    <2>5. row' \in Document
      BY <2>3, DocumentOK
    <2> QED
      BY <1>9, <2>3, <2>4, <2>5 DEF Resume, TypeInv, TypeOK
  <1>10. CASE MarkActive(q)
    <2>1. step' \in [Requests -> Step]
      BY <1>10, AdvanceOK DEF MarkActive, Step
    <2>2. extension' \in [run : Requests \cup {NoRequest}, status : ExtensionStatus]
          /\ extension'.status = "active"
      BY <1>0, <1>10 DEF MarkActive, ExtensionStatus
    <2> QED
      BY <1>10, <2>1, <2>2 DEF MarkActive, TypeInv, TypeOK, RequestStep
  <1>11. CASE Die(q)
    <2>1. step' \in [Requests -> Step] /\ faults' \in Nat
      BY <1>11, AdvanceOK DEF Die, Fault, Step, TypeInv, TypeOK
    <2> QED
      BY <1>11, <2>1 DEF Die, TypeInv, TypeOK, RequestStep
  <1> QED
    BY <1>1, <1>2, <1>3, <1>4, <1>5, <1>6, <1>7, <1>8, <1>9, <1>10, <1>11 DEF RequestNext
--------------------------------------------------------------------------------
(***************************************************************************)
(* The steps of a worker.                                                  *)
(***************************************************************************)
\* A worker moves itself alone.
Private(w) ==
    /\ UNCHANGED requestVars
    /\ \A v \in Workers \ {w} :
          at'[v] = at[v] /\ copy'[v] = copy[v] /\ attempt'[v] = attempt[v]

Claims(w) ==
    /\ at[w] = "idle" /\ at'[w] = "claimed" /\ row.status = "running"
    /\ UNCHANGED <<row, copy, attempt, storeVars, calls>>
    /\ (overwritten => overwritten')
    /\ (\A v \in Workers : at[v] = "idle") \/ overwritten'

Loads(w) ==
    /\ UNCHANGED <<row, attempt, storeVars, calls, overwritten>>
    /\ copy'[w].ledger = row.ledger
    /\ \/ at[w] = "claimed" /\ at'[w] = "idle"
       \/ at[w] = "claimed" /\ at'[w] = "loaded" /\ copy'[w].status = "running"
       \/ at[w] = "loaded" /\ at'[w] = "start" /\ copy'[w].status = copy[w].status

\* The ledger is updated under the row lock, the persister's copy with it.
Updates(w, l) ==
    /\ row'.ledger = l /\ row'.status = row.status
    /\ copy'[w].ledger = l /\ copy'[w].status = copy[w].status

\* An update that reserves and completes nothing.
Annotates(w, l) ==
    /\ at[w] \in Loaded /\ row.ledger # NoLedger /\ Updates(w, l)
    /\ l.search = row.ledger.search /\ l.provider = row.ledger.provider
    /\ l.analysed = row.ledger.analysed /\ l.pending = row.ledger.pending
    /\ l.observed \subseteq row.ledger.observed \cup evidence
    /\ l.found \subseteq row.ledger.found \cup findings

\* A checkpoint writes the copy of the persister.
Writes(w) ==
    /\ at[w] \in Loaded /\ row' = copy'[w] /\ copy'[w].ledger = copy[w].ledger
    /\ \/ copy'[w].status = copy[w].status
       \/ copy'[w].status \in {"completed", "failed"} /\ at'[w] = "idle"

Ordinary(w) ==
    /\ at[w] # "idle"
    /\ at'[w] = "idle" \/ at[w] \in Loaded
    /\ at'[w] \notin {"loaded", "claimed", "reserved", "called", "answered",
                      "composing", "announcing"}
    /\ UNCHANGED <<composed, evidence, findings, calls, attempt, overwritten>>
    /\ extension'.status = extension.status \/ extension'.status # "succeeded"
    /\ \/ UNCHANGED <<row, copy>>
       \/ \E l \in SoundLedger : Annotates(w, l)
       \/ Writes(w)

LEMMA GotoOK ==
    ASSUME TypeInv, NEW w \in Workers, NEW p \in Place, Goto(w, p)
    PROVE  /\ at' \in [Workers -> Place] /\ at'[w] = p
           /\ \A v \in Workers \ {w} : at'[v] = at[v]
  BY DEF TypeInv, TypeOK, Goto

LEMMA AtomicOK ==
    ASSUME TypeInv, NEW w \in Workers, NEW l \in SoundLedger, NEW p \in Place,
           Atomic(w, l, p)
    PROVE  /\ row' \in SoundDocument /\ row' \in Document
           /\ copy' \in [Workers -> SoundDocument] /\ copy' \in [Workers -> Document]
           /\ at' \in [Workers -> Place] /\ at'[w] = p
           /\ \A v \in Workers \ {w} : at'[v] = at[v] /\ copy'[v] = copy[v]
           /\ Updates(w, l)
           /\ UNCHANGED <<version, expected, storeVars, requestVars, historyVars, faults>>
  <1>1. /\ row \in SoundDocument /\ copy \in [Workers -> SoundDocument]
        /\ copy[w] \in SoundDocument
    BY DEF TypeInv
  <1>2. /\ row' = [row EXCEPT !.ledger = l] /\ Goto(w, p)
        /\ copy' = [copy EXCEPT ![w] = [copy[w] EXCEPT !.ledger = l]]
        /\ UNCHANGED <<version, expected, storeVars, requestVars, historyVars, faults>>
    BY DEF Atomic
  <1>3. row' \in SoundDocument /\ row' \in Document /\ row'.ledger = l /\ row'.status = row.status
    BY <1>1, <1>2, DocumentOK
  <1> DEFINE d == [copy[w] EXCEPT !.ledger = l]
  <1>4. d \in SoundDocument /\ d \in Document /\ d.ledger = l /\ d.status = copy[w].status
    BY <1>1, DocumentOK
  <1>5. copy' = [copy EXCEPT ![w] = d]
    BY <1>2
  <1> HIDE DEF d
  <1>6. /\ copy' \in [Workers -> SoundDocument] /\ copy'[w] = d
        /\ \A v \in Workers \ {w} : copy'[v] = copy[v]
    BY <1>1, <1>4, <1>5
  <1>7. copy' \in [Workers -> Document]
    BY <1>6, DocumentOK
  <1> QED
    BY <1>2, <1>3, <1>4, <1>6, <1>7, GotoOK DEF Updates

LEMMA TechnicalOK ==
    ASSUME TypeInv, TechnicalError
    PROVE  /\ extension' \in [run : Requests \cup {NoRequest}, status : ExtensionStatus]
           /\ extension'.status \in {extension.status, "technical_error"}
  BY DEF TypeInv, TypeOK, TechnicalError, ExtensionStatus

LEMMA WrittenOK ==
    ASSUME TypeInv, NEW w \in Workers, NEW d \in SoundDocument, Written(w, d)
    PROVE  /\ row' = d /\ row' \in SoundDocument /\ row' \in Document /\ version' \in Nat
           /\ copy' \in [Workers -> SoundDocument] /\ copy' \in [Workers -> Document]
           /\ copy'[w] = d /\ \A v \in Workers \ {w} : copy'[v] = copy[v]
           /\ expected' \in [Workers -> Nat]
  <1>1. /\ row' = d /\ copy' = [copy EXCEPT ![w] = d] /\ version' = version + 1
        /\ expected' = [expected EXCEPT ![w] = version + 1]
    BY DEF Written
  <1>2. copy \in [Workers -> SoundDocument] /\ version \in Nat /\ expected \in [Workers -> Nat]
    BY DEF TypeInv, TypeOK
  <1>3. copy' \in [Workers -> SoundDocument] /\ copy'[w] = d
        /\ \A v \in Workers \ {w} : copy'[v] = copy[v]
    BY <1>1, <1>2
  <1>4. version' \in Nat /\ expected' \in [Workers -> Nat]
    BY <1>1, <1>2
  <1>5. row' \in SoundDocument /\ row' \in Document
    BY <1>1, DocumentOK
  <1>6. copy' \in [Workers -> Document]
    BY <1>3, DocumentOK
  <1> QED
    BY <1>1, <1>3, <1>4, <1>5, <1>6

\* What a checkpoint, taken or refused, leaves well typed.
CheckpointTypes ==
    /\ row' \in SoundDocument /\ row' \in Document /\ version' \in Nat
    /\ copy' \in [Workers -> SoundDocument] /\ copy' \in [Workers -> Document]
    /\ expected' \in [Workers -> Nat] /\ at' \in [Workers -> Place] /\ faults' \in Nat
    /\ extension' \in [run : Requests \cup {NoRequest}, status : ExtensionStatus]

LEMMA UnwrittenOK ==
    ASSUME TypeInv, NEW w \in Workers, NEW p \in Place, Goto(w, p),
           UNCHANGED <<rowVars, copy, expected>>,
           faults' = faults \/ faults' = faults + 1,
           extension' = extension \/ TechnicalError
    PROVE  /\ CheckpointTypes /\ at'[w] = p
           /\ \A v \in Workers \ {w} : at'[v] = at[v]
           /\ extension'.status \in {extension.status, "technical_error"}
  BY GotoOK, TechnicalOK DEF TypeInv, TypeOK, CheckpointTypes, rowVars

LEMMA SaveOK ==
    ASSUME TypeInv, NEW w \in Workers, NEW d \in SoundDocument, NEW p \in Place,
           Save(w, d, p)
    PROVE  /\ CheckpointTypes
           /\ \A v \in Workers \ {w} : at'[v] = at[v] /\ copy'[v] = copy[v]
           /\ extension'.status \in {extension.status, "technical_error"}
           /\ \/ UNCHANGED <<row, copy>> /\ at'[w] = "idle"
              \/ row' = d /\ copy'[w] = d /\ at'[w] = p
  <1>1. CASE Written(w, d) /\ Goto(w, p) /\ UNCHANGED <<extension, faults>>
    BY <1>1, WrittenOK, GotoOK DEF CheckpointTypes, TypeInv, TypeOK
  <1>2. CASE /\ IF handled[w] THEN TechnicalError ELSE UNCHANGED extension
             /\ Goto(w, "idle") /\ UNCHANGED <<rowVars, copy, expected, faults>>
    BY <1>2, UnwrittenOK DEF Place, rowVars
  <1>3. CASE /\ faults' = faults + 1 /\ Goto(w, "idle")
             /\ UNCHANGED <<rowVars, copy, expected, extension>>
    BY <1>3, UnwrittenOK DEF Place, rowVars
  <1> QED
    BY <1>1, <1>2, <1>3 DEF Save

\* The other steps of a worker: those of one external attempt, and of the verdict.
Counters(l, m) ==
    m.search = l.search /\ m.provider = l.provider /\ m.analysed = l.analysed

Reserves(w, k) ==
    /\ at[w] \in Loaded /\ at'[w] = "reserved" /\ attempt'[w][1] = k
    /\ row.ledger \in SoundLedger /\ row.ledger.pending = {}
    /\ UNCHANGED <<storeVars, calls, overwritten>>
    /\ \E l \in SoundLedger :
          /\ Updates(w, l) /\ l.pending = {attempt'[w]}
          /\ l.observed = row.ledger.observed /\ l.found = row.ledger.found
          /\ l.search = row.ledger.search + IF k = "search" THEN 1 ELSE 0
          /\ l.provider = row.ledger.provider + IF k = "search" THEN 0 ELSE 1
          /\ l.analysed = row.ledger.analysed + IF k = "analysis" THEN 1 ELSE 0

Calls(w) ==
    /\ at[w] = "reserved" /\ at'[w] = "called"
    /\ calls' = [calls EXCEPT ![attempt[w][1]] = @ + 1]
    /\ UNCHANGED <<row, copy, attempt, storeVars, overwritten>>

Completes(w) ==
    /\ at[w] = "called" /\ at'[w] \in {"answered", "stage", "analysing", "broken"}
    /\ row.ledger \in SoundLedger
    /\ UNCHANGED <<storeVars, attempt, calls, overwritten>>
    /\ \E l \in SoundLedger :
          /\ Updates(w, l) /\ Counters(row.ledger, l)
          /\ l.pending = row.ledger.pending \ {attempt[w]}
          /\ l.observed = row.ledger.observed /\ l.found = row.ledger.found

Keeps(w) ==
    /\ at[w] = "answered" /\ at'[w] \in {"stage", "analysing"}
    /\ evidence \subseteq evidence' /\ findings \subseteq findings'
    /\ findings' = findings \/ attempt[w][1] = "analysis"
    /\ UNCHANGED <<row, copy, attempt, extension, composed, calls, overwritten>>

Evaluates(w) ==
    /\ at[w] = "stage" /\ at'[w] = Verdict(row.ledger) /\ row.ledger \in SoundLedger
    /\ Updates(w, row.ledger)
    /\ UNCHANGED <<storeVars, attempt, calls, overwritten>>

Concludes(w) ==
    /\ \/ at[w] = "composing" /\ at'[w] = "announcing" /\ composed'
          /\ UNCHANGED extension
       \/ at[w] = "announcing" /\ at'[w] = "storing" /\ UNCHANGED composed
    /\ UNCHANGED <<row, copy, attempt, evidence, findings, calls, overwritten>>

WorkerStep(w) ==
    /\ Private(w)
    /\ \/ Claims(w) \/ Loads(w) \/ Ordinary(w)
       \/ \E k \in Kinds : Reserves(w, k)
       \/ Calls(w) \/ Completes(w) \/ Keeps(w) \/ Evaluates(w) \/ Concludes(w)

\* Claim and load.
LEMMA LoadMoves ==
    ASSUME TypeInv, NEW w \in Workers, Claim(w) \/ LoadRun(w) \/ LoadResults(w)
    PROVE  TypeInv' /\ WorkerStep(w)
  <1> USE DEF rowVars, storeVars, requestVars
  <1>0. /\ row \in SoundDocument /\ row \in Document /\ copy[w] \in SoundDocument
        /\ copy \in [Workers -> SoundDocument] /\ copy \in [Workers -> Document]
        /\ version \in Nat /\ expected \in [Workers -> Nat]
    BY DocumentOK DEF TypeInv, TypeOK
  <1>1. CASE Claim(w)
    <2>1. Goto(w, "claimed") /\ "claimed" \in Place
      BY <1>1 DEF Claim, Place
    <2>2. /\ at' \in [Workers -> Place] /\ at'[w] = "claimed"
          /\ \A v \in Workers \ {w} : at'[v] = at[v]
      BY <2>1, GotoOK
    <2>3. handled' \in [Workers -> BOOLEAN]
      BY <1>1 DEF Claim, TypeInv, TypeOK
    <2>4. faults' \in Nat /\ overwritten' \in BOOLEAN
      <3>1. \/ overwritten' = overwritten /\ faults' = faults
            \/ overwritten' = TRUE /\ faults' = faults + 1
        BY <1>1 DEF Claim, Fault
      <3>2. overwritten \in BOOLEAN /\ faults \in Nat
        BY DEF TypeInv, TypeOK
      <3>3. faults' \in Nat
        BY <3>1, <3>2
      <3> QED
        BY <3>1, <3>2, <3>3, Zenon
    <2>5. Claims(w)
      BY <1>1, <2>2 DEF Claim, Claims
    <2>6. Private(w)
      BY <1>1, <2>2 DEF Claim, Private
    <2> QED
      BY <1>1, <2>2, <2>3, <2>4, <2>5, <2>6 DEF Claim, TypeInv, TypeOK, WorkerStep
  <1>2. CASE LoadRun(w)
    <2> DEFINE p == IF row.status = "running" THEN "loaded" ELSE "idle"
    <2>1. Goto(w, p) /\ p \in Place
      BY <1>2 DEF LoadRun, Place
    <2>2. /\ at' \in [Workers -> Place] /\ at'[w] = p
          /\ \A v \in Workers \ {w} : at'[v] = at[v]
      <3> HIDE DEF p
      <3> QED
        BY <2>1, GotoOK
    <2>3. copy' = [copy EXCEPT ![w] = row]
      BY <1>2 DEF LoadRun
    <2>4. /\ copy' \in [Workers -> SoundDocument] /\ copy' \in [Workers -> Document]
          /\ copy'[w] = row /\ \A v \in Workers \ {w} : copy'[v] = copy[v]
      BY <1>0, <2>3
    <2>5. Loads(w)
      BY <1>2, <2>2, <2>4 DEF LoadRun, Loads, historyVars
    <2>6. Private(w)
      BY <1>2, <2>2, <2>4 DEF LoadRun, Private
    <2> QED
      BY <1>2, <2>2, <2>4, <2>5, <2>6
      DEF LoadRun, TypeInv, TypeOK, WorkerStep, historyVars
  <1>3. CASE LoadResults(w)
    <2> DEFINE a == [copy[w] EXCEPT !.ledger = row.ledger]
               b == [a EXCEPT !.progress = row.progress]
               d == [b EXCEPT !.task = Recovered(copy[w].task, row.progress)]
    <2>1. Goto(w, "start") /\ "start" \in Place
      BY <1>3 DEF LoadResults, Place
    <2>2. /\ at' \in [Workers -> Place] /\ at'[w] = "start"
          /\ \A v \in Workers \ {w} : at'[v] = at[v]
      BY <2>1, GotoOK
    <2>3. a \in SoundDocument /\ a.ledger = row.ledger /\ a.status = copy[w].status
      BY <1>0, DocumentOK
    <2>4. b \in SoundDocument /\ b.ledger = row.ledger /\ b.status = copy[w].status
      <3>1. row.progress \in BOOLEAN /\ a \in Document
        BY <1>0, <2>3, DocumentOK DEF Document
      <3> HIDE DEF a
      <3> QED
        BY <2>3, <3>1, DocumentOK DEF Document
    <2>5. Recovered(copy[w].task, row.progress) \in {"ready", "running", "completed", "failed"}
      BY <1>0 DEF Recovered, Document
    <2>6. d \in SoundDocument /\ d.ledger = row.ledger /\ d.status = copy[w].status
      <3>1. b \in Document
        BY <2>4, DocumentOK
      <3> HIDE DEF b
      <3> QED
        BY <2>4, <2>5, <3>1, DocumentOK DEF Document
    <2>7. copy' = [copy EXCEPT ![w] = d]
      BY <1>0, <1>3 DEF LoadResults, Document
    <2> HIDE DEF a, b, d
    <2>8. /\ copy' \in [Workers -> SoundDocument] /\ copy'[w] = d
          /\ \A v \in Workers \ {w} : copy'[v] = copy[v]
      BY <1>0, <2>6, <2>7
    <2>9. copy' \in [Workers -> Document]
      BY <2>8, DocumentOK
    <2>10. expected' \in [Workers -> Nat]
      BY <1>0, <1>3 DEF LoadResults
    <2>11. Loads(w)
      BY <1>3, <2>2, <2>6, <2>8 DEF LoadResults, Loads, historyVars
    <2>12. Private(w)
      BY <1>3, <2>2, <2>8 DEF LoadResults, Private
    <2> QED
      BY <1>3, <2>2, <2>8, <2>9, <2>10, <2>11, <2>12
      DEF LoadResults, TypeInv, TypeOK, WorkerStep, historyVars
  <1> QED
    BY <1>1, <1>2, <1>3

\* Steps that leave documents, stores and history alone.
LEMMA MoveOK ==
    ASSUME TypeInv, NEW w \in Workers, NEW p \in Place, Move(w, p),
           UNCHANGED <<handled, attempt>>
    PROVE  /\ TypeInv' /\ Private(w) /\ at'[w] = p
           /\ UNCHANGED <<row, copy, storeVars, calls, overwritten, attempt>>
  <1> USE DEF rowVars, storeVars, requestVars, historyVars
  <1>1. /\ at' \in [Workers -> Place] /\ at'[w] = p
        /\ \A v \in Workers \ {w} : at'[v] = at[v]
    BY GotoOK DEF Move
  <1> QED
    BY <1>1 DEF Move, TypeInv, TypeOK, Private

\* Steps that update the ledger and leave the stores alone.
LEMMA LedgerOK ==
    ASSUME TypeInv, NEW w \in Workers, NEW l \in SoundLedger, NEW p \in Place,
           Atomic(w, l, p), handled' = handled, attempt' \in [Workers -> Kinds \X Nat],
           \A v \in Workers \ {w} : attempt'[v] = attempt[v]
    PROVE  /\ TypeInv' /\ Private(w) /\ at'[w] = p /\ Updates(w, l)
           /\ UNCHANGED <<storeVars, calls, overwritten>>
  <1>1. /\ row' \in SoundDocument /\ row' \in Document
        /\ copy' \in [Workers -> SoundDocument] /\ copy' \in [Workers -> Document]
        /\ at' \in [Workers -> Place] /\ at'[w] = p
        /\ \A v \in Workers \ {w} : at'[v] = at[v] /\ copy'[v] = copy[v]
        /\ Updates(w, l)
        /\ UNCHANGED <<version, expected, storeVars, requestVars, historyVars, faults>>
    BY AtomicOK
  <1> QED
    BY <1>1 DEF TypeInv, TypeOK, Private, storeVars, requestVars, historyVars

LEMMA LedgerTypes ==
    ASSUME TypeInv, row.ledger # NoLedger
    PROVE  /\ row.ledger \in SoundLedger /\ row.ledger \in Ledger
           /\ row.ledger.pending \subseteq Attempts
  BY DocumentOK DEF TypeInv, SoundLedger, Ledger

\* One external attempt.
LEMMA CallMoves ==
    ASSUME TypeInv, NEW w \in Workers,
           \/ \E k \in Kinds : Reserve(w, k)
           \/ Call(w) \/ Complete(w) \/ CompleteUnknown(w) \/ Keep(w)
    PROVE  TypeInv' /\ WorkerStep(w)
  <1>0. /\ at \in [Workers -> Place] /\ attempt \in [Workers -> Kinds \X Nat]
        /\ attempt[w] \in Kinds \X Nat /\ calls \in [Kinds -> Nat]
    BY DEF TypeInv, TypeOK
  <1>a. Rest(w) \in {"stage", "analysing"} /\ Rest(w) \in Place
    BY DEF Rest, Place
  <1>1. ASSUME NEW k \in Kinds, Reserve(w, k) PROVE TypeInv' /\ WorkerStep(w)
    <2> DEFINE l == Consumed(row.ledger, k)
    <2>1. /\ Reservable(row.ledger, k) /\ Delegated(w) /\ handled' = handled
          /\ attempt' = [attempt EXCEPT ![w] = NextAttempt(row.ledger, k)]
          /\ Atomic(w, l, "reserved")
      BY <1>1 DEF Reserve
    <2>2. /\ row.ledger \in SoundLedger /\ row.ledger.pending = {}
          /\ ~Exhausted(row.ledger, k)
      BY <2>1, LedgerTypes DEF Reservable
    <2>3. /\ NextAttempt(row.ledger, k) \in Kinds \X Nat /\ NextAttempt(row.ledger, k)[1] = k
          /\ l \in SoundLedger
          /\ l.pending = row.ledger.pending \cup {NextAttempt(row.ledger, k)}
          /\ l.observed = row.ledger.observed /\ l.found = row.ledger.found
          /\ l.search = row.ledger.search + IF k = "search" THEN 1 ELSE 0
          /\ l.provider = row.ledger.provider + IF k = "search" THEN 0 ELSE 1
          /\ l.analysed = row.ledger.analysed + IF k = "analysis" THEN 1 ELSE 0
      BY <2>2, ConsumedOK
    <2>4. /\ attempt' \in [Workers -> Kinds \X Nat]
          /\ attempt'[w] = NextAttempt(row.ledger, k)
          /\ \A v \in Workers \ {w} : attempt'[v] = attempt[v]
      BY <1>0, <2>1, <2>3
    <2>5. at[w] \in Loaded
      BY <2>1 DEF Delegated, Working, Loaded, Place
    <2> HIDE DEF l
    <2>6. /\ TypeInv' /\ Private(w) /\ at'[w] = "reserved" /\ Updates(w, l)
          /\ UNCHANGED <<storeVars, calls, overwritten>>
      BY <2>1, <2>3, <2>4, LedgerOK DEF Place
    <2>7. Reserves(w, k)
      BY <2>2, <2>3, <2>4, <2>5, <2>6 DEF Reserves
    <2> QED
      BY <2>6, <2>7 DEF WorkerStep
  <1>2. CASE Call(w)
    <2>1. /\ at' \in [Workers -> Place] /\ at'[w] = "called"
          /\ \A v \in Workers \ {w} : at'[v] = at[v]
      BY <1>2, GotoOK DEF Call, Place
    <2>2. calls' \in [Kinds -> Nat]
      BY <1>0, <1>2 DEF Call
    <2>3. Calls(w)
      BY <1>2, <2>1 DEF Call, Calls, rowVars
    <2>4. Private(w)
      BY <1>2, <2>1 DEF Call, Private
    <2> QED
      BY <1>2, <2>1, <2>2, <2>3, <2>4
      DEF Call, TypeInv, TypeOK, WorkerStep, rowVars, storeVars, requestVars
  <1>3. CASE Complete(w)
    <2> DEFINE l == [row.ledger EXCEPT !.pending = @ \ {attempt[w]}]
    <2>1. PICK p \in {"answered", Rest(w), "broken"} : Atomic(w, l, p)
      BY <1>3 DEF Complete
    <2>2. row.ledger \in SoundLedger
      BY <1>3, LedgerTypes DEF Complete
    <2>3. /\ l \in SoundLedger /\ Counters(row.ledger, l)
          /\ l.pending = row.ledger.pending \ {attempt[w]}
          /\ l.observed = row.ledger.observed /\ l.found = row.ledger.found
      BY <2>2, SetsOK DEF Counters, SoundLedger, Ledger
    <2>4. p \in {"answered", "stage", "analysing", "broken"} /\ p \in Place
      BY <1>a DEF Place
    <2> HIDE DEF l
    <2>5. attempt' = attempt /\ handled' = handled /\ at[w] = "called"
      BY <1>3 DEF Complete
    <2>6. /\ TypeInv' /\ Private(w) /\ at'[w] = p /\ Updates(w, l)
          /\ UNCHANGED <<storeVars, calls, overwritten>>
      BY <1>0, <2>1, <2>3, <2>4, <2>5, LedgerOK
    <2>7. Completes(w)
      BY <2>2, <2>3, <2>4, <2>5, <2>6 DEF Completes
    <2> QED
      BY <2>6, <2>7 DEF WorkerStep
  <1>4. CASE CompleteUnknown(w)
    <2>1. PICK p \in {"stage", "analysing", "broken"} : Move(w, p)
      BY <1>4, <1>a DEF CompleteUnknown
    <2>2. at[w] = "called" /\ UNCHANGED <<handled, attempt>>
      BY <1>4 DEF CompleteUnknown
    <2>3. /\ TypeInv' /\ Private(w) /\ at'[w] = p
          /\ UNCHANGED <<row, copy, storeVars, calls, overwritten, attempt>>
      BY <2>1, <2>2, MoveOK DEF Place
    <2>4. Ordinary(w)
      BY <2>2, <2>3 DEF Ordinary, Loaded, Place, storeVars
    <2> QED
      BY <2>3, <2>4 DEF WorkerStep
  <1>5. CASE Keep(w)
    <2>1. /\ at' \in [Workers -> Place] /\ at'[w] = Rest(w)
          /\ \A v \in Workers \ {w} : at'[v] = at[v]
      BY <1>5, <1>a, GotoOK DEF Keep
    <2>2. /\ evidence \subseteq evidence' /\ evidence' \subseteq Evidence
          /\ findings \subseteq findings' /\ findings' \subseteq Needs
          /\ findings' = findings \/ attempt[w][1] = "analysis"
      BY <1>5 DEF Keep, TypeInv, TypeOK
    <2>3. Keeps(w)
      BY <1>5, <1>a, <2>1, <2>2 DEF Keep, Keeps, rowVars, historyVars
    <2>4. Private(w)
      BY <1>5, <2>1 DEF Keep, Private
    <2> QED
      BY <1>5, <2>1, <2>2, <2>3, <2>4
      DEF Keep, TypeInv, TypeOK, WorkerStep, rowVars, requestVars, historyVars
  <1> QED
    BY <1>1, <1>2, <1>3, <1>4, <1>5

\* A step of a stage that updates the ledger.
LEMMA AnnotationOK ==
    ASSUME TypeInv, NEW w \in Workers, NEW l \in SoundLedger, NEW p \in {"done", "analysing"},
           Atomic(w, l, p), UNCHANGED <<handled, attempt>>, at[w] \in {"stage", "analysing"},
           row.ledger # NoLedger, Counters(row.ledger, l), l.pending = row.ledger.pending,
           l.observed \subseteq row.ledger.observed \cup evidence,
           l.found \subseteq row.ledger.found \cup findings
    PROVE  TypeInv' /\ WorkerStep(w)
  <1>1. p \in Place /\ attempt \in [Workers -> Kinds \X Nat]
    BY DEF Place, TypeInv, TypeOK
  <1>2. /\ TypeInv' /\ Private(w) /\ at'[w] = p /\ Updates(w, l)
        /\ UNCHANGED <<storeVars, calls, overwritten>>
    BY <1>1, LedgerOK
  <1>3. Annotates(w, l)
    BY <1>2 DEF Annotates, Counters, Loaded, Place
  <1>4. Ordinary(w)
    BY <1>2, <1>3 DEF Ordinary, Loaded, Place, storeVars
  <1> QED
    BY <1>2, <1>4 DEF WorkerStep

\* Steps of a stage that change nothing.
LEMMA StageMoveOK ==
    ASSUME TypeInv, NEW w \in Workers, NEW p \in {"done", "broken"}, Move(w, p),
           UNCHANGED <<handled, attempt>>, at[w] \in {"stage", "analysing"}
    PROVE  TypeInv' /\ WorkerStep(w)
  <1>1. /\ TypeInv' /\ Private(w) /\ at'[w] = p
        /\ UNCHANGED <<row, copy, storeVars, calls, overwritten, attempt>>
    BY MoveOK DEF Place
  <1>2. Ordinary(w)
    BY <1>1 DEF Ordinary, Loaded, Place, storeVars
  <1> QED
    BY <1>1, <1>2 DEF WorkerStep

\* The stages.
LEMMA StageMoves ==
    ASSUME TypeInv, NEW w \in Workers,
           \/ Plan(w) \/ PlanRaises(w) \/ Raise(w) \/ EndSearch(w) \/ Capture(w)
           \/ PassGate(w) \/ CaptureFindings(w) \/ Evaluate(w)
    PROVE  TypeInv' /\ WorkerStep(w)
  <1>0. evidence \in SUBSET Evidence /\ findings \in SUBSET Needs
    BY DEF TypeInv, TypeOK
  <1>1. CASE Plan(w)
    <2> DEFINE l == [row.ledger EXCEPT !.reserved = Reservation]
    <2>1. row.ledger \in SoundLedger /\ row.ledger.provider + Reservation <= MaxProvider
      BY <1>1, LedgerTypes DEF Plan
    <2>2. /\ l \in SoundLedger /\ Counters(row.ledger, l) /\ l.pending = row.ledger.pending
          /\ l.observed = row.ledger.observed /\ l.found = row.ledger.found
      BY <2>1, PlannedOK DEF Counters, SoundLedger, Ledger
    <2>3. /\ Atomic(w, l, "done") /\ UNCHANGED <<handled, attempt>> /\ at[w] = "stage"
          /\ row.ledger # NoLedger
      BY <1>1 DEF Plan, Working
    <2> HIDE DEF l
    <2> QED
      BY <2>2, <2>3, AnnotationOK
  <1>2. CASE PlanRaises(w)
    BY <1>2, StageMoveOK DEF PlanRaises, Working
  <1>3. CASE Raise(w)
    BY <1>3, StageMoveOK DEF Raise, Delegated, Working
  <1>4. CASE EndSearch(w)
    BY <1>4, StageMoveOK DEF EndSearch, Working
  <1>5. CASE Capture(w)
    <2> DEFINE l == [row.ledger EXCEPT !.observed = @ \cup evidence]
    <2>1. row.ledger \in SoundLedger
      BY <1>5, LedgerTypes DEF Capture
    <2>2. /\ l \in SoundLedger /\ Counters(row.ledger, l) /\ l.pending = row.ledger.pending
          /\ l.observed = row.ledger.observed \cup evidence /\ l.found = row.ledger.found
      BY <1>0, <2>1, SetsOK DEF Counters, SoundLedger, Ledger
    <2>3. /\ Atomic(w, l, "done") /\ UNCHANGED <<handled, attempt>> /\ at[w] = "stage"
          /\ row.ledger # NoLedger
      BY <1>5 DEF Capture, Working
    <2> HIDE DEF l
    <2> QED
      BY <2>2, <2>3, AnnotationOK
  <1>6. CASE PassGate(w)
    <2> DEFINE p == IF GateOpen(row.ledger) THEN "analysing" ELSE "done"
    <2>1. row.ledger \in SoundLedger
      BY <1>6, LedgerTypes DEF PassGate
    <2>2. /\ Atomic(w, row.ledger, p) /\ UNCHANGED <<handled, attempt>> /\ at[w] = "stage"
          /\ row.ledger # NoLedger
      BY <1>6 DEF PassGate, Working
    <2>3. p \in {"done", "analysing"}
      OBVIOUS
    <2> HIDE DEF p
    <2> QED
      BY <2>1, <2>2, <2>3, AnnotationOK DEF Counters
  <1>7. CASE CaptureFindings(w)
    <2> DEFINE l == [row.ledger EXCEPT !.found = @ \cup findings]
    <2>1. row.ledger \in SoundLedger
      BY <1>7, LedgerTypes DEF CaptureFindings
    <2>2. /\ l \in SoundLedger /\ Counters(row.ledger, l) /\ l.pending = row.ledger.pending
          /\ l.observed = row.ledger.observed /\ l.found = row.ledger.found \cup findings
      BY <1>0, <2>1, SetsOK DEF Counters, SoundLedger, Ledger
    <2>3. /\ Atomic(w, l, "done") /\ UNCHANGED <<handled, attempt>> /\ at[w] = "analysing"
          /\ row.ledger # NoLedger
      BY <1>7 DEF CaptureFindings
    <2> HIDE DEF l
    <2> QED
      BY <2>2, <2>3, AnnotationOK
  <1>8. CASE Evaluate(w)
    <2>1. /\ Atomic(w, row.ledger, Verdict(row.ledger)) /\ handled' = handled
          /\ attempt' = attempt /\ at[w] = "stage" /\ row.ledger # NoLedger
      BY <1>8 DEF Evaluate, Working
    <2>2. row.ledger \in SoundLedger /\ Verdict(row.ledger) \in Place
      BY <2>1, LedgerTypes DEF Verdict, Place
    <2>3. attempt' \in [Workers -> Kinds \X Nat]
      BY <2>1 DEF TypeInv, TypeOK
    <2>4. /\ TypeInv' /\ Private(w) /\ at'[w] = Verdict(row.ledger) /\ Updates(w, row.ledger)
          /\ UNCHANGED <<storeVars, calls, overwritten>>
      BY <2>1, <2>2, <2>3, LedgerOK
    <2>5. Evaluates(w)
      BY <2>1, <2>2, <2>4 DEF Evaluates
    <2> QED
      BY <2>4, <2>5 DEF WorkerStep
  <1> QED
    BY <1>1, <1>2, <1>3, <1>4, <1>5, <1>6, <1>7, <1>8

\* A checkpoint, taken or refused.
LEMMA CheckpointOK ==
    ASSUME TypeInv, NEW w \in Workers, NEW d \in SoundDocument,
           NEW p \in {"idle", "pick", "stage", "done", "expelled", "failing"},
           CheckpointTypes,
           \A v \in Workers \ {w} : at'[v] = at[v] /\ copy'[v] = copy[v],
           extension'.status \in {extension.status, "technical_error"},
           \/ UNCHANGED <<row, copy>> /\ at'[w] \in {"idle", "expelled"}
           \/ row' = d /\ copy'[w] = d /\ at'[w] = p,
           d.ledger = copy[w].ledger,
           d.status = copy[w].status \/ (d.status \in {"completed", "failed"} /\ p = "idle"),
           at[w] \in Loaded,
           handled' \in [Workers -> BOOLEAN],
           UNCHANGED <<composed, evidence, findings, attempt, requestVars, historyVars>>
    PROVE  TypeInv' /\ WorkerStep(w)
  <1>1. TypeInv'
    BY DEF TypeInv, TypeOK, CheckpointTypes, requestVars, historyVars
  <1>2. Private(w)
    BY DEF Private
  <1>3. Ordinary(w)
    <2>1. UNCHANGED <<row, copy>> \/ Writes(w)
      BY DEF Writes
    <2>2. at[w] # "idle" /\ at'[w] \in {"idle", "pick", "stage", "done", "expelled", "failing"}
      BY DEF Loaded
    <2>3. extension'.status = extension.status \/ extension'.status # "succeeded"
      OBVIOUS
    <2> QED
      BY <2>1, <2>2, <2>3 DEF Ordinary, historyVars
  <1> QED
    BY <1>1, <1>2, <1>3 DEF WorkerStep

\* The two checkpoints that are taken inside a stage.
LEMMA InnerCheckpointOK ==
    ASSUME TypeInv, NEW w \in Workers, NEW d \in SoundDocument, NEW p \in {"stage", "done"},
           at[w] \in {"stage", "storing"},
           d.ledger = copy[w].ledger, d.status = copy[w].status,
           \/ Written(w, d) /\ Goto(w, p) /\ UNCHANGED faults
           \/ /\ Goto(w, "expelled") /\ UNCHANGED <<rowVars, copy, expected>>
              /\ faults' = faults \/ faults' = faults + 1,
           UNCHANGED <<storeVars, handled, attempt, requestVars, historyVars>>
    PROVE  TypeInv' /\ WorkerStep(w)
  <1>1. extension' = extension /\ p \in Place /\ at[w] \in Loaded
    BY DEF storeVars, Place, Loaded
  <1>2. /\ CheckpointTypes
        /\ \A v \in Workers \ {w} : at'[v] = at[v] /\ copy'[v] = copy[v]
        /\ \/ UNCHANGED <<row, copy>> /\ at'[w] = "expelled"
           \/ row' = d /\ copy'[w] = d /\ at'[w] = p
    <2>1. CASE Written(w, d) /\ Goto(w, p) /\ UNCHANGED faults
      BY <1>1, <2>1, WrittenOK, GotoOK DEF CheckpointTypes, TypeInv, TypeOK
    <2>2. CASE /\ Goto(w, "expelled") /\ UNCHANGED <<rowVars, copy, expected>>
               /\ faults' = faults \/ faults' = faults + 1
      BY <1>1, <2>2, UnwrittenOK DEF Place, rowVars
    <2> QED
      BY <2>1, <2>2
  <1>3. handled' \in [Workers -> BOOLEAN]
    BY DEF TypeInv, TypeOK
  <1> QED
    BY <1>1, <1>2, <1>3, CheckpointOK DEF storeVars

LEMMA CheckpointMoves ==
    ASSUME TypeInv, NEW w \in Workers,
           \/ Start(w) \/ Begin(w) \/ Finish(w) \/ FailTask(w) \/ EndRun(w)
           \/ Progress(w) \/ Store(w)
    PROVE  TypeInv' /\ WorkerStep(w)
  <1>0. copy[w] \in SoundDocument /\ copy[w] \in Document /\ handled \in [Workers -> BOOLEAN]
    BY DocumentOK DEF TypeInv, TypeOK
  <1>1. ASSUME NEW d \in SoundDocument, NEW p \in {"idle", "pick", "stage"},
               Save(w, d, p), at[w] \in {"start", "pick", "done", "failing"},
               d.ledger = copy[w].ledger,
               d.status = copy[w].status \/ (d.status \in {"completed", "failed"} /\ p = "idle"),
               handled' \in [Workers -> BOOLEAN],
               UNCHANGED <<composed, evidence, findings, attempt, requestVars, historyVars>>
        PROVE  TypeInv' /\ WorkerStep(w)
    <2>1. p \in Place /\ at[w] \in Loaded
      BY <1>1 DEF Place, Loaded
    <2>2. /\ CheckpointTypes
          /\ \A v \in Workers \ {w} : at'[v] = at[v] /\ copy'[v] = copy[v]
          /\ extension'.status \in {extension.status, "technical_error"}
          /\ \/ UNCHANGED <<row, copy>> /\ at'[w] = "idle"
             \/ row' = d /\ copy'[w] = d /\ at'[w] = p
      BY <1>1, <2>1, SaveOK
    <2> QED
      BY <1>1, <2>1, <2>2, CheckpointOK
  <1>2. CASE Start(w)
    <2>1. Save(w, copy[w], "pick") /\ handled' = handled /\ at[w] = "start"
          /\ UNCHANGED <<composed, evidence, findings, attempt, requestVars, historyVars>>
      BY <1>2 DEF Start
    <2> QED
      BY <1>0, <1>1, <2>1
  <1>3. CASE Begin(w)
    <2> DEFINE d == [copy[w] EXCEPT !.task = "running"]
    <2>1. d \in SoundDocument /\ d.ledger = copy[w].ledger /\ d.status = copy[w].status
      BY <1>0, DocumentOK DEF Document
    <2>2. Save(w, d, "stage") /\ handled' = [handled EXCEPT ![w] = TRUE] /\ at[w] = "pick"
          /\ UNCHANGED <<composed, evidence, findings, attempt, requestVars, historyVars>>
      BY <1>3 DEF Begin
    <2>3. handled' \in [Workers -> BOOLEAN]
      BY <1>0, <2>2
    <2> HIDE DEF d
    <2> QED
      BY <1>1, <2>1, <2>2, <2>3
  <1>4. CASE Finish(w)
    <2> DEFINE a == [copy[w] EXCEPT !.stage = After[copy[w].stage]]
               b == [a EXCEPT !.progress = FALSE]
               t == IF copy[w].stage = "finalize" THEN "completed" ELSE "ready"
               d == [b EXCEPT !.task = t]
    <2>1. After[copy[w].stage] \in Stages
      BY <1>0 DEF After, Stages, Document
    <2>2. a \in SoundDocument /\ a.ledger = copy[w].ledger /\ a.status = copy[w].status
      BY <1>0, <2>1, DocumentOK DEF Document
    <2>3. b \in SoundDocument /\ b.ledger = copy[w].ledger /\ b.status = copy[w].status
      <3>1. a \in Document
        BY <2>2, DocumentOK
      <3> HIDE DEF a
      <3> QED
        BY <2>2, <3>1, DocumentOK DEF Document
    <2>4. t \in {"ready", "running", "completed", "failed"}
      OBVIOUS
    <2>5. d \in SoundDocument /\ d.ledger = copy[w].ledger /\ d.status = copy[w].status
      <3>1. b \in Document
        BY <2>3, DocumentOK
      <3> HIDE DEF b, t
      <3> QED
        BY <2>3, <2>4, <3>1, DocumentOK DEF Document
    <2>6. Save(w, d, "pick") /\ handled' = handled /\ at[w] = "done"
          /\ UNCHANGED <<composed, evidence, findings, attempt, requestVars, historyVars>>
      <3>1. d = [copy[w] EXCEPT !.stage = After[@], !.progress = FALSE,
                   !.task = IF copy[w].stage = "finalize" THEN "completed" ELSE "ready"]
        BY <1>0 DEF Document
      <3> HIDE DEF d
      <3> QED
        BY <1>4, <3>1 DEF Finish
    <2> HIDE DEF d
    <2> QED
      BY <1>0, <1>1, <2>5, <2>6
  <1>5. CASE FailTask(w)
    <2> DEFINE d == [copy[w] EXCEPT !.task = "failed"]
    <2>1. d \in SoundDocument /\ d.ledger = copy[w].ledger /\ d.status = copy[w].status
      BY <1>0, DocumentOK DEF Document
    <2>2. Save(w, d, "pick") /\ handled' = handled /\ at[w] = "failing"
          /\ UNCHANGED <<composed, evidence, findings, attempt, requestVars, historyVars>>
      BY <1>5 DEF FailTask
    <2> HIDE DEF d
    <2> QED
      BY <1>0, <1>1, <2>1, <2>2
  <1>6. CASE EndRun(w)
    <2> DEFINE d == [copy[w] EXCEPT !.status = copy[w].task]
    <2>1. copy[w].task \in {"completed", "failed"}
      BY <1>6 DEF EndRun
    <2>2. d \in SoundDocument /\ d.ledger = copy[w].ledger /\ d.status = copy[w].task
      BY <1>0, <2>1, DocumentOK DEF Document
    <2>3. Save(w, d, "idle") /\ handled' = handled /\ at[w] = "pick"
          /\ UNCHANGED <<composed, evidence, findings, attempt, requestVars, historyVars>>
      BY <1>6 DEF EndRun
    <2> HIDE DEF d
    <2> QED
      BY <1>0, <1>1, <2>1, <2>2, <2>3
  <1>7. CASE Progress(w)
    <2> DEFINE d == [copy[w] EXCEPT !.progress = TRUE]
    <2>1. d \in SoundDocument /\ d.ledger = copy[w].ledger /\ d.status = copy[w].status
      BY <1>0, DocumentOK DEF Document
    <2>2. at[w] = "stage" /\ (UNCHANGED at => Goto(w, "stage"))
      BY <1>7 DEF Progress, Working, Goto, TypeInv, TypeOK
    <2>3. /\ \/ Written(w, d) /\ Goto(w, "stage") /\ UNCHANGED faults
             \/ /\ Goto(w, "expelled") /\ UNCHANGED <<rowVars, copy, expected>>
                /\ faults' = faults \/ faults' = faults + 1
          /\ UNCHANGED <<storeVars, handled, attempt, requestVars, historyVars>>
      BY <1>7, <2>2 DEF Progress
    <2> HIDE DEF d
    <2> QED
      BY <2>1, <2>2, <2>3, InnerCheckpointOK
  <1>8. CASE Store(w)
    <2>1. /\ \/ Written(w, copy[w]) /\ Goto(w, "done") /\ UNCHANGED faults
             \/ /\ Goto(w, "expelled") /\ UNCHANGED <<rowVars, copy, expected>>
                /\ faults' = faults \/ faults' = faults + 1
          /\ UNCHANGED <<storeVars, handled, attempt, requestVars, historyVars>>
          /\ at[w] = "storing"
      BY <1>8 DEF Store
    <2> QED
      BY <1>0, <2>1, InnerCheckpointOK
  <1> QED
    BY <1>2, <1>3, <1>4, <1>5, <1>6, <1>7, <1>8

\* The ends of an extension and of an execution.
LEMMA EndMoves ==
    ASSUME TypeInv, NEW w \in Workers,
           Crash(w) \/ Conclude(w) \/ Compose(w) \/ Announce(w) \/ FailTechnical(w)
    PROVE  TypeInv' /\ WorkerStep(w)
  <1> USE DEF rowVars, requestVars, historyVars
  <1>0. extension \in [run : Requests \cup {NoRequest}, status : ExtensionStatus]
    BY DEF TypeInv, TypeOK
  <1>1. CASE Crash(w)
    <2>1. /\ at' \in [Workers -> Place] /\ at'[w] = "idle"
          /\ \A v \in Workers \ {w} : at'[v] = at[v]
      BY <1>1, GotoOK DEF Crash, Place
    <2>2. faults' \in Nat
      BY <1>1 DEF Crash, Fault, TypeInv, TypeOK
    <2>3. Ordinary(w) /\ Private(w)
      BY <1>1, <2>1 DEF Crash, Ordinary, Private, storeVars
    <2> QED
      BY <1>1, <2>1, <2>2, <2>3 DEF Crash, TypeInv, TypeOK, WorkerStep, storeVars
  <1>2. CASE Conclude(w)
    <2>1. /\ at' \in [Workers -> Place] /\ at'[w] = "done"
          /\ \A v \in Workers \ {w} : at'[v] = at[v]
      BY <1>2, GotoOK DEF Conclude, Place
    <2>2. /\ extension' \in [run : Requests \cup {NoRequest}, status : ExtensionStatus]
          /\ extension'.status # "succeeded"
      BY <1>0, <1>2 DEF Conclude, SetStatus, ExtensionStatus
    <2>3. Ordinary(w) /\ Private(w)
      BY <1>2, <2>1, <2>2 DEF Conclude, Ordinary, Private, Loaded, Place
    <2> QED
      BY <1>2, <2>1, <2>2, <2>3 DEF Conclude, TypeInv, TypeOK, WorkerStep
  <1>3. CASE Compose(w)
    <2>1. /\ at' \in [Workers -> Place] /\ at'[w] = "announcing"
          /\ \A v \in Workers \ {w} : at'[v] = at[v]
      BY <1>3, GotoOK DEF Compose, Place
    <2>2. composed' = TRUE
      BY <1>3 DEF Compose
    <2>3. Concludes(w) /\ Private(w)
      BY <1>3, <2>1, <2>2 DEF Compose, Concludes, Private
    <2> QED
      BY <1>3, <2>1, <2>2, <2>3 DEF Compose, TypeInv, TypeOK, WorkerStep
  <1>4. CASE Announce(w)
    <2>1. /\ at' \in [Workers -> Place] /\ at'[w] = "storing"
          /\ \A v \in Workers \ {w} : at'[v] = at[v]
      BY <1>4, GotoOK DEF Announce, Place
    <2>2. extension' \in [run : Requests \cup {NoRequest}, status : ExtensionStatus]
      BY <1>0, <1>4 DEF Announce, SetStatus, ExtensionStatus
    <2>3. Concludes(w) /\ Private(w)
      BY <1>4, <2>1 DEF Announce, Concludes, Private
    <2> QED
      BY <1>4, <2>1, <2>2, <2>3 DEF Announce, TypeInv, TypeOK, WorkerStep
  <1>5. CASE FailTechnical(w)
    <2>1. PICK p \in {"failing", "idle"} : Goto(w, p)
      BY <1>5 DEF FailTechnical
    <2>2. /\ at' \in [Workers -> Place] /\ at'[w] = p
          /\ \A v \in Workers \ {w} : at'[v] = at[v]
      BY <2>1, GotoOK DEF Place
    <2>3. /\ extension' \in [run : Requests \cup {NoRequest}, status : ExtensionStatus]
          /\ extension'.status \in {extension.status, "technical_error"}
      BY <1>5, TechnicalOK DEF FailTechnical
    <2>4. at[w] \in {"broken", "expelled"}
      BY <1>5 DEF FailTechnical
    <2>5. Ordinary(w) /\ Private(w)
      BY <1>5, <2>2, <2>3, <2>4 DEF FailTechnical, Ordinary, Private, Loaded, Place
    <2> QED
      BY <1>5, <2>2, <2>3, <2>5 DEF FailTechnical, TypeInv, TypeOK, WorkerStep
  <1> QED
    BY <1>1, <1>2, <1>3, <1>4, <1>5

LEMMA WorkerMoves ==
    ASSUME TypeInv, NEW w \in Workers, WorkerNext(w)
    PROVE  TypeInv' /\ WorkerStep(w)
  BY LoadMoves, CallMoves, StageMoves, CheckpointMoves, EndMoves DEF WorkerNext

LEMMA TypesKept ==
    ASSUME TypeInv, [Next]_vars
    PROVE  /\ TypeInv'
           /\ \/ \E q \in Requests : RequestStep(q)
              \/ \E w \in Workers : WorkerStep(w)
              \/ UNCHANGED vars
  <1>1. CASE \E q \in Requests : RequestNext(q)
    BY <1>1, RequestMoves
  <1>2. CASE \E w \in Workers : WorkerNext(w)
    BY <1>2, WorkerMoves
  <1>3. CASE UNCHANGED vars
    BY <1>3 DEF vars, rowVars, storeVars, workerVars, requestVars, historyVars, TypeInv, TypeOK
  <1> QED
    BY <1>1, <1>2, <1>3 DEF Next

LEMMA InitTypes == Init => TypeInv
  <1> SUFFICES ASSUME Init PROVE TypeInv
    OBVIOUS
  <1>1. Created \in SoundDocument /\ Created \in Document
    BY CreatedOK, DocumentOK
  <1>2. attempt \in [Workers -> Kinds \X Nat]
    BY DEF Init, Kinds
  <1>3. at \in [Workers -> Place] /\ step \in [Requests -> Step]
    BY DEF Init, Place, Step
  <1>4. evidence \subseteq Evidence
    BY ParentAssumption DEF Init
  <1> QED
    BY <1>1, <1>2, <1>3, <1>4 DEF Init, TypeInv, TypeOK, ExtensionStatus

\* The ledger stays within the budgets of the extension, and every variable in its
\* type, whatever requests, workers and faults do.
THEOREM TypeCorrect == Spec => []TypeOK
  <1>1. TypeInv /\ [Next]_vars => TypeInv'
    BY TypesKept
  <1>2. TypeInv => TypeOK
    BY DEF TypeInv
  <1> QED
    BY InitTypes, <1>1, <1>2, PTL DEF Spec
--------------------------------------------------------------------------------
(***************************************************************************)
(* Success is earned.                                                      *)
(***************************************************************************)
LEMMA EarnedByRequest ==
    ASSUME TypeInv, EarnedInv, NEW q \in Requests, RequestStep(q)
    PROVE  EarnedInv'
  <1>1. UNCHANGED <<at, copy, attempt, composed, evidence, findings, calls>>
    BY DEF RequestStep, workerVars
  <1>2. extension'.status = "succeeded" => extension.status = "succeeded"
    BY DEF RequestStep
  <1>3. Genuine(Fresh)
    BY DEF Genuine, Fresh
  <1>4. row'.ledger \in {row.ledger, Fresh, read[q].ledger}
    BY DEF RequestStep, rowVars
  <1>5. Genuine(row'.ledger)
    BY <1>3, <1>4 DEF EarnedInv
  <1>6. ASSUME NEW p \in Requests PROVE Genuine(read'[p].ledger)
    <2>1. read'[p].ledger \in {read[p].ledger, row.ledger}
      BY DEF RequestStep, TypeInv
    <2> QED
      BY <2>1 DEF EarnedInv
  <1> QED
    BY <1>1, <1>2, <1>5, <1>6 DEF EarnedInv, Genuine, Supported

\* What the documents show after a step of a worker is stored.
LEMMA WorkerGenuine ==
    ASSUME TypeInv, EarnedInv, NEW w \in Workers, WorkerStep(w)
    PROVE  /\ evidence \subseteq evidence' /\ findings \subseteq findings'
           /\ Genuine(row.ledger)' /\ \A v \in Workers : Genuine(copy[v].ledger)'
           /\ \A q \in Requests : Genuine(read[q].ledger)'
  <1>1. evidence \subseteq evidence' /\ findings \subseteq findings'
    BY DEF WorkerStep, Claims, Loads, Ordinary, Reserves, Calls, Completes, Keeps,
           Evaluates, Concludes, storeVars
  <1>3. /\ Genuine(row.ledger) /\ Genuine(copy[w].ledger)
        /\ \A v \in Workers \ {w} : copy'[v] = copy[v] /\ UNCHANGED read
    BY DEF EarnedInv, WorkerStep, Private, requestVars
  <1>4. Genuine(row'.ledger) /\ Genuine(copy'[w].ledger)
    <2>1. CASE Claims(w) \/ Calls(w) \/ Keeps(w) \/ Concludes(w)
      BY <1>3, <2>1 DEF Claims, Calls, Keeps, Concludes
    <2>2. CASE Loads(w)
      BY <1>3, <2>2 DEF Loads
    <2>3. CASE Ordinary(w)
      <3>1. CASE UNCHANGED <<row, copy>> \/ Writes(w)
        BY <1>3, <3>1 DEF Writes
      <3>2. ASSUME NEW l \in SoundLedger, Annotates(w, l)
            PROVE  Genuine(row'.ledger) /\ Genuine(copy'[w].ledger)
        BY <1>3, <3>2 DEF Annotates, Updates, Genuine
      <3> QED
        BY <2>3, <3>1, <3>2 DEF Ordinary
    <2>4. ASSUME NEW k \in Kinds, Reserves(w, k)
          PROVE  Genuine(row'.ledger) /\ Genuine(copy'[w].ledger)
      <3>1. row.ledger # NoLedger
        BY <2>4, SetsOK DEF Reserves
      <3> QED
        BY <1>3, <2>4, <3>1 DEF Reserves, Updates, Genuine
    <2>5. CASE Completes(w)
      <3>1. row.ledger # NoLedger
        BY <2>5, SetsOK DEF Completes
      <3> QED
        BY <1>3, <2>5, <3>1 DEF Completes, Updates, Genuine
    <2>6. CASE Evaluates(w)
      BY <1>3, <2>6 DEF Evaluates, Updates
    <2> QED
      BY <2>1, <2>2, <2>3, <2>4, <2>5, <2>6 DEF WorkerStep
  <1>5. Genuine(row.ledger)'
    BY <1>1, <1>4 DEF Genuine
  <1>6. ASSUME NEW v \in Workers PROVE Genuine(copy[v].ledger)'
    <2>1. Genuine(copy'[v].ledger)
      BY <1>3, <1>4 DEF EarnedInv
    <2> QED
      BY <1>1, <2>1 DEF Genuine
  <1>7. ASSUME NEW q \in Requests PROVE Genuine(read[q].ledger)'
    <2>1. Genuine(read'[q].ledger)
      BY <1>3 DEF EarnedInv, WorkerStep, Private, requestVars
    <2> QED
      BY <1>1, <2>1 DEF Genuine
  <1> QED
    BY <1>1, <1>5, <1>6, <1>7

\* What the places of the workers and the status of the extension say of the stores.
Called(v) == at[v] \in {"called", "answered"} => calls[attempt[v][1]] > 0
Composing(v) == at[v] = "composing" => Supported
Announcing(v) == at[v] = "announcing" => composed
Succeeding ==
    /\ findings # {} => calls["analysis"] > 0
    /\ composed => Supported
    /\ extension.status = "succeeded" => composed

LEMMA EarnedByWorker ==
    ASSUME TypeInv, TypeInv', EarnedInv, NEW w \in Workers, WorkerStep(w)
    PROVE  EarnedInv'
  <1>1. /\ evidence \subseteq evidence' /\ findings \subseteq findings'
        /\ Genuine(row.ledger)' /\ \A v \in Workers : Genuine(copy[v].ledger)'
        /\ \A q \in Requests : Genuine(read[q].ledger)'
    BY WorkerGenuine
  <1>2. /\ findings \subseteq Needs /\ findings' \subseteq Needs
        /\ calls \in [Kinds -> Nat] /\ calls' \in [Kinds -> Nat]
        /\ \A v \in Workers : attempt[v][1] \in Kinds
        /\ \A v \in Workers \ {w} : at'[v] = at[v] /\ attempt'[v] = attempt[v]
    BY DEF TypeInv, TypeOK, WorkerStep, Private
  <1>3. /\ \A v \in Workers : Called(v) /\ Composing(v) /\ Announcing(v)
        /\ Succeeding /\ Genuine(row.ledger)
    BY DEF EarnedInv, Called, Composing, Announcing, Succeeding
  <1> SUFFICES /\ \A v \in Workers : Called(v)' /\ Composing(v)' /\ Announcing(v)'
               /\ Succeeding'
    BY <1>1 DEF EarnedInv, Called, Composing, Announcing, Succeeding
  <1>4. ASSUME UNCHANGED <<composed, evidence, findings, calls>>,
               extension'.status = extension.status \/ extension'.status # "succeeded",
               Called(w)', Composing(w)', Announcing(w)'
        PROVE  /\ \A v \in Workers : Called(v)' /\ Composing(v)' /\ Announcing(v)'
               /\ Succeeding'
    BY <1>2, <1>3, <1>4 DEF Called, Composing, Announcing, Succeeding, Supported
  <1>5. CASE Claims(w) \/ Loads(w) \/ Ordinary(w) \/ \E k \in Kinds : Reserves(w, k)
    <2>1. at'[w] \notin {"called", "answered", "composing", "announcing"}
      BY <1>5 DEF Claims, Loads, Ordinary, Reserves
    <2>2. UNCHANGED <<composed, evidence, findings, calls>>
          /\ (extension'.status = extension.status \/ extension'.status # "succeeded")
      BY <1>5 DEF Claims, Loads, Ordinary, Reserves, storeVars
    <2> QED
      BY <1>4, <2>1, <2>2 DEF Called, Composing, Announcing
  <1>6. CASE Completes(w)
    <2>1. /\ UNCHANGED <<composed, evidence, findings, calls, extension, attempt>>
          /\ at[w] = "called" /\ at'[w] \notin {"composing", "announcing"}
      BY <1>6 DEF Completes, storeVars
    <2> QED
      BY <1>3, <1>4, <2>1 DEF Called, Composing, Announcing
  <1>7. CASE Evaluates(w)
    <2>1. /\ UNCHANGED <<composed, evidence, findings, calls, extension, attempt>>
          /\ at'[w] = Verdict(row.ledger) /\ row.ledger \in SoundLedger
      BY <1>7 DEF Evaluates, storeVars
    <2>2. row.ledger # NoLedger
      BY <2>1, SetsOK
    <2>3. at'[w] = "composing" => Supported
      BY <1>2, <1>3, <2>1, <2>2 DEF Verdict, Satisfied, Genuine, Supported
    <2>4. at'[w] \notin {"called", "answered", "announcing"}
      BY <2>1 DEF Verdict
    <2> QED
      BY <1>4, <2>1, <2>3, <2>4 DEF Called, Composing, Announcing, Supported
  <1>8. CASE Calls(w)
    <2>1. /\ calls' = [calls EXCEPT ![attempt[w][1]] = @ + 1] /\ at'[w] = "called"
          /\ UNCHANGED <<attempt, extension, composed, evidence, findings>>
      BY <1>8 DEF Calls, storeVars
    <2>2. /\ \A k \in Kinds : calls[k] > 0 => calls'[k] > 0
          /\ calls'[attempt[w][1]] > 0
      BY <1>2, <2>1
    <2> QED
      BY <1>2, <1>3, <2>1, <2>2 DEF Called, Composing, Announcing, Succeeding, Supported, Kinds
  <1>9. CASE Keeps(w)
    <2>1. /\ at[w] = "answered" /\ at'[w] \in {"stage", "analysing"}
          /\ findings' = findings \/ attempt[w][1] = "analysis"
          /\ UNCHANGED <<attempt, extension, composed, calls>>
      BY <1>9 DEF Keeps
    <2>2. Supported => Supported'
      BY <1>1, <1>2 DEF Supported
    <2>3. findings' # {} => calls'["analysis"] > 0
      BY <1>3, <2>1 DEF Called, Succeeding
    <2> QED
      BY <1>2, <1>3, <2>1, <2>2, <2>3 DEF Called, Composing, Announcing, Succeeding
  <1>10. CASE Concludes(w)
    <2>1. /\ at'[w] \in {"announcing", "storing"}
          /\ UNCHANGED <<attempt, evidence, findings, calls>>
          /\ \/ at[w] = "composing" /\ composed' /\ UNCHANGED extension
             \/ at[w] = "announcing" /\ at'[w] = "storing" /\ UNCHANGED composed
      BY <1>10 DEF Concludes
    <2>2. Supported' = Supported /\ (composed' => Supported) /\ (composed => composed')
      BY <1>3, <2>1 DEF Composing, Announcing, Succeeding, Supported
    <2>3. extension'.status = "succeeded" => composed'
      BY <1>3, <2>1 DEF Announcing, Succeeding
    <2>4. at'[w] = "announcing" => composed'
      BY <2>1
    <2> QED
      BY <1>2, <1>3, <2>1, <2>2, <2>3, <2>4 DEF Called, Composing, Announcing, Succeeding
  <1> QED
    BY <1>5, <1>6, <1>7, <1>8, <1>9, <1>10 DEF WorkerStep

LEMMA EarnedKept ==
    ASSUME TypeInv, EarnedInv, [Next]_vars
    PROVE  EarnedInv'
  <1>1. CASE UNCHANGED vars
    BY <1>1 DEF vars, rowVars, storeVars, workerVars, requestVars, historyVars,
                EarnedInv, Genuine, Supported
  <1> QED
    BY <1>1, TypesKept, EarnedByRequest, EarnedByWorker

\* A composed authority, and an extension that is reported SUCCEEDED, rest on
\* supporting evidence and a finding for each need, and on an analysis that was paid for.
THEOREM Earned == Spec => []SuccessIsEarned
  <1>1. Init => EarnedInv
    BY LedgerAssumption DEF Init, Created, EarnedInv, Genuine
  <1>2. TypeInv /\ EarnedInv /\ [Next]_vars => TypeInv' /\ EarnedInv'
    BY TypesKept, EarnedKept
  <1>3. EarnedInv => SuccessIsEarned
    BY DEF EarnedInv, SuccessIsEarned, Supported
  <1> QED
    BY InitTypes, <1>1, <1>2, <1>3, PTL DEF Spec
--------------------------------------------------------------------------------
(***************************************************************************)
(* The ledger accounts for every call.                                     *)
(***************************************************************************)
LEMMA AloneByRequest ==
    ASSUME TypeInv, AloneInv, NEW q \in Requests, RequestStep(q)
    PROVE  AloneInv'
  <1> SUFFICES ASSUME ~overwritten'
               PROVE  /\ \A v, w \in Workers : at'[v] # "idle" /\ at'[w] # "idle" => v = w
                      /\ row'.status = "paused" =>
                            /\ \A w \in Workers : at'[w] = "idle"
                            /\ \A k \in Kinds : calls'[k] = 0
                            /\ row'.ledger \in Unused
                            /\ \A p \in Requests : /\ read'[p].status = "paused"
                                                   /\ read'[p].ledger \in Unused
                      /\ \A w \in Workers : WorkerOK(w)'
                      /\ Accounted'
    BY DEF AloneInv, Unused
  <1>1. UNCHANGED <<at, copy, attempt, calls>>
    BY DEF RequestStep, workerVars
  <1>2. ~overwritten
    BY DEF RequestStep
  <1>3. /\ \A v, w \in Workers : at[v] # "idle" /\ at[w] # "idle" => v = w
        /\ row.status = "paused" =>
              /\ \A w \in Workers : at[w] = "idle"
              /\ \A k \in Kinds : calls[k] = 0
              /\ row.ledger \in Unused
              /\ \A p \in Requests : read[p].status = "paused" /\ read[p].ledger \in Unused
        /\ \A w \in Workers : WorkerOK(w)
        /\ Accounted
    BY <1>2 DEF AloneInv
  <1>4. CASE row' = row
    <2>1. ASSUME row.status = "paused", NEW p \in Requests
          PROVE  read'[p].status = "paused" /\ read'[p].ledger \in Unused
      BY <1>3, <2>1 DEF RequestStep, TypeInv
    <2>2. Accounted' /\ \A w \in Workers : WorkerOK(w)'
      BY <1>1, <1>3, <1>4 DEF Accounted, WorkerOK, RoomFor
    <2> QED
      BY <1>1, <1>3, <1>4, <2>1, <2>2
  <1>5. CASE row' # row
    <2>1. row.status = "paused" /\ read' = read /\ row'.ledger \in {Fresh, read[q].ledger}
      BY <1>2, <1>5 DEF RequestStep, rowVars
    <2>2. row'.ledger \in Unused
      BY <1>3, <2>1 DEF Unused
    <2>3. \A w \in Workers : WorkerOK(w)'
      BY <1>1, <1>3, <2>1 DEF WorkerOK, Loaded
    <2>4. Accounted'
      BY <1>1, <1>3, <2>1, <2>2, FreshOK DEF Accounted, Unused, Fresh, Kinds
    <2> QED
      BY <1>1, <1>3, <2>1, <2>2, <2>3, <2>4
  <1> QED
    BY <1>4, <1>5

\* The worker that goes on is the only one, and the run is not paused.
LEMMA AloneGoesOn ==
    ASSUME TypeInv, AloneInv, ~overwritten, NEW w \in Workers, at[w] # "idle",
           Private(w), row'.status # "paused", WorkerOK(w)', Accounted'
    PROVE  AloneInv'
  <1>1. \A v \in Workers \ {w} : at[v] = "idle" /\ at'[v] = "idle"
    BY DEF AloneInv, Private
  <1>2. \A v \in Workers \ {w} : WorkerOK(v)'
    BY <1>1 DEF WorkerOK, Loaded
  <1> QED
    BY <1>1, <1>2 DEF AloneInv

\* What a worker at work can rely on.
LEMMA AtWork ==
    ASSUME AloneInv, ~overwritten, NEW w \in Workers, at[w] # "idle"
    PROVE  row.status # "paused" /\ WorkerOK(w) /\ Accounted
  BY DEF AloneInv

LEMMA AloneByWorker ==
    ASSUME TypeInv, TypeInv', AloneInv, NEW w \in Workers, WorkerStep(w)
    PROVE  AloneInv'
  <1> SUFFICES ASSUME ~overwritten' PROVE AloneInv'
    BY DEF AloneInv
  <1>1. ~overwritten /\ Private(w)
    BY DEF WorkerStep, Claims, Loads, Ordinary, Reserves, Calls, Completes, Keeps,
           Evaluates, Concludes
  <1>2. CASE Claims(w)
    <2>1. /\ \A v \in Workers : at[v] = "idle"
          /\ at'[w] = "claimed" /\ \A v \in Workers \ {w} : at'[v] = "idle"
          /\ UNCHANGED <<row, calls>> /\ row.status # "paused"
      BY <1>1, <1>2 DEF Claims, Private
    <2>2. \A v \in Workers : WorkerOK(v)'
      BY <2>1 DEF WorkerOK, Loaded
    <2>3. Accounted'
      BY <1>1, <2>1 DEF AloneInv, Accounted
    <2> QED
      BY <2>1, <2>2, <2>3 DEF AloneInv
  <1>3. ASSUME ~Claims(w) PROVE AloneInv'
    <2>1. at[w] # "idle"
      BY <1>3 DEF WorkerStep, Loads, Ordinary, Reserves, Calls, Completes, Keeps,
                  Evaluates, Concludes, Loaded
    <2>2. row.status # "paused" /\ WorkerOK(w) /\ Accounted
      BY <1>1, <2>1, AtWork
    <2> SUFFICES row'.status # "paused" /\ WorkerOK(w)' /\ Accounted'
      BY <1>1, <2>1, AloneGoesOn
    <2>3. CASE Loads(w)
      BY <2>2, <2>3 DEF Loads, WorkerOK, Accounted, Loaded
    <2>4. CASE Ordinary(w)
      <3>1. /\ UNCHANGED <<calls, attempt>> /\ at'[w] \notin {"loaded", "claimed", "reserved", "called"}
            /\ at'[w] = "idle" \/ at[w] \in Loaded
        BY <2>4 DEF Ordinary
      <3>2. CASE UNCHANGED <<row, copy>>
        BY <2>1, <2>2, <3>1, <3>2 DEF WorkerOK, Accounted, Loaded
      <3>3. ASSUME NEW l \in SoundLedger, Annotates(w, l)
            PROVE  row'.status # "paused" /\ WorkerOK(w)' /\ Accounted'
        <4>1. l # NoLedger
          BY SetsOK
        <4> QED
          BY <2>1, <2>2, <3>1, <3>3, <4>1 DEF Annotates, Updates, WorkerOK, Accounted, Loaded
      <3>4. CASE Writes(w)
        BY <2>1, <2>2, <3>1, <3>4 DEF Writes, WorkerOK, Accounted, Loaded
      <3> QED
        BY <2>4, <3>2, <3>3, <3>4 DEF Ordinary
    <2>5. ASSUME NEW k \in Kinds, Reserves(w, k)
          PROVE  row'.status # "paused" /\ WorkerOK(w)' /\ Accounted'
      <3> DEFINE m == row.ledger
      <3>1. PICK l \in SoundLedger :
                  /\ Updates(w, l) /\ l.pending = {attempt'[w]}
                  /\ l.search = m.search + IF k = "search" THEN 1 ELSE 0
                  /\ l.provider = m.provider + IF k = "search" THEN 0 ELSE 1
                  /\ l.analysed = m.analysed + IF k = "analysis" THEN 1 ELSE 0
        BY <2>5 DEF Reserves
      <3>2. /\ at[w] \in Loaded /\ at'[w] = "reserved" /\ attempt'[w][1] = k
            /\ m \in SoundLedger /\ m # NoLedger /\ l # NoLedger /\ UNCHANGED calls
        BY <2>5, SetsOK DEF Reserves
      <3>3. /\ m.search \in Nat /\ m.provider \in Nat /\ m.analysed \in Nat
            /\ calls["search"] \in Nat /\ calls["evidence"] \in Nat /\ calls["analysis"] \in Nat
        BY <3>2 DEF SoundLedger, Ledger, TypeInv, TypeOK, Kinds
      <3>4. /\ calls["search"] <= m.search /\ calls["evidence"] + m.analysed <= m.provider
            /\ calls["analysis"] <= m.analysed
        BY <2>2, <3>2 DEF Accounted
      <3>5. row'.ledger = l /\ row'.status = row.status /\ copy'[w].ledger = l
            /\ copy'[w].status = copy[w].status
        BY <3>1 DEF Updates
      <3> HIDE DEF m
      <3>6. Accounted' /\ RoomFor(attempt[w][1])'
        BY <3>1, <3>2, <3>3, <3>4, <3>5 DEF Accounted, RoomFor, Kinds
      <3> QED
        BY <2>1, <2>2, <3>1, <3>2, <3>5, <3>6 DEF WorkerOK, Loaded
    <2>6. CASE Calls(w)
      <3> DEFINE k == attempt[w][1]
      <3>1. /\ at[w] = "reserved" /\ at'[w] = "called" /\ calls' = [calls EXCEPT ![k] = @ + 1]
            /\ UNCHANGED <<row, copy, attempt>>
        BY <2>6 DEF Calls
      <3>2. k \in Kinds /\ calls \in [Kinds -> Nat] /\ row.ledger \in SoundLedger \cup {NoLedger}
        BY DocumentOK DEF TypeInv, TypeOK
      <3>3. RoomFor(k)
        BY <2>2, <3>1 DEF WorkerOK
      <3> HIDE DEF k
      <3>4. /\ calls["search"] \in Nat /\ calls["evidence"] \in Nat /\ calls["analysis"] \in Nat
            /\ row.ledger.search \in Nat /\ row.ledger.provider \in Nat
            /\ row.ledger.analysed \in Nat
        BY <3>2, <3>3 DEF Kinds, RoomFor, SoundLedger, Ledger
      <3>5. /\ calls'["search"] = calls["search"] + IF k = "search" THEN 1 ELSE 0
            /\ calls'["evidence"] = calls["evidence"] + IF k = "evidence" THEN 1 ELSE 0
            /\ calls'["analysis"] = calls["analysis"] + IF k = "analysis" THEN 1 ELSE 0
        BY <3>1, <3>2, <3>4 DEF Kinds
      <3>6. Accounted'
        BY <2>2, <3>1, <3>3, <3>4, <3>5 DEF Accounted, RoomFor
      <3> QED
        BY <2>2, <3>1, <3>6 DEF WorkerOK, Loaded, Place
    <2>7. CASE Completes(w)
      <3>1. PICK l \in SoundLedger : Updates(w, l) /\ Counters(row.ledger, l)
        BY <2>7 DEF Completes
      <3>2. /\ row.ledger # NoLedger /\ l # NoLedger /\ UNCHANGED calls
            /\ at[w] = "called" /\ at'[w] \notin {"reserved", "called"}
        BY <2>7, SetsOK DEF Completes
      <3>3. Accounted'
        BY <2>2, <3>1, <3>2 DEF Accounted, Updates, Counters
      <3> QED
        BY <2>2, <3>1, <3>2, <3>3 DEF WorkerOK, Updates, Loaded
    <2>8. CASE Evaluates(w)
      <3>1. UNCHANGED calls /\ at'[w] \notin {"reserved", "called"} /\ Updates(w, row.ledger)
        BY <2>8 DEF Evaluates, Verdict
      <3>2. Accounted'
        BY <2>2, <3>1 DEF Accounted, Updates
      <3> QED
        BY <2>1, <2>2, <2>8, <3>1, <3>2 DEF WorkerOK, Updates, Loaded, Evaluates
    <2>9. CASE Keeps(w) \/ Concludes(w)
      <3>1. /\ UNCHANGED <<row, copy, calls>> /\ at'[w] \notin {"reserved", "called"}
            /\ at[w] \in {"answered", "composing", "announcing"}
        BY <2>9 DEF Keeps, Concludes
      <3> QED
        BY <2>2, <3>1 DEF WorkerOK, Accounted, Loaded, Place
    <2> QED
      BY <1>3, <2>3, <2>4, <2>5, <2>6, <2>7, <2>8, <2>9 DEF WorkerStep
  <1> QED
    BY <1>2, <1>3

LEMMA AloneKept ==
    ASSUME TypeInv, AloneInv, [Next]_vars
    PROVE  AloneInv'
  <1>1. CASE UNCHANGED vars
    BY <1>1 DEF vars, rowVars, storeVars, workerVars, requestVars, historyVars,
                AloneInv, WorkerOK, RoomFor, Accounted
  <1> QED
    BY <1>1, TypesKept, AloneByRequest, AloneByWorker

LEMMA InitAlone == Init => AloneInv
  BY DEF Init, AloneInv, WorkerOK, Accounted, Created, Unused, Loaded

\* The calls of the ledger are within the budgets.
LEMMA CountedIsBounded ==
    ASSUME TypeInv, Accounted
    PROVE  /\ calls["search"] <= MaxSearch
           /\ calls["evidence"] + calls["analysis"] <= MaxProvider
  <1>1. calls["search"] \in Nat /\ calls["evidence"] \in Nat /\ calls["analysis"] \in Nat
    BY DEF TypeInv, TypeOK, Kinds
  <1>2. CASE row.ledger = NoLedger
    BY <1>1, <1>2, BudgetAssumption DEF Accounted, Kinds
  <1>3. CASE row.ledger # NoLedger
    <2>1. /\ row.ledger.search \in 0 .. MaxSearch /\ row.ledger.provider \in 0 .. MaxProvider
          /\ row.ledger.analysed \in 0 .. Reservation
      BY <1>3, LedgerTypes DEF Ledger
    <2> QED
      BY <1>1, <1>3, <2>1, BudgetAssumption DEF Accounted
  <1> QED
    BY <1>2, <1>3

\* Until a living worker is superseded or a request saves a run that was activated,
\* each provider call is in the ledger, and all of them are within the budgets.
THEOREM Counted == Spec => []SpendIsCounted
  <1>1. TypeInv /\ AloneInv /\ [Next]_vars => TypeInv' /\ AloneInv'
    BY TypesKept, AloneKept
  <1>2. TypeInv /\ AloneInv => SpendIsCounted
    BY CountedIsBounded DEF AloneInv, SpendIsCounted
  <1> QED
    BY InitTypes, InitAlone, <1>1, <1>2, PTL DEF Spec
--------------------------------------------------------------------------------
(***************************************************************************)
(* An attempt of unknown outcome stops all calls.                          *)
(***************************************************************************)
\* Nobody holds an attempt while there is an orphan.
LEMMA OrphansAlone ==
    ASSUME AloneInv, ~overwritten, Orphans # {}
    PROVE  /\ row.ledger # NoLedger /\ row.ledger.pending # {}
           /\ \A w \in Workers : at[w] \notin {"reserved", "called"}
           /\ Orphans \subseteq row.ledger.pending
  <1>1. row.ledger # NoLedger /\ Orphans \subseteq row.ledger.pending
    BY DEF Orphans
  <1>2. ASSUME NEW w \in Workers, at[w] \in {"reserved", "called"} PROVE FALSE
    <2>1. row.ledger.pending = {attempt[w]}
      BY <1>2 DEF AloneInv, WorkerOK
    <2> QED
      BY <1>1, <1>2, <2>1 DEF Orphans
  <1> QED
    BY <1>1, <1>2

\* A ledger that keeps what is open, while nobody takes an attempt, keeps its orphans.
LEMMA OrphansStay ==
    ASSUME Orphans \subseteq row.ledger.pending, row'.ledger # NoLedger,
           row.ledger.pending \subseteq row'.ledger.pending,
           \A w \in Workers : at'[w] \notin {"reserved", "called"}
    PROVE  Orphans \subseteq Orphans'
  BY DEF Orphans

LEMMA OrphansHold ==
    ASSUME TypeInv, AloneInv, [Next]_vars, Orphans # {}, ~overwritten'
    PROVE  calls' = calls /\ Orphans \subseteq Orphans'
  <1>1. ASSUME NEW q \in Requests, RequestStep(q)
        PROVE  calls' = calls /\ Orphans \subseteq Orphans'
    <2>1. ~overwritten /\ UNCHANGED <<at, calls>>
      <3>1. ~overwritten
        BY <1>1 DEF RequestStep
      <3>2. UNCHANGED <<at, calls>>
        BY <1>1 DEF RequestStep, workerVars
      <3> QED
        BY <3>1, <3>2
    <2>2. /\ row.ledger # NoLedger /\ row.ledger.pending # {}
          /\ \A w \in Workers : at[w] \notin {"reserved", "called"}
          /\ Orphans \subseteq row.ledger.pending
      BY <2>1, OrphansAlone
    <2>3. row.status # "paused"
      BY <2>1, <2>2 DEF AloneInv, Unused, Fresh
    <2>4. row' = row
      BY <1>1, <2>3 DEF RequestStep, rowVars
    <2> QED
      BY <2>1, <2>2, <2>4, OrphansStay
  <1>2. ASSUME NEW w \in Workers, WorkerStep(w)
        PROVE  calls' = calls /\ Orphans \subseteq Orphans'
    <2>1. ~overwritten /\ Private(w)
      BY <1>2 DEF WorkerStep, Claims, Loads, Ordinary, Reserves, Calls, Completes, Keeps,
                  Evaluates, Concludes
    <2>2. /\ row.ledger # NoLedger /\ row.ledger.pending # {}
          /\ \A v \in Workers : at[v] \notin {"reserved", "called"}
          /\ Orphans \subseteq row.ledger.pending
      BY <2>1, OrphansAlone
    <2>3. at[w] # "idle" => WorkerOK(w)
      BY <2>1, AtWork
    <2> SUFFICES /\ calls' = calls /\ at'[w] \notin {"reserved", "called"}
                 /\ row'.ledger # NoLedger /\ row.ledger.pending \subseteq row'.ledger.pending
      BY <2>1, <2>2, OrphansStay DEF Private
    <2>4. CASE Claims(w) \/ Loads(w) \/ Keeps(w) \/ Concludes(w)
      BY <2>2, <2>4 DEF Claims, Loads, Keeps, Concludes
    <2>5. CASE Ordinary(w)
      <3>1. calls' = calls /\ at'[w] \notin {"reserved", "called"} /\ at[w] # "idle"
        BY <2>5 DEF Ordinary
      <3>2. CASE UNCHANGED <<row, copy>>
        BY <2>2, <3>1, <3>2
      <3>3. ASSUME NEW l \in SoundLedger, Annotates(w, l)
            PROVE  row'.ledger # NoLedger /\ row.ledger.pending \subseteq row'.ledger.pending
        BY <3>3, SetsOK DEF Annotates, Updates
      <3>4. CASE Writes(w)
        BY <2>2, <2>3, <3>1, <3>4 DEF Writes, WorkerOK
      <3> QED
        BY <2>5, <3>1, <3>2, <3>3, <3>4 DEF Ordinary
    <2>6. CASE Evaluates(w)
      BY <2>2, <2>6 DEF Evaluates, Updates, Verdict
    <2> QED
      BY <1>2, <2>2, <2>4, <2>5, <2>6 DEF WorkerStep, Reserves, Calls, Completes
  <1>3. CASE UNCHANGED vars
    BY <1>3 DEF vars, rowVars, storeVars, workerVars, requestVars, historyVars, Orphans
  <1> QED
    BY <1>1, <1>2, <1>3, TypesKept

\* After a crash in the middle of a call nothing is called any more: no recovery
\* answers for the attempt or repeats it.
THEOREM Ambiguity == Spec => AmbiguityHolds
  <1>1. TypeInv /\ AloneInv /\ [Next]_vars => TypeInv' /\ AloneInv'
    BY TypesKept, AloneKept
  <1>2. TypeInv /\ AloneInv /\ [Next]_vars =>
           [Orphans # {} /\ ~overwritten' => calls' = calls /\ Orphans \subseteq Orphans']_vars
    BY OrphansHold
  <1> QED
    BY InitTypes, InitAlone, <1>1, <1>2, PTL DEF Spec, AmbiguityHolds
================================================================================
