------------------------ MODULE MCAuthorityExtension ------------------------
(* Small instances of AuthorityExtension for TLC. *)
EXTENDS AuthorityExtension, TLC

CONSTANTS q1, q2, w1, w2, n1

TwoRequests == {q1, q2}
TwoWorkers == {w1, w2}
OneNeed == {n1}
Nothing == {}
InACall == {"called"}
Symmetry == Permutations(TwoWorkers) \cup Permutations(TwoRequests)

\* Two states differ no further when they differ only in what an actor will
\* write again before it reads it, in how a request ended, in the number of a
\* version, of which only whether it is current is asked, in a document whose
\* version is no longer current and that no save will write, in calls that no
\* property counts any more, in how the extension ended unless it succeeded, or
\* in which of the two kinds of evidence disqualifies a need.
Loaded == Place \ {"idle", "claimed", "loaded"}
Merging == {"dating", "saving", "comparing", "merging", "resuming"}
Dated == {"saving", "merging", "resuming"}
Ended == {"answered", "refused", "dead"}
Graded(E) == {<<e[1], e[2] = "supporting">> : e \in E}
LedgerView(l) ==
    IF l = NoLedger THEN <<>>
    ELSE <<l.search, l.provider, l.reserved, l.analysed, l.known, l.pending,
           Graded(l.observed), l.found>>
DocumentView(d) == <<d.status, d.stage, d.task, d.progress, LedgerView(d.ledger)>>
NotYetRead(d) == [d EXCEPT !.ledger = NoLedger, !.progress = FALSE]
WorkerView(w) ==
    IF at[w] \notin Loaded
    THEN <<at[w], IF at[w] = "loaded" THEN NotYetRead(copy[w]) ELSE Created>>
    ELSE IF expected[w] # version /\ at[w] \in {"start", "pick", "done", "failing"}
    THEN <<"leaving", Created, handled[w]>>
    ELSE <<IF at[w] = "conflicting" THEN "insufficient" ELSE at[w],
           IF expected[w] = version THEN DocumentView(copy[w])
           ELSE <<copy[w].stage, copy[w].progress>>,
           handled[w], expected[w] = version,
           IF at[w] \in {"reserved", "called", "answered"} THEN attempt[w] ELSE <<"", 0>>>>
RequestView(q) ==
    IF step[q] \in Ended THEN <<"ended", Created>>
    ELSE IF step[q] \in Dated /\ seen[q] # version THEN <<"refusing", Created>>
    ELSE <<step[q], IF step[q] \notin Merging THEN Created
                    ELSE IF step[q] \in {"comparing", "merging"} THEN NotYetRead(read[q])
                    ELSE DocumentView(read[q])>>
View ==
    <<DocumentView(row), extension.run # NoRequest, extension.status = "succeeded", composed,
      Graded(evidence), findings, overwritten, faults,
      [w \in Workers |-> WorkerView(w)], [q \in Requests |-> RequestView(q)],
      IF overwritten THEN [k \in Kinds |-> IF k = "analysis" /\ calls[k] > 0 THEN 1 ELSE 0]
      ELSE calls>>
===============================================================================
