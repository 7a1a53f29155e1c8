--------------------------- MODULE PreviewAdmission ---------------------------
(***************************************************************************)
(* Which pull requests get a preview environment: the decisions of the      *)
(* lifecycle controller (scripts/preview-lifecycle-controller.mjs) and those *)
(* of packages/delivery, which the delivery tests use.                      *)
(*                                                                         *)
(* A record is what is known of a pull request: state, draft, and whether   *)
(* its digest file is on the protected branch (trusted).  Records are a     *)
(* function from pull request numbers.  A capacity has the number of        *)
(* environments (max) and, for every resource, the cluster's total, the     *)
(* production reservation, the aggregate budget and the price of one        *)
(* environment, as quantities in one unit.                                  *)
(***************************************************************************)
EXTENDS Integers, Sequences, FiniteSets, SequencesExt

\* In the order in which they are looked at.
Resources == <<"cpu", "memory", "pods">>

\* What all previews may use of resource r.
Available(c, r) ==
    LET free == c.cluster[r] - c.production[r]
    IN  IF c.aggregate[r] < free THEN c.aggregate[r] ELSE free

\* Otherwise the controller refuses to decide.
IsCapacity(c) == \A r \in ToSet(Resources) : Available(c, r) >= 0

\* The first resource of which there is too little for n environments.
Shortage(c, n) == SelectSeq(Resources, LAMBDA r : n * c.each[r] > Available(c, r))

\* What becomes of a record when count environments have been admitted.
Verdict(record, count, c) ==
    IF record.state # "open" \/ record.draft THEN "ineligible"
    ELSE IF ~record.trusted THEN "missing-trusted-digest"
    ELSE IF count >= c.max THEN "max-preview-environments"
    ELSE IF Shortage(c, count + 1) # <<>> THEN Head(Shortage(c, count + 1))
    ELSE "admitted"

AdmittedBy(verdicts) == {n \in DOMAIN verdicts : verdicts[n] = "admitted"}

\* previewAdmissionDecisions: one after the other, by number.
Decisions(records, c) ==
    FoldLeft(LAMBDA done, n : done @@ (n :> Verdict(records[n], Cardinality(AdmittedBy(done)), c)),
             <<>>, SetToSortSeq(DOMAIN records, LAMBDA m, n : m < n))

\* reconcilePreviewAdmissions of packages/delivery, which knows no digests.
Admissions(candidates, c) ==
    Decisions([n \in DOMAIN candidates |->
                  [state |-> candidates[n].state, draft |-> candidates[n].draft, trusted |-> TRUE]], c)

\* createPreviewDeclaration: what is declared exists for open ones only.
Declared(candidates) == {n \in DOMAIN candidates : candidates[n].state = "open" /\ ~candidates[n].draft}

\* reconcilePreviewEnvironments of packages/delivery: what to do about the
\* namespaces that exist, by pull request number.
Reconciliation(candidates, existing) ==
    [n \in (Declared(candidates) \ existing) \cup (existing \ Declared(candidates)) |->
        IF n \notin existing THEN "create, eligible"
        ELSE IF n \notin DOMAIN candidates THEN "delete, orphan"
        ELSE IF candidates[n].state = "closed" THEN "delete, closed"
        ELSE "delete, draft"]
=============================================================================
