------------------------------ MODULE MCDelivery ------------------------------
(***************************************************************************)
(* The two sides of a delivery: how the Jobs and pods of an old and a new   *)
(* release start, and which previews are there to be started.  They share   *)
(* no state, so a behaviour is about one of them while the other rests.     *)
(* The decisions about previews are compared with what they should be for   *)
(* all records of three pull requests.                                       *)
(***************************************************************************)
EXTENDS Startup

CONSTANTS oldJob, newJob, oldPod, newPod, Numbers, Capacity, MaxChanges, MaxErrors

VARIABLES pull, digests, label, namespace, parts, pass, doomed, changes, errors, side

previewVars == <<pull, digests, label, namespace, parts, pass, doomed, changes, errors>>

Previews == INSTANCE PreviewLifecycle

ASSUME MCPreviewAssumption == Previews!PreviewAssumption

MCMigrators == {oldJob, newJob}
MCServices  == {oldPod, newPod}
MCSchema    == [p \in MCMigrators \cup MCServices |-> IF p \in {oldJob, oldPod} THEN 2 ELSE 3]

Quantity(cpu, memory, pods) == [cpu |-> cpu, memory |-> memory, pods |-> pods]

\* There is room for one preview.
MCCapacity ==
    [max |-> 2, cluster |-> Quantity(8, 9, 9), production |-> Quantity(5, 2, 2),
     aggregate |-> Quantity(6, 6, 6), each |-> Quantity(2, 3, 1)]

-----------------------------------------------------------------------------
(* The decisions.                                                           *)

Resource == {"cpu", "memory", "pods"}

\* The defaults (millicores, Mi, pods), and each bound as the one that binds.
Capacities ==
    {[max |-> 10, cluster |-> Quantity(4000, 16384, 100), production |-> Quantity(2000, 4096, 20),
      aggregate |-> Quantity(2000, 8192, 80), each |-> Quantity(275, 704, 8)]}
    \cup {[max |-> m, cluster |-> free, production |-> Quantity(1, 1, 1),
           aggregate |-> Quantity(6, 6, 6), each |-> Quantity(1, 2, 3)] :
              m \in {1, 2}, free \in [Resource -> {1, 3, 6, 12}]}

Records == [state : {"open", "closed"}, draft : BOOLEAN, trusted : BOOLEAN]

\* How many previews there is room for.
Places(c) ==
    Cardinality({k \in 1..c.max : \A r \in Resource :
        k * c.each[r] <= c.aggregate[r] /\ k * c.each[r] + c.production[r] <= c.cluster[r]})

Eligible(records) ==
    {n \in DOMAIN records : records[n].state = "open" /\ ~records[n].draft /\ records[n].trusted}

\* The lowest numbers are admitted, as many as there is room for, and so never
\* more than production leaves (previewAdmissionDecisions).
ASSUME DecisionsFillPlaces ==
    \A c \in Capacities, records \in [1..3 -> Records] :
        Previews!AdmittedBy(Previews!Decisions(records, c)) =
            {n \in Eligible(records) : Cardinality({m \in Eligible(records) : m < n}) < Places(c)}

\* The delivery package and the controller agree: what the one deletes is not
\* admitted by the other, and what is admitted is there or gets created.
ASSUME DecisionsAgree ==
    \A c \in Capacities, records \in [1..2 -> Records], existing \in SUBSET (1..3) :
        LET admitted == Previews!AdmittedBy(Previews!Decisions(records, c))
            todo     == Previews!Reconciliation(records, existing)
        IN  /\ \A n \in admitted : n \in existing \ DOMAIN todo \/ todo[n] = "create, eligible"
            /\ (\A n \in DOMAIN records : records[n].trusted) =>
                   admitted = Previews!AdmittedBy(Previews!Admissions(records, c))

-----------------------------------------------------------------------------
(* One side at a time.                                                      *)

MCInit ==
    /\ Init /\ Previews!Init
    /\ side \in {"startup", "previews"}
    /\ side = "startup" =>
           /\ digests = {} /\ \A n \in Numbers : pull[n].state = "none" /\ namespace[n] = "none"
    /\ side = "previews" => \A s \in Services : at[s] = "schema"

allVars == <<vars, previewVars, side>>

Starts(A) == side = "startup" /\ A /\ UNCHANGED <<previewVars, side>>
Reconciles(A) == side = "previews" /\ A /\ UNCHANGED <<vars, side>>

MCNext == Starts(Next) \/ Reconciles(Previews!Next)

\* The fairness of both modules, for the side that moves.
MCFairness ==
    /\ WF_allVars(Starts(DatabaseReturns))
    /\ \A m \in Migrators : WF_allVars(Starts(Job(m)))
    /\ \A s \in Services :
          /\ SF_allVars(Starts(SchemaReady(s))) /\ SF_allVars(Starts(Verify(s)))
          /\ WF_allVars(Starts(Connect(s)))
    /\ WF_allVars(Reconciles(Previews!Pass))
    /\ \A n \in Numbers : WF_allVars(Reconciles(Previews!Terminate(n)))

MCFairSpec == MCInit /\ [][MCNext]_allVars /\ MCFairness

-----------------------------------------------------------------------------
\* A release comes up (Startup).
ReleaseComesUp == side = "startup" => ComesUp

\* A labelled pull request has a complete namespace (PreviewLifecycle).
LabelledIsProvisioned == Previews!LabelledIsProvisioned

\* Previews become what they are to be (PreviewLifecycle).
PreviewsConverge == side = "previews" => Previews!Converges
=============================================================================
