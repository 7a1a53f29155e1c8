-------------------------- MODULE MCKubernetesAdapter --------------------------
(***************************************************************************)
(* Two collections, listed together or one alone, and a small buffer.       *)
(* Besides, resources of every kind are normalized on both paths.           *)
(***************************************************************************)
EXTENDS KubernetesAdapter, ObservationNormalization

CONSTANTS c1, c2, o1, o2, ns

MCCollections == {c1, c2}
MCObjects == {o1, o2}
MCRequested == {<<c1>>, <<c1, c2>>}
MCUseful == {"app", "hash"}

Plain(kind) ==
    [ kind |-> kind, namespace |-> ns, about |-> Absent, uid |-> "u", resourceVersion |-> "1",
      labels |-> <<>>, annotations |-> <<>>, owners |-> <<"owner">>, conditions |-> <<>>,
      count |-> [f \in {"desired", "ready", "available", "unavailable", "succeeded", "failed"} |-> 0],
      reason |-> Absent, phase |-> "Running", type |-> "Normal", suspend |-> FALSE,
      updateRevision |-> Absent, generation |-> "g1", finished |-> "time" ]

\* Every replica count up to two, as the controllers report it.
Counted ==
    {[Plain(kind) EXCEPT !.count = [desired |-> d, ready |-> n, available |-> n,
                                    unavailable |-> IF n < d THEN d - n ELSE 0,
                                    succeeded |-> n, failed |-> f]] :
        kind \in {"Deployment", "StatefulSet", "DaemonSet", "ReplicaSet", "Job"},
        d \in 0..2, n \in 0..2, f \in 0..1}

Conditioned ==
    {[Plain(kind) EXCEPT !.conditions = cs] :
        kind \in {"Deployment", "Pod", "Job"},
        cs \in BoundedSeq({[type |-> "Available", status |-> "True", reason |-> "blank"],
                           [type |-> "Progressing", status |-> "False", reason |-> "late"],
                           [type |-> "Failed", status |-> "Unknown", reason |-> "lost"],
                           [type |-> "Ready", status |-> "False", reason |-> "CrashLoopBackOff"]}, 3)}

\* Maps, in the order of their entries.
Maps(keys, values) ==
    {m \in BoundedSeq([key : keys, value : values], 3) :
        \A i, j \in DOMAIN m : m[i].key = m[j].key => i = j}

Labelled ==
    {[Plain("ReplicaSet") EXCEPT !.labels = ls, !.annotations = as] :
        ls \in Maps({"app", "hash", "team"}, {"v", "long"}),
        as \in Maps({"revision", "note"}, {"v", "blank"})}

Others ==
    {[Plain("Pod") EXCEPT !.phase = p, !.reason = w] :
        p \in {"Running", "Failed", "Unknown"}, w \in {Absent, "blank", "CrashLoopBackOff"}}
    \cup {[Plain("CronJob") EXCEPT !.suspend = s] : s \in BOOLEAN}
    \cup {[Plain("Event") EXCEPT !.type = t, !.namespace = n, !.about = ns] :
             t \in {"Normal", "Warning"}, n \in {ns, Absent}}

Resources == Counted \cup Conditioned \cup Labelled \cup Others

\* A resource gives the same Observation whether a list or a watch brings it
\* first, as long as it has no more labels, annotations and conditions than a
\* list keeps (projectResourceResponse, normalizeObservation).
ASSUME PathIndependent ==
    \A r \in Resources : WithinLimits(r) => PathsAgree(r, ns)

\* A workload that has fewer replicas than asked for is classified as
\* attention, also when the API server leaves a zero out (abnormalReason).  The
\* exception is a StatefulSet without any ready replica: its readyReplicas is
\* left out, and what is not reported is not compared.
ASSUME ShortfallIsAttention ==
    \A r \in Resources :
        FallsShort(r) /\ ~(r.kind = "StatefulSet" /\ r.count.ready = 0) =>
            ByWatch(r).attentionReason # Absent
-----------------------------------------------------------------------------
Rows == INSTANCE StoredRecords

Words == Rows!Fact("string", "a")

\* One value of each type, and values that no field expects.
Sample(type) == IF type = "number" THEN Rows!Fact(type, "count")
                ELSE IF type = "boolean" THEN Rows!False ELSE Words
Strange == {Absent, Rows!Fact("number", "negative"), Rows!Fact("string", "unknown"), Rows!Fact("object", "empty")}

Owner(uid) == [kind |-> Words, name |-> Words, uid |-> uid, controller |-> Rows!True]
Nobody == [kind |-> Words, name |-> Absent, uid |-> Absent, controller |-> Absent]

\* Observations of a kind with some of its optional fields, as they are
\* normalized and as a recovery.
Bases ==
    LET plain == {Rows!Base(reason, text, owners, labels) :
            reason \in {Absent} \cup {Rows!Fact("string", c) : c \in Rows!ReasonCodes},
            text   \in {Absent, Words},
            owners \in {<<>>, <<Owner(Absent)>>, <<Owner(Words), Owner(Absent)>>},
            labels \in {[k \in ks |-> Words] : ks \in SUBSET {"app", "version"}}}
    IN plain \cup {Rows!Recovering(b, Words) : b \in {x \in plain : x.attention = Rows!False}}

Observed(kind, base, present) ==
    LET own == Rows!OwnFields(kind) IN
    base @@ [f \in Rows!Identity |-> Words] @@ [kind |-> kind]
         @@ [f \in DOMAIN own |-> IF f \in present THEN Sample(own[f]) ELSE Absent]

\* What normalizeObservation and markRecovery produce is read back from its row
\* as it was written, for every kind, every attention reason and every set of
\* fields that a resource may lack (observationFromRow).
ASSUME ObservationsRoundTrip ==
    \A kind \in Rows!Kinds :
        /\ \A present \in SUBSET DOMAIN Rows!OwnFields(kind) :
               Rows!RoundTrip(Observed(kind, Rows!Base(Absent, Words, <<>>, <<>>), present))
        /\ \A base \in Bases : Rows!RoundTrip(Observed(kind, base, DOMAIN Rows!OwnFields(kind)))

\* Whatever the facts of a row hold -- fields missing, null, of another type,
\* owners and labels that are not named -- the Observation that is read has the
\* types of its kind, and storing and reading it again changes nothing.
ASSUME ReadingIsStable ==
    \A kind \in Rows!Kinds, value \in Strange, left \in {{}, {"attention", "labels", "ownerReferences"}} :
        LET whole == Observed(kind, Rows!Base(Words, Words, <<Owner(Absent), Nobody>>,
                                              [app |-> Words, version |-> Absent]),
                              DOMAIN Rows!OwnFields(kind))
            facts == (DOMAIN whole) \ (Rows!Identity \cup {"kind", "labels", "ownerReferences"})
        IN \A odd \in SUBSET (facts \cap {"classification", "attention", "attentionReason", "recoveryOf",
                                          "active", "ready", "suspend", "phase", "currentReplicas", "count"}) :
               Rows!ReadIsStable(
                   [ Rows!RowOf(whole) EXCEPT
                        !.facts = [f \in DOMAIN whole \ left |-> IF f \in odd THEN value ELSE whole[f]] ])

\* An Experiment is read with every field of its row, whatever its optional
\* ones are; only a row without an Experiment is refused, and only a workload
\* without all its parts is left out (experimentFromTimelineRow).
ASSUME ExperimentsRead ==
    LET whole  == [f \in Rows!WorkloadParts |-> Words]
        broken == [whole EXCEPT !["kind"] = Absent]
        row(ws, tags, revision) ==
            [id |-> Words, text |-> Words, conclusion |-> Words, state |-> Words,
             tags |-> tags, workloads |-> ws, revision |-> revision]
    IN \A ws \in BoundedSeq({whole, broken}, 3), tags \in {<<>>, <<Words>>}, revision \in {Absent, Words} :
           /\ Rows!ExperimentFromRow(row(ws, tags, revision))
                = row(SelectSeq(ws, LAMBDA w : w = whole), tags, revision)
           /\ \A f \in Rows!Required :
                  Rows!ExperimentFromRow([row(ws, tags, revision) EXCEPT ![f] = Absent]) = Absent
=============================================================================
