----------------------- MODULE ObservationNormalization -----------------------
(***************************************************************************)
(* How packages/cluster turns a Kubernetes resource into an Observation.    *)
(*                                                                         *)
(* A resource reaches the normalization on two paths: a list projects each  *)
(* item to a bounded record first, a watch hands the object over as it came. *)
(* Both give the same source key, and of two Observations with one source   *)
(* key the database keeps the first: it must not matter which one it is.    *)
(*                                                                         *)
(* A resource is a record of what the code reads.  Strings are abstracted   *)
(* to what is asked of them: "blank" trims to nothing, "long" is beyond the *)
(* length a projected label or annotation may have.                         *)
(***************************************************************************)
EXTENDS Naturals, Sequences, SequencesExt

CONSTANTS
    Absent,         \* null and undefined
    MapLimit,       \* labels and annotations that a list keeps (64)
    ConditionLimit, \* conditions that a list keeps (32)
    OwnerLimit,     \* owner references that are kept (16)
    UsefulLabels    \* the label keys an Observation keeps

ASSUME NormalizationAssumption ==
    MapLimit \in Nat /\ ConditionLimit \in Nat /\ OwnerLimit \in Nat

Kinds == {"Deployment", "StatefulSet", "DaemonSet", "ReplicaSet", "Pod", "Job", "CronJob", "Event"}

\* Counters the API server leaves out of its JSON when they are zero; the
\* others are required fields.
Omitted(kind) ==
    CASE kind = "Deployment" -> {"ready", "available", "unavailable"}
      [] kind \in {"StatefulSet", "ReplicaSet"} -> {"ready", "available"}
      [] kind = "Job" -> {"succeeded", "failed"}
      [] OTHER -> {}

\* The object as the API server sends it.
Served(r) ==
    [r EXCEPT !.count = [f \in DOMAIN r.count |->
        IF f \in Omitted(r.kind) /\ r.count[f] = 0 THEN Absent ELSE r.count[f]]]

Or(value, default) == IF value = Absent THEN default ELSE value

\* optionalString.
Text(value) == IF value = "blank" THEN Absent ELSE value

Take(s, limit) == SubSeq(s, 1, IF Len(s) < limit THEN Len(s) ELSE limit)

-----------------------------------------------------------------------------
(* The projection of a list item.                                           *)

\* projectedMap: the first entries, those with a short value.
ProjectedMap(entries) == SelectSeq(Take(entries, MapLimit), LAMBDA e : e.value \notin {"blank", "long"})

\* Owners without a kind or a name are left out.
Owners(owners) == Take(SelectSeq(owners, LAMBDA o : Text(o) # Absent), OwnerLimit)

\* Conditions without a type or a status are left out.
ProjectedConditions(conditions) ==
    Take(SelectSeq(conditions, LAMBDA c : c.type # Absent /\ c.status # Absent), ConditionLimit)

\* projectedSpec and projectedStatus keep the counters of the kind.
ProjectedCounts(r) == r.count

\* projectResourceResponse: the client parses timestamps into dates, which
\* the projection, looking for strings, leaves out.
Projected(r, namespace) ==
    [r EXCEPT
        !.namespace = Or(Text(r.namespace), Or(Text(r.about), namespace)),
        !.labels = ProjectedMap(r.labels),
        !.annotations = ProjectedMap(r.annotations),
        !.owners = Owners(r.owners),
        !.conditions = ProjectedConditions(r.conditions),
        !.count = ProjectedCounts(r),
        !.reason = Text(r.reason),
        !.suspend = IF r.kind = "CronJob" THEN r.suspend ELSE Absent,
        !.finished = Absent]

-----------------------------------------------------------------------------
(* Classification.                                                          *)

\* The first element that passes, or Absent.
First(s, Test(_)) ==
    LET i == SelectInSeq(s, Test) IN IF i = 0 THEN Absent ELSE s[i]

Condition(r, type) == First(r.conditions, LAMBDA c : c.type = type)

IsAbnormal(c) ==
    \/ c.type \in {"Failed", "Degraded"} /\ c.status \in {"True", "Unknown"}
    \/ c.type \in {"Available", "Progressing"} /\ c.status \in {"False", "Unknown"}

\* abnormalCondition: the first relevant condition that is abnormal.
AbnormalCondition(r) == First(r.conditions, IsAbnormal)

PodNotReady(r) ==
    LET ready == Condition(r, "Ready")
        reason == Or(Text(r.reason), IF ready = Absent THEN Absent ELSE Text(ready.reason))
    IN \/ reason = "CrashLoopBackOff"
       \/ r.phase \in {"Failed", "Unknown"}
       \/ ready # Absent /\ ready.status = "False"

\* An optional number is below (above) a bound.
Below(value, bound) == value # Absent /\ value < bound
Above(value, bound) == value # Absent /\ value > bound

\* The replica and completion counters of abnormalReason.
ShortOfReplicas(r) ==
    LET n == r.count IN
    CASE r.kind = "Deployment" -> Below(n.available, Or(n.desired, 1)) \/ Above(n.unavailable, 0)
      [] r.kind = "StatefulSet" -> Below(n.ready, Or(n.desired, 1))
      [] r.kind \in {"DaemonSet", "ReplicaSet"} -> Or(n.ready, 0) < Or(n.desired, 0)
      [] r.kind = "Job" -> Above(n.failed, 0) /\ Or(n.succeeded, 0) < Or(n.desired, 1)
      [] OTHER -> FALSE

\* abnormalReason, and with it attentionReason.
AbnormalReason(r) ==
    IF r.kind = "Event" THEN IF r.type = "Warning" THEN "event_warning" ELSE Absent
    ELSE IF AbnormalCondition(r) # Absent THEN "condition_failed"
    ELSE IF r.kind = "Pod" /\ PodNotReady(r) THEN "pod_not_ready"
    ELSE IF ShortOfReplicas(r) THEN "replicas_not_ready"
    ELSE IF r.kind = "CronJob" /\ r.suspend = TRUE THEN "cronjob_suspended"
    ELSE Absent

-----------------------------------------------------------------------------
(* The Observation.                                                         *)

ValueOf(entries, key) ==
    LET e == First(entries, LAMBDA x : x.key = key) IN IF e = Absent THEN Absent ELSE Text(e.value)

\* selectedLabels.
SelectedLabels(r) ==
    {e \in {r.labels[i] : i \in DOMAIN r.labels} :
        e.key \in UsefulLabels /\ e.value \notin {"blank", "long"}}

\* revisionFor: annotation, status, hash label, generation.
RevisionOf(r) ==
    LET hashes == {e \in SelectedLabels(r) : e.key = "hash"} IN
    Or(ValueOf(r.annotations, "revision"),
       Or(Text(r.updateRevision),
          IF hashes # {} THEN (CHOOSE e \in hashes : TRUE).value ELSE r.generation))

\* The condition whose reason an Observation carries.
ConditionFacts(r) ==
    LET among == [i \in 1..5 |-> Condition(r, <<"Failed", "Degraded", "Available", "Progressing", "Ready">>[i])]
    IN Or(AbnormalCondition(r), First(among, LAMBDA c : c # Absent))

ReasonOf(r) ==
    LET facts == IF r.kind = "Pod" THEN Condition(r, "Ready") ELSE ConditionFacts(r) IN
    Or(Text(r.reason), IF r.kind = "Event" \/ facts = Absent THEN Absent ELSE Text(facts.reason))

\* isResourceInScope: an Event without a namespace has that of its object.
InScope(scope, r) ==
    /\ r.kind \in scope.resourceKinds
    /\ Or(Text(r.namespace), Text(r.about)) \in scope.namespaces

\* normalizeObservation.
Normalize(r) ==
    LET ready == Condition(r, "Ready") IN
    [ sourceKey       |-> <<r.uid, r.resourceVersion>>,
      namespace       |-> Or(Text(r.namespace), Text(r.about)),
      attentionReason |-> AbnormalReason(r),
      reason          |-> ReasonOf(r),
      labels          |-> SelectedLabels(r),
      owners          |-> Owners(r.owners),
      revision        |-> RevisionOf(r),
      count           |-> r.count,
      suspend         |-> IF r.kind = "CronJob" THEN r.suspend ELSE Absent,
      ready           |-> IF ready = Absent \/ r.kind # "Pod" THEN Absent ELSE ready.status,
      finished        |-> r.finished ]

\* What arrives by a list, and by a watch.
ByList(r, namespace) == Normalize(Projected(Served(r), namespace))
ByWatch(r) == Normalize(Served(r))

-----------------------------------------------------------------------------
(* What is asked of it.                                                     *)

\* Nothing of the resource is beyond what a list keeps.
WithinLimits(r) ==
    /\ Len(r.labels) <= MapLimit
    /\ Len(r.annotations) <= MapLimit
    /\ Len(r.conditions) <= ConditionLimit

\* Both paths agree, but for the timestamps that only a watch carries.
PathsAgree(r, namespace) ==
    [ByList(r, namespace) EXCEPT !.finished = Absent] = [ByWatch(r) EXCEPT !.finished = Absent]

\* The resource has fewer replicas ready (Deployment: available) than asked
\* for, or a Job has failed pods and is not complete.
FallsShort(r) ==
    CASE r.kind = "Deployment" -> r.count.available < r.count.desired
      [] r.kind \in {"StatefulSet", "DaemonSet", "ReplicaSet"} -> r.count.ready < r.count.desired
      [] r.kind = "Job" -> r.count.failed > 0 /\ r.count.succeeded < r.count.desired
      [] OTHER -> FALSE
=============================================================================
