----------------------------- MODULE StoredRecords -----------------------------
(***************************************************************************)
(* How an Observation and an Experiment come back from the database          *)
(* (packages/db, observationFromRow and experimentFromTimelineRow).  An       *)
(* Observation is stored twice over: its identity in columns, and the whole   *)
(* of it as a JSON document of facts, which is read back field by field, by   *)
(* the kind of the resource, and only where it has the expected type.         *)
(*                                                                         *)
(* The in-memory store keeps the object it is given, so the tests never see   *)
(* this conversion.  A fact is a record of its type and its value; null and   *)
(* undefined are Absent.                                                    *)
(***************************************************************************)
EXTENDS Sequences, TLC

CONSTANT Absent

Kinds == {"Deployment", "StatefulSet", "DaemonSet", "ReplicaSet", "Pod", "Job", "CronJob", "Event"}

Fact(type, is) == [type |-> type, is |-> is]

True  == Fact("boolean", "true")
False == Fact("boolean", "false")

-----------------------------------------------------------------------------
(* What packages/cluster produces (normalizeObservation).                    *)

\* The fields of a kind besides the common ones, with their types.
OwnFields(kind) ==
    LET Numbers(names) == [n \in names |-> "number"]
        Texts(names)   == [n \in names |-> "string"]
        Flags(names)   == [n \in names |-> "boolean"]
    IN CASE kind = "Deployment" ->
              Numbers({"desiredReplicas", "availableReplicas", "readyReplicas", "updatedReplicas",
                       "unavailableReplicas"})
         [] kind = "StatefulSet" ->
              Numbers({"desiredReplicas", "readyReplicas", "currentReplicas", "updatedReplicas"})
              @@ Texts({"currentRevision", "updateRevision"})
         [] kind = "DaemonSet" ->
              Numbers({"desiredReplicas", "currentReplicas", "readyReplicas", "updatedReplicas",
                       "availableReplicas", "unavailableReplicas"})
         [] kind = "ReplicaSet" ->
              Numbers({"desiredReplicas", "currentReplicas", "readyReplicas", "availableReplicas"})
         [] kind = "Pod" -> Texts({"phase"}) @@ Flags({"ready"})
         [] kind = "Job" ->
              Numbers({"desiredCompletions", "active", "succeeded", "failed"}) @@ Texts({"completionTime"})
         [] kind = "CronJob" ->
              Texts({"schedule", "lastScheduleTime", "lastSuccessfulTime"})
              @@ Flags({"suspend"}) @@ Numbers({"active"})
         [] kind = "Event" ->
              Texts({"eventType", "firstTimestamp", "lastTimestamp", "involvedKind", "involvedName",
                     "involvedNamespace", "involvedUid"})
              @@ Numbers({"count"})

\* The reasons of abnormalReason.
ReasonCodes ==
    {"condition_failed", "pod_not_ready", "deployment_replicas_unavailable",
     "statefulset_replicas_not_ready", "daemonset_nodes_not_ready", "replicaset_replicas_not_ready",
     "job_failed", "cronjob_suspended", "event_warning"}

\* baseObservation: an Observation that needs attention has a reason.
Base(reason, text, owners, labels) ==
    [ classification  |-> Fact("string", IF reason = Absent THEN "change" ELSE "attention"),
      attention       |-> IF reason = Absent THEN False ELSE True,
      attentionReason |-> reason,
      recoveryOf      |-> Absent,
      reason          |-> text,
      message         |-> text,
      revision        |-> text,
      ownerReferences |-> owners,
      labels          |-> labels ]

\* markRecovery: an Observation after one that needed attention.
Recovering(base, previous) ==
    [base EXCEPT !.classification = Fact("string", "recovery"), !.recoveryOf = previous]

Identity == {"workspaceId", "clusterId", "sourceIdentity", "sourceKey", "uid", "name", "namespace",
             "resourceVersion", "observedAt"}

-----------------------------------------------------------------------------
(* The row.                                                                 *)

\* Identity and kind have columns; facts is the whole Observation
\* (normalizedFacts).
RowOf(observation) ==
    [kind |-> observation.kind, facts |-> observation]
    @@ [f \in Identity |-> observation[f]]

\* factString, factNumber and factBoolean: a fact, if it has the type.
FactOf(type, facts, key) ==
    IF key \in DOMAIN facts /\ facts[key] # Absent
       /\ facts[key].type = type /\ (type = "number" => facts[key].is # "negative")
    THEN facts[key] ELSE Absent

FactString(facts, key)  == FactOf("string", facts, key)
FactNumber(facts, key)  == FactOf("number", facts, key)
FactBoolean(facts, key) == FactOf("boolean", facts, key)

\* factAttentionReason: only the codes it knows.
FactAttentionReason(facts) ==
    LET reason == FactString(facts, "attentionReason")
        codes  == {"condition_failed", "pod_not_ready", "deployment_replicas_unavailable",
                   "statefulset_replicas_not_ready", "daemonset_nodes_not_ready",
                   "replicaset_replicas_not_ready", "job_failed", "cronjob_suspended", "event_warning"}
    IN IF reason # Absent /\ reason.is \in codes THEN reason ELSE Absent

\* Owners with a kind and a name; their uid if it is a string.
OwnersOf(facts) ==
    IF "ownerReferences" \notin DOMAIN facts \/ facts["ownerReferences"] = Absent THEN <<>>
    ELSE LET named == SelectSeq(facts["ownerReferences"],
                          LAMBDA o : FactString(o, "kind") # Absent /\ FactString(o, "name") # Absent)
         IN [i \in DOMAIN named |->
                [ kind       |-> named[i].kind,
                  name       |-> named[i].name,
                  uid        |-> FactString(named[i], "uid"),
                  controller |-> IF FactBoolean(named[i], "controller") = True THEN True ELSE False ]]

\* Labels with a text.
LabelsOf(facts) ==
    IF "labels" \notin DOMAIN facts \/ facts["labels"] = Absent THEN [k \in {} |-> Absent]
    ELSE LET kept == {k \in DOMAIN facts["labels"] : FactString(facts["labels"], k) # Absent}
         IN [k \in kept |-> facts["labels"][k]]

\* commonObservation: what is neither attention nor recovery is a change, and
\* facts that do not say whether they need attention follow their class.
CommonObservation(row) ==
    LET raw   == FactString(row.facts, "classification")
        class == IF raw # Absent /\ raw.is \in {"attention", "recovery"} THEN raw ELSE Fact("string", "change")
        flag  == FactBoolean(row.facts, "attention")
    IN [f \in Identity |-> row[f]]
       @@ [ classification  |-> class,
            attention       |-> IF flag # Absent THEN flag
                                ELSE IF class.is = "attention" THEN True ELSE False,
            attentionReason |-> FactAttentionReason(row.facts),
            ownerReferences |-> OwnersOf(row.facts),
            labels          |-> LabelsOf(row.facts) ]
       @@ [f \in {"recoveryOf", "reason", "message", "revision"} |-> FactString(row.facts, f)]

\* The facts that observationFromRow reads for each kind.
ReadNumbers(kind) ==
    CASE kind = "Deployment"  -> {"desiredReplicas", "availableReplicas", "readyReplicas",
                                  "updatedReplicas", "unavailableReplicas"}
      [] kind = "StatefulSet" -> {"desiredReplicas", "readyReplicas", "currentReplicas", "updatedReplicas"}
      [] kind = "DaemonSet"   -> {"desiredReplicas", "currentReplicas", "readyReplicas", "updatedReplicas",
                                  "availableReplicas", "unavailableReplicas"}
      [] kind = "ReplicaSet"  -> {"desiredReplicas", "currentReplicas", "readyReplicas", "availableReplicas"}
      [] kind = "Job"         -> {"desiredCompletions", "active", "succeeded", "failed"}
      [] kind = "CronJob"     -> {"active"}
      [] kind = "Event"       -> {"count"}
      [] OTHER                -> {}

ReadStrings(kind) ==
    CASE kind = "StatefulSet" -> {"currentRevision", "updateRevision"}
      [] kind = "Pod"         -> {"phase"}
      [] kind = "Job"         -> {"completionTime"}
      [] kind = "CronJob"     -> {"schedule", "lastScheduleTime", "lastSuccessfulTime"}
      [] kind = "Event"       -> {"eventType", "firstTimestamp", "lastTimestamp", "involvedKind",
                                  "involvedName", "involvedNamespace", "involvedUid"}
      [] OTHER                -> {}

ReadBooleans(kind) ==
    CASE kind = "Pod"     -> {"ready"}
      [] kind = "CronJob" -> {"suspend"}
      [] OTHER            -> {}

ObservationFromRow(row) ==
    CommonObservation(row)
    @@ [kind |-> row.kind]
    @@ [f \in ReadNumbers(row.kind) |-> FactNumber(row.facts, f)]
    @@ [f \in ReadStrings(row.kind) |-> FactString(row.facts, f)]
    @@ [f \in ReadBooleans(row.kind) |-> FactBoolean(row.facts, f)]

-----------------------------------------------------------------------------
(* Entries of the Timeline.                                                 *)

\* timelineEntryFromRow for an Observation: a row without one is an error; an
\* Attention Item is one by its own row, else by its facts.
ObservationEntry(row, item, unread) ==
    IF \E f \in Identity \ {"resourceVersion"} : row[f] = Absent THEN Absent
    ELSE LET observation == ObservationFromRow(row) IN
    [ observation |-> observation, attentionReason |-> observation.attentionReason,
      recoveryOf |-> observation.recoveryOf,
      attentionItem |-> IF item # Absent THEN item ELSE observation.attention,
      unread |-> unread = True ]

\* workloadFromValue: all four parts are there, and are text.
WorkloadParts == {"clusterId", "namespace", "kind", "name"}
WorkloadFromValue(value) ==
    IF \A f \in WorkloadParts : FactString(value, f) # Absent
    THEN [f \in WorkloadParts |-> value[f]] ELSE Absent

\* experimentFromTimelineRow: a row without an Experiment is an error; the
\* workloads come in the order their rows are aggregated in.
Required == {"id", "text", "conclusion", "state"}
ExperimentFromRow(row) ==
    IF \E f \in Required : row[f] = Absent THEN Absent
    ELSE [row EXCEPT
            !.tags = IF @ = Absent THEN <<>> ELSE @,
            !.workloads = SelectSeq([i \in DOMAIN @ |-> WorkloadFromValue(@[i])], LAMBDA w : w # Absent)]

-----------------------------------------------------------------------------
(* What is asked of it.                                                     *)

\* An Observation is read as it was written, and listed as an Attention Item if
\* it needs attention.
RoundTrip(observation) ==
    LET entry == ObservationEntry(RowOf(observation), Absent, Absent) IN
    entry.observation = observation /\ entry.attentionItem = observation.attention

\* Whatever is in the facts, what is read has its type, and reads the same once
\* it has been stored again.
ReadIsStable(row) ==
    LET observation == ObservationFromRow(row) IN
    /\ \A f \in DOMAIN OwnFields(row.kind) :
           observation[f] # Absent => observation[f].type = OwnFields(row.kind)[f]
    /\ observation.attentionReason # Absent => observation.attentionReason.is \in ReasonCodes
    /\ RoundTrip(observation)
=============================================================================
