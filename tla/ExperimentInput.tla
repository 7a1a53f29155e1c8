---------------------------- MODULE ExperimentInput ----------------------------
(***************************************************************************)
(* What a request may say about an Experiment (packages/domain, validate,    *)
(* createExperimentRecord, updateExperimentRecord).  The journal of module    *)
(* Experiments takes only what passes here.                                  *)
(*                                                                         *)
(* An input is a record of the fields a JSON document has: a field may be     *)
(* missing, or null, which is Absent.  Texts are abstracted to what is asked  *)
(* of them: "blank" trims to nothing, "padded" trims to "v", "wide" is beyond *)
(* what a tag, a name or a revision may have, "long" beyond what any field    *)
(* may have, "number" is no text, "odd" holds characters no name may hold.    *)
(* "text" stands for hypothesis, change and observation, which are treated    *)
(* alike.                                                                   *)
(***************************************************************************)
EXTENDS Sequences, FiniteSets, TLC

CONSTANTS
    Absent,      \* null and undefined
    NoList,      \* a value that is no array, no object or, in one, no workload
    Transitions  \* the states that may follow a state

States == DOMAIN Transitions
Parts  == {"clusterId", "namespace", "kind", "name"}

Get(value, field) == IF field \in DOMAIN value THEN value[field] ELSE Absent

\* value ?? other.
Or(value, other) == IF value # Absent THEN value ELSE other

IsText(value) == value # Absent /\ value # "number"
Trim(text)    == IF text = "padded" THEN "v" ELSE IF text = "blank" THEN "" ELSE text

Distinct(list) == \A i, j \in DOMAIN list : list[i] = list[j] => i = j

-----------------------------------------------------------------------------
(* The fields: what is wrong with them, and what is kept of them.           *)

\* nonEmptyString: the text is kept as it is.
NonEmpty(text) == IsText(text) /\ Trim(text) # "" /\ text # "long"

\* A conclusion must be given, and may be empty.
Conclusion(text) == IF IsText(text) /\ text # "long" THEN text ELSE ""
ConclusionFits(text, state) ==
    /\ IsText(text) /\ text # "long"
    /\ state = "concluded" => Trim(Conclusion(text)) # ""

\* state, or draft where there is none.
State(value) == IF value \in States THEN value ELSE "draft"

\* stringList: texts, trimmed, each of them short and only once.
IsTexts(list)   == list # NoList /\ \A i \in DOMAIN list : IsText(list[i])
Tags(list)      == IF IsTexts(list) THEN [i \in DOMAIN list |-> Trim(list[i])] ELSE <<>>
TagsFit(list)   ==
    /\ IsTexts(list)
    /\ \A i \in DOMAIN list : Trim(list[i]) \notin {"", "wide", "long"}
    /\ Distinct(Tags(list))

\* workloads: four identifiers, trimmed; others are left out.
Identified(item) ==
    /\ item # NoList
    /\ \A p \in Parts : IsText(item[p]) /\ Trim(item[p]) \notin {"", "wide", "long", "odd"}
Workloads(list) ==
    IF list = NoList THEN <<>>
    ELSE LET named == SelectSeq(list, Identified)
         IN [i \in DOMAIN named |-> [p \in Parts |-> Trim(named[i][p])]]
WorkloadsFit(list) ==
    /\ list # NoList /\ \A i \in DOMAIN list : Identified(list[i])
    /\ Distinct(Workloads(list))

\* gitRevision: none, or an identifier, trimmed.
Revision(text) == IF text = Absent \/ text = "" THEN Absent ELSE Trim(text)
RevisionFits(text) ==
    text # Absent /\ text # "" => IsText(text) /\ Trim(text) \notin {"", "wide", "long", "odd"}

-----------------------------------------------------------------------------
\* The older names of two fields count where the field itself is not given.
GivenState(input)     == Or(Get(input, "state"), Or(Get(input, "lifecycleState"), "draft"))
GivenWorkloads(input) == Or(Get(input, "workloads"), Or(Get(input, "associatedWorkloads"), <<>>))
GivenTags(input)      == Or(Get(input, "tags"), <<>>)

\* validate: the fields at which an issue is found ...
Issues(input) ==
    LET state == GivenState(input) IN
    (IF NonEmpty(Get(input, "text")) THEN {} ELSE {"text"})
    \cup (IF ConclusionFits(Get(input, "conclusion"), State(state)) THEN {} ELSE {"conclusion"})
    \cup (IF state \in States THEN {} ELSE {"state"})
    \cup (IF TagsFit(GivenTags(input)) THEN {} ELSE {"tags"})
    \cup (IF WorkloadsFit(GivenWorkloads(input)) THEN {} ELSE {"workloads"})
    \cup (IF RevisionFits(Get(input, "revision")) THEN {} ELSE {"revision"})

\* ... and what is accepted when there is none.
Validated(input) ==
    [ text |-> Get(input, "text"), conclusion |-> Get(input, "conclusion"), state |-> GivenState(input),
      tags |-> Tags(GivenTags(input)), workloads |-> Workloads(GivenWorkloads(input)),
      revision |-> Revision(Get(input, "revision")) ]

\* parseExperimentInput, and with it createExperimentRecord.
ParseExperimentInput(input) ==
    IF input = NoList \/ Issues(input) # {} THEN Absent ELSE Validated(input)

\* updateExperimentRecord: the input over the record, validated as a whole.
UpdateExperimentRecord(current, input) ==
    IF input = NoList THEN Absent
    ELSE LET value == ParseExperimentInput(input @@ current) IN
         IF value # Absent /\ value.state \in Transitions[current.state] THEN value ELSE Absent

-----------------------------------------------------------------------------
(* What is asked of it.                                                     *)

\* What was accepted is accepted again, as it is.
IsNormal(input) ==
    LET value == ParseExperimentInput(input) IN value # Absent => ParseExperimentInput(value) = value

\* An accepted update names every field that it changes, keeps the lifecycle in
\* order, and leaves a record that a later update takes as it is.
UpdatesNamedOnly(current, input) ==
    LET value == UpdateExperimentRecord(current, input) IN
    value # Absent =>
        /\ \A f \in DOMAIN current : f \notin DOMAIN input => value[f] = current[f]
        /\ UpdateExperimentRecord(value, [f \in {} |-> Absent]) = value
=============================================================================
