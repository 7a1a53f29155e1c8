----------------------------- MODULE MCExperiments -----------------------------
(***************************************************************************)
(* Two requests on one Experiment, and what requests may say, on samples of  *)
(* every field.                                                             *)
(***************************************************************************)
EXTENDS Experiments, Naturals, TLC

CONSTANTS x1, r1, r2, empty, p, q, Absent, NoList

MCJournal  == {x1}
MCRequests == {r1, r2}
MCTexts    == {empty, p, q}
MCSymmetry == Permutations(MCRequests) \cup Permutations({p, q})
-----------------------------------------------------------------------------
Input == INSTANCE ExperimentInput

Lists(items) == {NoList, <<>>} \cup UNION {[1..n -> items] : n \in 1..2}

Workload(word) == [f \in Input!Parts |-> IF f = "name" THEN word ELSE "v"]

\* The values a request may give a field.
Given ==
    [ text       |-> {Absent, "number", "blank", "long", "padded", "v", "w"},
      conclusion |-> {Absent, "number", "", "blank", "long", "v"},
      state      |-> {Absent, "number", "draft", "active", "concluded", "abandoned"},
      tags       |-> {Absent} \cup Lists({"number", "blank", "wide", "padded", "v"}),
      workloads  |-> {Absent} \cup Lists({NoList} \cup {Workload(w) : w \in {"odd", "padded", "v"}}),
      revision   |-> {Absent, "number", "", "blank", "odd", "padded", "w"} ]

\* Requests that differ from a plain one in two fields, which may be missing.
Plain == [text |-> "v", conclusion |-> "", state |-> "active", tags |-> <<"v">>,
          workloads |-> <<Workload("v")>>, revision |-> "w"]

Variants(record) ==
    UNION {UNION {{[[record EXCEPT ![f] = u] EXCEPT ![g] = v] : u \in Given[f], v \in Given[g]} :
        f \in DOMAIN Given} : g \in DOMAIN Given}
Named(record, fields) == [f \in fields |-> record[f]]
Documents(record) ==
    {NoList} \cup Variants(record)
    \cup {Named(record, DOMAIN Given \ {f}) @@ [lifecycleState |-> "abandoned"] : f \in DOMAIN Given}

Stored == {Input!ParseExperimentInput(d) : d \in {[Plain EXCEPT !.state = s, !.conclusion = c] :
              s \in States, c \in {"", "v"}}} \ {Absent}

\* What was accepted once is accepted again, as it is: trimming, the defaults
\* and the order of the checks leave nothing that a later update of the stored
\* Experiment would refuse or change (validate).
ASSUME AcceptedIsNormal == \A input \in Documents(Plain) : Input!IsNormal(input)

\* An update of a stored Experiment that names some fields changes no other
\* field, and leaves an Experiment that can be updated again
\* (updateExperimentRecord).
ASSUME UpdatesKeepTheRest ==
    \A current \in Stored, fields \in SUBSET {"text", "conclusion", "state", "tags"} :
        \A record \in Variants(Plain) :
            Input!UpdatesNamedOnly(current, Named(record, fields))

\* Module Experiments accepts exactly the updates that are accepted here, for
\* fields of the right type: it validates the merged record.
ASSUME JournalValidatesAlike ==
    \A current \in Stored, fields \in SUBSET FieldNames :
        \A record \in {[state |-> s, conclusion |-> c, text |-> t] :
                           s \in States, c \in {"", "v"}, t \in {"", "v"}} :
            LET patch   == Named(record, fields)
                Text(t) == IF t = "" THEN empty ELSE t
                Abstract(r) == [f \in DOMAIN r |-> IF f = "state" THEN r[f] ELSE Text(r[f])]
                before  == Abstract(Named(current, FieldNames))
            IN (Input!UpdateExperimentRecord(current, patch) # Absent)
                 <=> /\ Validate(before, Abstract(patch))
                     /\ Merge(before, Abstract(patch)).state \in Transitions[before.state]
=============================================================================
