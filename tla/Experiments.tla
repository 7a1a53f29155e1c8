------------------------------ MODULE Experiments ------------------------------
(***************************************************************************)
(* The journal of Experiments (packages/domain/src/index.ts; packages/db,    *)
(* createExperiment and updateExperiment).  An update names some fields; it  *)
(* is merged into the record its transaction reads, validated as a whole and *)
(* written back.  The timeline writer lock keeps two transactions apart      *)
(* between the read and the write.                                          *)
(*                                                                         *)
(* "text" stands for hypothesis, change and observation, which must not be   *)
(* empty; tags, workloads and revision are merged like it.                   *)
(***************************************************************************)
EXTENDS FiniteSets

CONSTANTS
    Journal,        \* identifiers of Experiments
    NoExperiment,   \* no identifier
    Requests,       \* requests that may run at the same time
    Texts,          \* texts a field may hold
    Empty           \* the empty text

ASSUME ExperimentsAssumption ==
    /\ NoExperiment \notin Journal
    /\ Empty \in Texts

VARIABLES
    experiment, \* tracegarden_experiments: the record, or NoRecord
    tx          \* what each request is doing

vars == <<experiment, tx>>

States     == {"draft", "active", "concluded", "abandoned"}
FieldNames == {"state", "conclusion", "text"}

FieldValues(f) == IF f = "state" THEN States ELSE Texts

\* What a request may name: any of the fields, or all of them when it creates.
Inputs == UNION {{input \in [named -> States \cup Texts] : \A f \in named : input[f] \in FieldValues(f)} :
                    named \in SUBSET FieldNames}

NoInput  == [f \in {} |-> Empty]
NoRecord == [state |-> "none", conclusion |-> Empty, text |-> Empty]

Record == [state : States, conclusion : Texts, text : Texts \ {Empty}]

Idle == [at |-> "idle", id |-> NoExperiment, input |-> NoInput, read |-> NoRecord]

Tx == [at : {"idle", "create", "update", "merge"}, id : Journal \cup {NoExperiment},
       input : Inputs, read : Record \cup {NoRecord}]

TypeOK ==
    /\ experiment \in [Journal -> Record \cup {NoRecord}]
    /\ tx \in [Requests -> Tx]
    /\ \A r \in Requests : tx[r].at \in {"update", "merge"} => tx[r].id \in Journal

Init ==
    /\ experiment = [x \in Journal |-> NoRecord]
    /\ tx = [r \in Requests |-> Idle]

-----------------------------------------------------------------------------
Transitions ==
    [draft     |-> {"draft", "active", "abandoned"},
     active    |-> {"active", "concluded", "abandoned"},
     concluded |-> {"concluded"},
     abandoned |-> {"abandoned"}]

Merge(current, input) ==
    [f \in FieldNames |-> IF f \in DOMAIN input THEN input[f] ELSE current[f]]

\* A concluded Experiment has a conclusion.
Validate(current, input) ==
    LET merged == Merge(current, input) IN
    /\ merged.text # Empty
    /\ merged.state = "concluded" => merged.conclusion # Empty

Draft == [NoRecord EXCEPT !.state = "draft"]

-----------------------------------------------------------------------------
End(r) == tx' = [tx EXCEPT ![r] = Idle]

\* The writer lock is free for a request.
LockFree(r) == \A q \in Requests \ {r} : tx[q].at # "merge"

\* A valid new record, which need not be a draft, waits for the lock.
BeginCreate(r) ==
    /\ tx[r].at = "idle"
    /\ \E input \in Inputs :
        /\ {"text", "conclusion"} \subseteq DOMAIN input
        /\ Validate(Draft, input)
        /\ tx' = [tx EXCEPT ![r] = [Idle EXCEPT !.at = "create", !.input = input]]
    /\ UNCHANGED experiment

\* The Experiment is inserted together with its Timeline entry.
Create(r) ==
    /\ tx[r].at = "create"
    /\ LockFree(r)
    /\ \E x \in Journal : /\ experiment[x] = NoRecord
                          /\ experiment' = [experiment EXCEPT ![x] = Merge(Draft, tx[r].input)]
    /\ End(r)

\* Somebody edits an Experiment, as they saw it some time ago.
BeginUpdate(r) ==
    /\ tx[r].at = "idle"
    /\ \E x \in Journal, input \in Inputs :
        /\ experiment[x] # NoRecord
        /\ tx' = [tx EXCEPT ![r] = [Idle EXCEPT !.at = "update", !.id = x, !.input = input]]
    /\ UNCHANGED experiment

\* Mutant: the record is read before the lock is taken.
ReadUnlocked(r) ==
    /\ tx[r].at = "update"
    /\ tx' = [tx EXCEPT ![r].at = "merge", ![r].read = experiment[tx[r].id]]
    /\ UNCHANGED experiment

\* Under the lock the current record is read.
Read(r) ==
    /\ tx[r].at = "update"
    /\ LockFree(r)
    /\ tx' = [tx EXCEPT ![r].at = "merge", ![r].read = experiment[tx[r].id]]
    /\ UNCHANGED experiment

\* Mutant: the conclusion of the merged record is not looked at.
UpdateUnexplained(r) ==
    LET current == tx[r].read
        merged  == Merge(current, tx[r].input)
    IN
    /\ tx[r].at = "merge"
    /\ IF merged.text # Empty /\ merged.state \in Transitions[current.state]
       THEN experiment' = [experiment EXCEPT ![tx[r].id] = merged]
       ELSE UNCHANGED experiment
    /\ End(r)

\* The merged record is validated and written, or the update is refused.
Update(r) ==
    LET current == tx[r].read
        merged  == Merge(current, tx[r].input)
    IN
    /\ tx[r].at = "merge"
    /\ IF Validate(current, tx[r].input) /\ merged.state \in Transitions[current.state]
       THEN experiment' = [experiment EXCEPT ![tx[r].id] = merged]
       ELSE UNCHANGED experiment
    /\ End(r)

\* A statement fails or the process dies: the transaction is rolled back.
Fail(r) ==
    /\ tx[r].at # "idle"
    /\ End(r)
    /\ UNCHANGED experiment

Next ==
    \E r \in Requests :
        \/ BeginCreate(r) \/ Create(r)
        \/ BeginUpdate(r) \/ Read(r) \/ Update(r)
        \/ Fail(r)

Spec == Init /\ [][Next]_vars

-----------------------------------------------------------------------------
(* Properties.                                                              *)

\* A concluded Experiment says what was concluded, also when one member
\* concludes it while another takes the conclusion away.
ConcludedExplained ==
    \A x \in Journal : experiment[x].state = "concluded" => experiment[x].conclusion # Empty

\* An Experiment stays, and its lifecycle only moves forward, whatever state
\* the members who edit it believe it to be in.
LifecycleForward ==
    [][\A x \in Journal :
        experiment[x] # NoRecord => experiment'[x].state \in Transitions[experiment[x].state]]_vars

\* A write changes only the fields its request names, and to what it names:
\* concurrent edits of different fields never undo each other.
EditsMerge ==
    [][\A x \in Journal :
        experiment[x] # NoRecord =>
            \E r \in Requests : \A f \in FieldNames :
                experiment'[x][f] # experiment[x][f] =>
                    /\ tx[r].id = x /\ f \in DOMAIN tx[r].input
                    /\ experiment'[x][f] = tx[r].input[f]]_vars
=============================================================================
