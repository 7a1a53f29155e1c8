--------------------------- MODULE WebProcess_proofs ---------------------------
(***************************************************************************)
(* Proofs about two parts of the web process that share nothing: the journal *)
(* of Experiments, and its readiness with the LISTEN connection.             *)
(*                                                                         *)
(* Experiments.  Two transactions are never both between their read and     *)
(* their write, because of the writer lock, so what an update has read is    *)
(* still the record when it merges and writes; and what is written has been  *)
(* validated as a whole.                                                   *)
(*                                                                         *)
(* Readiness.  Every subscription belongs to one handler or to the readiness *)
(* of the process, so giving one up takes no other one away; a setup always  *)
(* has somebody who waits for it, so the connection is never released under  *)
(* it; and a client that is checked out has exactly one place to be.         *)
(***************************************************************************)
EXTENDS Experiments, ReadinessProbe, FiniteSetTheorems, TLAPS

-----------------------------------------------------------------------------
(* The journal of Experiments.                                              *)


\* One transaction at a time is between its read and its write.
Serialized ==
    \A r, q \in Requests : tx[r].at = "merge" /\ tx[q].at = "merge" => r = q

\* What a request knows while it runs.
Knows(r) ==
    LET t == tx[r] IN
    /\ t.at = "create" => Validate(Draft, t.input)
    /\ t.at \in {"update", "merge"} => experiment[t.id] # NoRecord
    /\ t.at = "merge" => t.read = experiment[t.id]

JournalInv ==
    /\ Serialized
    /\ \A r \in Requests : Knows(r)
    /\ ConcludedExplained

IInv == TypeOK /\ JournalInv

-----------------------------------------------------------------------------
(* Records and inputs.                                                      *)

\* An input names some of the fields, with values of those fields.
LEMMA InputFields ==
    ASSUME NEW input \in Inputs
    PROVE  /\ DOMAIN input \subseteq FieldNames
           /\ \A f \in DOMAIN input : input[f] \in FieldValues(f)
BY DEF Inputs

LEMMA Constants ==
    /\ NoInput \in Inputs
    /\ NoRecord \notin Record
    /\ NoRecord.state # "concluded" /\ Draft.conclusion = Empty /\ Draft.state = "draft"
    /\ Draft.text = Empty
    /\ Idle \in Tx /\ Idle.at = "idle"
<1>1. NoInput \in Inputs
  <2>1. {} \in SUBSET FieldNames
    OBVIOUS
  <2>2. NoInput \in {input \in [{} -> States \cup Texts] : \A f \in {} : input[f] \in FieldValues(f)}
    BY DEF NoInput
  <2> QED BY <2>1, <2>2 DEF Inputs
<1>2. NoRecord \notin Record
  BY DEF NoRecord, Record, States
<1>3. NoRecord.state # "concluded" /\ Draft.conclusion = Empty /\ Draft.state = "draft" /\ Draft.text = Empty
  BY DEF NoRecord, Draft
<1>4. Idle \in Tx /\ Idle.at = "idle"
  BY <1>1 DEF Idle, Tx
<1> QED BY <1>1, <1>2, <1>3, <1>4

\* What a merge makes, field by field.
LEMMA Merged ==
    ASSUME NEW current, NEW input
    PROVE  /\ \A f \in FieldNames :
                Merge(current, input)[f] = IF f \in DOMAIN input THEN input[f] ELSE current[f]
           /\ Merge(current, input).state = IF "state" \in DOMAIN input THEN input["state"] ELSE current["state"]
           /\ Merge(current, input).conclusion =
                IF "conclusion" \in DOMAIN input THEN input["conclusion"] ELSE current["conclusion"]
           /\ Merge(current, input).text = IF "text" \in DOMAIN input THEN input["text"] ELSE current["text"]
BY DEF Merge, FieldNames

\* A validated merge into a record, or into a draft, is a record whose
\* conclusion is there when it is concluded.
LEMMA MergedRecord ==
    ASSUME ExperimentsAssumption, NEW input \in Inputs, NEW current,
           current["state"] \in States, current["conclusion"] \in Texts, current["text"] \in Texts,
           Validate(current, input)
    PROVE  /\ Merge(current, input) \in Record
           /\ Merge(current, input).state = "concluded" => Merge(current, input).conclusion # Empty
<1> DEFINE merged == Merge(current, input)
<1>1. merged["state"] \in States /\ merged["conclusion"] \in Texts /\ merged["text"] \in Texts
  BY InputFields, Merged DEF FieldNames, FieldValues
<1>2. merged.text # Empty /\ merged["text"] = merged.text
  BY Merged DEF Validate
<1>3. merged \in Record
  BY <1>1, <1>2 DEF Merge, Record, FieldNames
<1>4. merged.state = "concluded" => merged.conclusion # Empty
  BY DEF Validate
<1> QED BY <1>3, <1>4

\* Nothing of a record in the journal is of another type.
LEMMA RecordFields ==
    ASSUME NEW current \in Record
    PROVE  current["state"] \in States /\ current["conclusion"] \in Texts /\ current["text"] \in Texts
BY DEF Record

-----------------------------------------------------------------------------
(* The invariant is inductive.                                              *)

LEMMA InitInv ==
    ASSUME ExperimentsAssumption, Init
    PROVE  IInv
BY Constants DEF Init, IInv, TypeOK, JournalInv, Serialized, Knows, ConcludedExplained

\* A step that changes one request and no record keeps the invariant when it
\* keeps it for that request.
LEMMA LocalStep ==
    ASSUME IInv, NEW r \in Requests, NEW t \in Tx, tx' = [tx EXCEPT ![r] = t],
           UNCHANGED experiment,
           t.at \in {"update", "merge"} => t.id \in Journal,
           t.at = "merge" => LockFree(r),
           Knows(r)'
    PROVE  IInv'
<1>1. tx' \in [Requests -> Tx] /\ tx'[r] = t /\ \A q \in Requests \ {r} : tx'[q] = tx[q]
  BY DEF IInv, TypeOK
<1>2. TypeOK'
  BY <1>1 DEF IInv, TypeOK
<1>3. Serialized'
  BY <1>1 DEF IInv, JournalInv, Serialized, LockFree
<1>4. \A q \in Requests : Knows(q)'
  BY <1>1 DEF IInv, JournalInv, Knows
<1>5. ConcludedExplained'
  BY DEF IInv, JournalInv, ConcludedExplained
<1> QED BY <1>2, <1>3, <1>4, <1>5 DEF IInv, JournalInv

LEMMA EndStep ==
    ASSUME IInv, NEW r \in Requests, End(r), UNCHANGED experiment
    PROVE  IInv'
<1>1. tx' = [tx EXCEPT ![r] = Idle] /\ tx'[r] = Idle
  BY DEF End, IInv, TypeOK
<1>2. Knows(r)'
  BY <1>1, Constants DEF Knows
<1> QED BY <1>1, <1>2, Constants, LocalStep

\* A step that writes one record and ends its request.
LEMMA WriteStep ==
    ASSUME IInv, NEW r \in Requests, End(r), NEW x \in Journal, NEW merged \in Record,
           experiment' = [experiment EXCEPT ![x] = merged],
           merged.state = "concluded" => merged.conclusion # Empty,
           \A q \in Requests \ {r} : tx[q].at # "merge"
    PROVE  IInv'
<1>1. tx' \in [Requests -> Tx] /\ tx'[r] = Idle /\ \A q \in Requests \ {r} : tx'[q] = tx[q]
  BY Constants DEF End, IInv, TypeOK
<1>2. experiment' \in [Journal -> Record \cup {NoRecord}] /\ experiment'[x] = merged
  BY DEF IInv, TypeOK
<1>3. \A y \in Journal \ {x} : experiment'[y] = experiment[y]
  BY DEF IInv, TypeOK
<1>4. TypeOK'
  BY <1>1, <1>2, Constants DEF IInv, TypeOK
<1>5. Serialized'
  BY <1>1, Constants DEF IInv, JournalInv, Serialized
<1>6. ASSUME NEW q \in Requests PROVE Knows(q)'
  <2>1. CASE q = r
    BY <2>1, <1>1, Constants DEF Knows
  <2>2. CASE q # r
    <3>1. tx'[q] = tx[q] /\ tx[q].at # "merge" /\ Knows(q)
      BY <2>2, <1>1 DEF IInv, JournalInv
    <3>2. tx[q].at = "update" => tx[q].id \in Journal
      BY DEF IInv, TypeOK
    <3> QED BY <3>1, <3>2, <1>2, <1>3, Constants DEF Knows
  <2> QED BY <2>1, <2>2
<1>7. ConcludedExplained'
  BY <1>2, <1>3 DEF IInv, JournalInv, ConcludedExplained
<1> QED BY <1>4, <1>5, <1>6, <1>7 DEF IInv, JournalInv

LEMMA BeginCreateStep ==
    ASSUME IInv, NEW r \in Requests, BeginCreate(r)
    PROVE  IInv'
<1>1. PICK input \in Inputs : /\ Validate(Draft, input)
                              /\ tx' = [tx EXCEPT ![r] = [Idle EXCEPT !.at = "create", !.input = input]]
  BY DEF BeginCreate
<1> DEFINE t == [Idle EXCEPT !.at = "create", !.input = input]
<1>2. t \in Tx /\ t.at = "create" /\ t.input = input
  BY Constants DEF Idle, Tx
<1>3. tx'[r] = t
  BY <1>1 DEF IInv, TypeOK
<1>4. Knows(r)'
  BY <1>1, <1>2, <1>3 DEF Knows
<1> HIDE DEF t
<1>5. tx' = [tx EXCEPT ![r] = t] /\ UNCHANGED experiment
  BY <1>1 DEF t, BeginCreate
<1> QED BY <1>2, <1>4, <1>5, LocalStep

LEMMA BeginUpdateStep ==
    ASSUME IInv, NEW r \in Requests, BeginUpdate(r)
    PROVE  IInv'
<1>1. PICK x \in Journal, input \in Inputs :
        /\ experiment[x] # NoRecord
        /\ tx' = [tx EXCEPT ![r] = [Idle EXCEPT !.at = "update", !.id = x, !.input = input]]
  BY DEF BeginUpdate
<1> DEFINE t == [Idle EXCEPT !.at = "update", !.id = x, !.input = input]
<1>2. t \in Tx /\ t.at = "update" /\ t.id = x
  BY Constants DEF Idle, Tx
<1>3. tx'[r] = t /\ UNCHANGED experiment
  BY <1>1 DEF IInv, TypeOK, BeginUpdate
<1>4. Knows(r)'
  BY <1>1, <1>2, <1>3 DEF Knows
<1> HIDE DEF t
<1>5. tx' = [tx EXCEPT ![r] = t]
  BY <1>1 DEF t
<1> QED BY <1>2, <1>3, <1>4, <1>5, LocalStep

LEMMA ReadStep ==
    ASSUME IInv, NEW r \in Requests, Read(r)
    PROVE  IInv'
<1> DEFINE t == [tx[r] EXCEPT !.at = "merge", !.read = experiment[tx[r].id]]
<1>1. tx[r] \in Tx /\ tx[r].at = "update" /\ tx[r].id \in Journal /\ Knows(r)
  BY DEF IInv, TypeOK, JournalInv, Read
<1>2. experiment[tx[r].id] \in Record \cup {NoRecord}
  BY <1>1 DEF IInv, TypeOK
<1>3. t \in Tx /\ t.at = "merge" /\ t.id = tx[r].id /\ t.read = experiment[tx[r].id]
  BY <1>1, <1>2 DEF Tx
<1>4. tx' = [tx EXCEPT ![r] = t] /\ tx'[r] = t /\ UNCHANGED experiment
  BY <1>1 DEF IInv, TypeOK, Read
<1>5. Knows(r)'
  BY <1>1, <1>3, <1>4 DEF Knows
<1> HIDE DEF t
<1> QED BY <1>1, <1>3, <1>4, <1>5, LocalStep DEF Read

\* What an update that is about to write knows of its record.
LEMMA AtMerge ==
    ASSUME IInv, NEW r \in Requests, tx[r].at = "merge"
    PROVE  /\ tx[r].id \in Journal /\ tx[r].input \in Inputs
           /\ tx[r].read = experiment[tx[r].id] /\ tx[r].read \in Record
           /\ \A q \in Requests \ {r} : tx[q].at # "merge"
<1>1. tx[r] \in Tx /\ tx[r].id \in Journal /\ Knows(r)
  BY DEF IInv, TypeOK, JournalInv
<1>2. tx[r].input \in Inputs
  BY <1>1 DEF Tx
<1>3. tx[r].read = experiment[tx[r].id] /\ tx[r].read \in Record
  BY <1>1 DEF Knows, IInv, TypeOK
<1>4. \A q \in Requests \ {r} : tx[q].at # "merge"
  BY DEF IInv, JournalInv, Serialized
<1> QED BY <1>1, <1>2, <1>3, <1>4

LEMMA CreateStep ==
    ASSUME ExperimentsAssumption, IInv, NEW r \in Requests, Create(r)
    PROVE  IInv'
<1>1. PICK x \in Journal : experiment' = [experiment EXCEPT ![x] = Merge(Draft, tx[r].input)]
  BY DEF Create
<1>2. tx[r].input \in Inputs /\ Validate(Draft, tx[r].input)
  BY DEF IInv, TypeOK, Tx, JournalInv, Knows, Create
<1>3. Draft["state"] \in States /\ Draft["conclusion"] \in Texts /\ Draft["text"] \in Texts
  BY DEF Draft, NoRecord, States, ExperimentsAssumption
<1>4. /\ Merge(Draft, tx[r].input) \in Record
      /\ Merge(Draft, tx[r].input).state = "concluded" => Merge(Draft, tx[r].input).conclusion # Empty
  BY <1>2, <1>3, MergedRecord
<1>5. End(r) /\ \A q \in Requests \ {r} : tx[q].at # "merge"
  BY DEF Create, LockFree
<1> QED BY <1>1, <1>4, <1>5, WriteStep

LEMMA UpdateStep ==
    ASSUME ExperimentsAssumption, IInv, NEW r \in Requests, Update(r)
    PROVE  IInv'
<1> DEFINE merged == Merge(tx[r].read, tx[r].input)
<1>1. End(r) /\ tx[r].at = "merge"
  BY DEF Update
<1>2. CASE UNCHANGED experiment
  BY <1>1, <1>2, EndStep
<1>3. CASE Validate(tx[r].read, tx[r].input) /\ experiment' = [experiment EXCEPT ![tx[r].id] = merged]
  <2>1. merged \in Record /\ (merged.state = "concluded" => merged.conclusion # Empty)
    BY <1>1, <1>3, AtMerge, RecordFields, MergedRecord
  <2> HIDE DEF merged
  <2> QED BY <1>1, <1>3, <2>1, AtMerge, WriteStep
<1> QED BY <1>2, <1>3 DEF Update

LEMMA StepInv ==
    ASSUME ExperimentsAssumption, IInv, [Next]_vars
    PROVE  IInv'
<1>1. CASE UNCHANGED vars
  BY <1>1 DEF vars, IInv, TypeOK, JournalInv, Serialized, Knows, ConcludedExplained
<1>2. ASSUME NEW r \in Requests, BeginCreate(r) PROVE IInv'
  BY <1>2, BeginCreateStep
<1>3. ASSUME NEW r \in Requests, Create(r) PROVE IInv'
  BY <1>3, CreateStep
<1>4. ASSUME NEW r \in Requests, BeginUpdate(r) PROVE IInv'
  BY <1>4, BeginUpdateStep
<1>5. ASSUME NEW r \in Requests, Read(r) PROVE IInv'
  BY <1>5, ReadStep
<1>6. ASSUME NEW r \in Requests, Update(r) PROVE IInv'
  BY <1>6, UpdateStep
<1>7. ASSUME NEW r \in Requests, Fail(r) PROVE IInv'
  BY <1>7, EndStep DEF Fail
<1> QED BY <1>1, <1>2, <1>3, <1>4, <1>5, <1>6, <1>7 DEF Next

\* The inductive invariant.
THEOREM Invariance == Spec => []IInv
<1>1. Init => IInv
  BY ExperimentsAssumption, InitInv
<1>2. IInv /\ [Next]_vars => IInv'
  BY ExperimentsAssumption, StepInv
<1> QED BY <1>1, <1>2, PTL DEF Spec

\* The journal and the requests keep their types: what is stored passed the
\* validation of its fields.
THEOREM TypesKept == Spec => []TypeOK
BY Invariance, PTL DEF IInv

\* In every state a concluded Experiment has its conclusion, whatever two
\* members do at once (updateExperimentRecord validates the merged record).
THEOREM ConclusionKept == Spec => []ConcludedExplained
BY Invariance, PTL DEF IInv, JournalInv

-----------------------------------------------------------------------------
(* Action properties.                                                       *)

\* What a step may do to an Experiment that exists.
LEMMA WriteOfStep ==
    ASSUME IInv, Next, NEW x \in Journal, experiment[x] # NoRecord, experiment'[x] # experiment[x]
    PROVE  \E r \in Requests :
                /\ tx[r].at = "merge" /\ tx[r].id = x /\ tx[r].read = experiment[x]
                /\ experiment'[x] = Merge(experiment[x], tx[r].input)
                /\ experiment'[x].state \in Transitions[experiment[x].state]
<1>1. experiment \in [Journal -> Record \cup {NoRecord}]
  BY DEF IInv, TypeOK
<1>2. PICK r \in Requests : Create(r) \/ Update(r)
  BY DEF Next, BeginCreate, BeginUpdate, Read, Fail
<1>3. ~ Create(r)
  BY <1>1 DEF Create
<1>4. Update(r) /\ tx[r].at = "merge"
  BY <1>2, <1>3 DEF Update
<1>5. tx[r].id \in Journal /\ tx[r].read = experiment[tx[r].id]
  BY <1>4, AtMerge
<1>6. tx[r].id = x
  BY <1>1, <1>4, <1>5 DEF Update
<1> QED BY <1>1, <1>4, <1>5, <1>6 DEF Update

\* An Experiment stays and its lifecycle only moves forward
\* (isValidExperimentTransition, checked against the record that is replaced).
THEOREM LifecycleKept == Spec => LifecycleForward
<1>1. ASSUME IInv, [Next]_vars, NEW x \in Journal, experiment[x] # NoRecord
      PROVE  experiment'[x].state \in Transitions[experiment[x].state]
  <2>1. CASE experiment'[x] = experiment[x]
    <3>1. experiment[x].state \in States
      BY <1>1 DEF IInv, TypeOK, Record
    <3>2. \A s \in States : s \in Transitions[s]
      BY DEF States, Transitions
    <3> QED BY <2>1, <3>1, <3>2
  <2>2. CASE experiment'[x] # experiment[x]
    <3>1. Next
      BY <1>1, <2>2 DEF vars
    <3> QED BY <1>1, <2>2, <3>1, WriteOfStep
  <2> QED BY <2>1, <2>2
<1>2. IInv /\ [Next]_vars =>
        [\A x \in Journal : experiment[x] # NoRecord =>
            experiment'[x].state \in Transitions[experiment[x].state]]_vars
  BY <1>1
<1> QED BY <1>2, Invariance, PTL DEF Spec, LifecycleForward

\* A write changes only the fields its request names, whatever other requests
\* have written since the member looked (updateExperimentRecord merges into the
\* record that the transaction reads under the writer lock).
THEOREM EditsKept == Spec => EditsMerge
<1> DEFINE Named(x, r, f) ==
        experiment'[x][f] # experiment[x][f] =>
            /\ tx[r].id = x /\ f \in DOMAIN tx[r].input
            /\ experiment'[x][f] = tx[r].input[f]
<1>1. ASSUME IInv, Next, NEW x \in Journal, experiment[x] # NoRecord
      PROVE  \E r \in Requests : \A f \in FieldNames : Named(x, r, f)
  <2>1. CASE experiment'[x] = experiment[x]
    BY <1>1, <2>1 DEF Next
  <2>2. CASE experiment'[x] # experiment[x]
    <3>1. PICK r \in Requests : tx[r].id = x /\ experiment'[x] = Merge(experiment[x], tx[r].input)
      BY <1>1, <2>2, WriteOfStep
    <3>2. ASSUME NEW f \in FieldNames PROVE Named(x, r, f)
      BY <3>1, Merged
    <3> QED BY <3>2
  <2> QED BY <2>1, <2>2
<1>2. IInv /\ [Next]_vars =>
        [\A x \in Journal : experiment[x] # NoRecord =>
            \E r \in Requests : \A f \in FieldNames : Named(x, r, f)]_vars
  BY <1>1
<1> QED BY <1>2, Invariance, PTL DEF Spec, EditsMerge

-----------------------------------------------------------------------------
(* The LISTEN connection (TimelineListener).                                *)

\* Who is subscribed: the listener of an actor in these places is its own.
Holding == {"waiting", "subscribed", "rejected", "open"}

\* No subscription is shared: giving one up never takes another one away.
Subscriptions ==
    /\ \A a \in Actors : at[a] \in Holding => mine[a] \in listeners
    /\ \A a, b \in Actors : at[a] \in Holding /\ at[b] \in Holding /\ mine[a] = mine[b] => a = b
    /\ release # 0 => release \in listeners
    /\ \A a \in Actors : at[a] \in Holding => mine[a] # release

\* A setup is under way for somebody, and nothing is healthy meanwhile.
SetupInv ==
    /\ setup # "none" => ~healthy /\ \E a \in Actors : at[a] = "waiting"
    /\ setup = "connecting" => listening = 0
    /\ setup = "listen" => listening # 0
    /\ \A a \in Actors : at[a] = "subscribed" /\ healthy => listening # 0

\* Every client is held by one actor, or is the current one.
HeldInv ==
    /\ \A a \in Actors : held[a] # 0 => at[a] = "unlisten" /\ held[a] # listening
    /\ \A a, b \in Actors : held[a] # 0 /\ held[a] = held[b] => a = b

\* The shutdown has not begun.
ShutdownInv == ~stopping => at[Shutdown] = "idle"

ListenerInv ==
    /\ ListenerTypeOK
    /\ ShutdownInv
    /\ Subscriptions
    /\ SetupInv
    /\ HeldInv
    /\ OpenMeansListening
    /\ ClientsAccounted

Places == Resumable \cup Suspended \cup {"idle", "stopped"}

LEMMA ActorsAre ==
    /\ Probes \subseteq Actors /\ Streams \subseteq Actors /\ Shutdown \in Actors
    /\ Shutdown \notin Probes /\ Shutdown \notin Streams
BY ListenerAssumption DEF Actors

LEMMA ListenerStarts == ListenerInit => ListenerInv
<1> SUFFICES ASSUME ListenerInit PROVE ListenerInv
  OBVIOUS
<1>1. \A a \in Actors : at[a] = "idle" /\ mine[a] = 0 /\ held[a] = 0
  BY DEF ListenerInit
<1>2. ListenerTypeOK
  <2>1. 1 \in Tokens /\ 1 \in Clients
    BY ListenerAssumption DEF Tokens, Clients
  <2>2. at \in [Actors -> Resumable \cup Suspended \cup {"idle", "stopped"}]
    BY DEF ListenerInit
  <2>3. faults \in 0..MaxFaults
    BY ListenerAssumption DEF ListenerInit
  <2> QED BY <2>1, <2>2, <2>3 DEF ListenerInit, ListenerTypeOK
<1> QED BY <1>1, <1>2 DEF ListenerInit, ListenerInv, ShutdownInv, Subscriptions, SetupInv, HeldInv, Holding,
             OpenMeansListening, ClientsAccounted, Actors

\* An actor moves on, and gains no subscription by it.
LEMMA Moves ==
    ASSUME ListenerInv, NEW a \in Actors, NEW place \in Places,
           place \notin Holding, at[a] \notin {"waiting", "unlisten"}, a = Shutdown => at[a] # "idle",
           at' = [at EXCEPT ![a] = place],
           UNCHANGED <<store, release, mine, held, faults>>,
           ready' \in BOOLEAN, stopping' \in BOOLEAN, stopping => stopping',
           after' \in [Actors -> {"subscribe", "end"}], closed' \in [Streams -> BOOLEAN]
    PROVE  ListenerInv'
<1>1. /\ at' \in [Actors -> Places] /\ at'[a] = place
      /\ \A b \in Actors \ {a} : at'[b] = at[b]
  BY DEF ListenerInv, ListenerTypeOK, Places
<1>2. ListenerTypeOK'
  BY <1>1 DEF ListenerInv, ListenerTypeOK, store, Places
<1>3. Subscriptions'
  BY <1>1 DEF ListenerInv, Subscriptions, store
<1>4. SetupInv'
  BY <1>1 DEF ListenerInv, SetupInv, store, Holding
<1>5. HeldInv'
  BY <1>1 DEF ListenerInv, HeldInv, store
<1>6. OpenMeansListening'
  BY <1>1 DEF ListenerInv, OpenMeansListening, store, Holding, Actors
<1>7. ClientsAccounted'
  BY DEF ListenerInv, ClientsAccounted, store
<1>8. ShutdownInv'
  BY <1>1, ActorsAre DEF ListenerInv, ShutdownInv
<1> QED BY <1>2, <1>3, <1>4, <1>5, <1>6, <1>7, <1>8 DEF ListenerInv

\* A new subscription has a listener of its own; who needs the connection set
\* up waits for it.
LEMMA Subscribes ==
    ASSUME ListenerInv, NEW a \in Actors \ {Shutdown}, at[a] \notin Holding \cup {"unlisten"},
           Subscribe(a), UNCHANGED <<release, ready, stopping, after, closed, faults>>
    PROVE  ListenerInv'
<1>1. PICK t \in Tokens \ listeners :
        listeners' = listeners \cup {t} /\ mine' = [mine EXCEPT ![a] = t]
  BY DEF Subscribe
<1>2. /\ at \in [Actors -> Places] /\ mine \in [Actors -> Tokens \cup {0}] /\ 0 \notin Tokens
      /\ setup \in {"none", "connecting", "listen"} /\ healthy \in BOOLEAN
  BY DEF ListenerInv, ListenerTypeOK, Places, Tokens
<1>3. mine'[a] = t /\ \A b \in Actors \ {a} : mine'[b] = mine[b]
  BY <1>1, <1>2
<1>4. UNCHANGED <<listening, out, held>>
  BY DEF Subscribe
<1>5. \/ /\ listening # 0 /\ at' = [at EXCEPT ![a] = "subscribed"] /\ UNCHANGED <<setup, healthy>>
      \/ /\ listening = 0 /\ at' = [at EXCEPT ![a] = "waiting"]
         /\ setup' # "none" /\ (setup # "none" => setup' = setup)
         /\ (setup = "none" => setup' = "connecting" /\ healthy' = FALSE)
         /\ (setup # "none" => healthy' = healthy)
  BY <1>2 DEF Subscribe, Goto
<1>6. /\ \A b \in Actors \ {a} : at'[b] = at[b]
      /\ listening # 0 => at'[a] = "subscribed" /\ UNCHANGED <<setup, healthy>>
      /\ listening = 0 => /\ at'[a] = "waiting" /\ setup' # "none"
                          /\ (setup # "none" => setup' = setup /\ healthy' = healthy)
                          /\ (setup = "none" => setup' = "connecting" /\ healthy' = FALSE)
  BY <1>2, <1>5
<1>7. at' \in [Actors -> Places] /\ at'[a] \in Holding /\ at'[a] # "open"
  BY <1>2, <1>5 DEF Places, Resumable, Suspended, Holding
<1>8. setup' \in {"none", "connecting", "listen"} /\ healthy' \in BOOLEAN
  BY <1>2, <1>6
<1>9. ListenerTypeOK'
  BY <1>1, <1>4, <1>7, <1>8 DEF ListenerInv, ListenerTypeOK, Places
<1>10. Subscriptions'
  BY <1>1, <1>2, <1>3, <1>6 DEF ListenerInv, Subscriptions
<1>11. SetupInv'
  BY <1>4, <1>6, <1>8 DEF ListenerInv, SetupInv, Holding
<1>12. HeldInv'
  BY <1>4, <1>6 DEF ListenerInv, HeldInv
<1>13. OpenMeansListening'
  BY <1>4, <1>6, <1>7 DEF ListenerInv, OpenMeansListening, SetupInv, Actors
<1>14. ClientsAccounted'
  BY <1>4 DEF ListenerInv, ClientsAccounted
<1>15. ShutdownInv'
  BY <1>6, ActorsAre DEF ListenerInv, ShutdownInv
<1> QED BY <1>9, <1>10, <1>11, <1>12, <1>13, <1>14, <1>15 DEF ListenerInv

\* Giving up a subscription that nobody else holds.
LEMMA Unsubscribes ==
    ASSUME ListenerInv, NEW a \in Actors, NEW t, NEW next \in {"subscribe", "end"},
           at[a] \notin {"waiting", "unlisten"}, a = Shutdown => at[a] # "idle",
           Unsubscribe(a, t, next), release' \in {0, release}, release' # 0 => release' # t,
           \A b \in Actors \ {a} : at[b] \in Holding => mine[b] # t,
           ready' \in BOOLEAN, UNCHANGED <<stopping, faults>>, closed' \in [Streams -> BOOLEAN]
    PROVE  ListenerInv'
<1>1. /\ listeners' = listeners \ {t}
      /\ UNCHANGED <<listening, setup, healthy, out, mine, held>>
      /\ after' = [after EXCEPT ![a] = next]
  BY DEF Unsubscribe
<1>2. PICK place \in {"released", "releasing", "draining"} : at' = [at EXCEPT ![a] = place]
  BY DEF Unsubscribe, Goto
<1>3. /\ at' \in [Actors -> Places] /\ at'[a] = place /\ place \notin Holding
      /\ \A b \in Actors \ {a} : at'[b] = at[b]
  BY <1>2 DEF ListenerInv, ListenerTypeOK, Places, Resumable, Suspended, Holding
<1>4. ListenerTypeOK'
  BY <1>1, <1>3 DEF ListenerInv, ListenerTypeOK, Places
<1>5. Subscriptions'
  <2>1. \A b \in Actors : at'[b] \in Holding => b # a /\ at[b] \in Holding
    BY <1>3
  <2>2. release' # 0 => release' = release /\ release # t
    OBVIOUS
  <2>3. \A b \in Actors : at'[b] \in Holding => mine'[b] \in listeners' /\ mine'[b] # release'
    <3>1. \A b \in Actors : at'[b] \in Holding => mine[b] \in listeners /\ mine[b] # release /\ mine[b] # t
      BY <2>1 DEF ListenerInv, Subscriptions
    <3>2. 0 \notin listeners
      BY DEF ListenerInv, ListenerTypeOK, Tokens
    <3> QED BY <1>1, <2>2, <3>1, <3>2
  <2>4. release' # 0 => release' \in listeners'
    BY <1>1, <2>2 DEF ListenerInv, Subscriptions
  <2> QED BY <1>1, <2>1, <2>3, <2>4 DEF ListenerInv, Subscriptions
<1>6. SetupInv'
  BY <1>1, <1>3 DEF ListenerInv, SetupInv
<1>7. HeldInv'
  BY <1>1, <1>3 DEF ListenerInv, HeldInv
<1>8. OpenMeansListening'
  BY <1>1, <1>3 DEF ListenerInv, OpenMeansListening, Actors, Holding
<1>9. ClientsAccounted'
  BY <1>1 DEF ListenerInv, ClientsAccounted
<1>10. ShutdownInv'
  BY <1>3, ActorsAre DEF ListenerInv, ShutdownInv
<1> QED BY <1>4, <1>5, <1>6, <1>7, <1>8, <1>9, <1>10 DEF ListenerInv

\* The connection is released only when nobody is subscribed.
LEMMA DecideReleaseStep ==
    ASSUME ListenerInv, NEW a \in Actors, DecideRelease(a)
    PROVE  ListenerInv'
<1>1. /\ at \in [Actors -> Places] /\ at[a] = "releasing" /\ held[a] = 0
      /\ held \in [Actors -> Clients \cup {0}] /\ listening \in Clients \cup {0} /\ 0 \notin Clients
  BY DEF DecideRelease, ListenerInv, ListenerTypeOK, HeldInv, Places, Clients
<1>2. CASE listeners # {}
  <2>1. "released" \in Places /\ "released" \notin Holding
    BY DEF Places, Resumable, Holding
  <2>2. at' = [at EXCEPT ![a] = "released"] /\ UNCHANGED <<store, web, mine, held, after, closed, faults>>
    BY <1>2 DEF DecideRelease, Goto, store
  <2> QED BY <1>1, <2>1, <2>2, Moves DEF web, ListenerInv, ListenerTypeOK
<1>3. CASE listeners = {}
  <2> DEFINE place == IF listening = 0 THEN "released" ELSE "unlisten"
  <2>1. /\ listening' = 0 /\ healthy' = TRUE /\ held' = [held EXCEPT ![a] = listening]
        /\ at' = [at EXCEPT ![a] = place]
        /\ UNCHANGED <<listeners, setup, out, web, mine, after, closed, faults>>
    BY <1>3 DEF DecideRelease, Goto
  <2>2. /\ at'[a] = place /\ place \in Places /\ place \notin Holding
        /\ held'[a] = listening
        /\ \A b \in Actors \ {a} : at'[b] = at[b] /\ held'[b] = held[b]
    BY <1>1, <2>1 DEF Places, Resumable, Suspended, Holding
  <2>3. place = "unlisten" <=> listening # 0
    OBVIOUS
  <2>4. \A b \in Actors : at[b] \notin Holding
    BY <1>3 DEF ListenerInv, Subscriptions
  <2>5. setup = "none"
    BY <2>4 DEF ListenerInv, SetupInv, Holding
  <2> HIDE DEF place
  <2>6. at' \in [Actors -> Places] /\ held' \in [Actors -> Clients \cup {0}]
    BY <1>1, <2>1, <2>2
  <2>7. \A b \in Actors : at'[b] \notin Holding
    BY <2>2, <2>4
  <2>8. ListenerTypeOK'
    BY <2>1, <2>6 DEF ListenerInv, ListenerTypeOK, web, Places
  <2>9. Subscriptions'
    BY <2>1, <2>7 DEF ListenerInv, Subscriptions, web
  <2>10. SetupInv'
    BY <2>1, <2>5, <2>7 DEF SetupInv, Holding
  <2>11. HeldInv'
    BY <1>1, <2>1, <2>2, <2>3 DEF ListenerInv, HeldInv
  <2>12. OpenMeansListening'
    BY <2>7, ActorsAre DEF OpenMeansListening, Holding
  <2>13. ClientsAccounted'
    <3>1. {held'[b] : b \in Actors} = {held[b] : b \in Actors \ {a}} \cup {listening}
      BY <2>2
    <3>2. {held[b] : b \in Actors} = {held[b] : b \in Actors \ {a}} \cup {0}
      BY <1>1
    <3> QED BY <2>1, <3>1, <3>2 DEF ListenerInv, ClientsAccounted
  <2>14. ShutdownInv'
    BY <1>1, <2>1, <2>2, ActorsAre DEF ListenerInv, ShutdownInv, web
  <2> QED BY <2>8, <2>9, <2>10, <2>11, <2>12, <2>13, <2>14 DEF ListenerInv
<1> QED BY <1>2, <1>3

LEMMA UnlistenStep ==
    ASSUME ListenerInv, NEW a \in Actors, Unlisten(a)
    PROVE  ListenerInv'
<1>1. /\ at \in [Actors -> Places] /\ held \in [Actors -> Clients \cup {0}] /\ 0 \notin Clients
      /\ at[a] = "unlisten"
  BY DEF Unlisten, ListenerInv, ListenerTypeOK, Places, Clients
<1>2. /\ out' = out \ {held[a]} /\ held' = [held EXCEPT ![a] = 0] /\ at' = [at EXCEPT ![a] = "released"]
      /\ UNCHANGED <<listeners, listening, setup, healthy, web, mine, after, closed, faults>>
  BY DEF Unlisten, Goto
<1>3. /\ at'[a] = "released" /\ held'[a] = 0
      /\ \A b \in Actors \ {a} : at'[b] = at[b] /\ held'[b] = held[b]
  BY <1>1, <1>2
<1>4. at' \in [Actors -> Places] /\ held' \in [Actors -> Clients \cup {0}]
  BY <1>1, <1>2, <1>3 DEF Places, Resumable
<1>5. ClientsAccounted'
  <2>1. \A b \in Actors \ {a} : held[b] # 0 => held[b] # held[a]
    BY DEF ListenerInv, HeldInv
  <2>2. listening # 0 => listening # held[a]
    BY DEF ListenerInv, HeldInv
  <2>3. \A x : x \in out' <=> x # 0 /\ (x = listening \/ \E b \in Actors \ {a} : x = held[b])
    BY <1>2, <2>1, <2>2 DEF ListenerInv, ClientsAccounted
  <2>4. \A x : x \in out' <=> x # 0 /\ (x = listening \/ \E b \in Actors : x = held'[b])
    BY <1>3, <2>3
  <2>5. \A x : x \in ({listening'} \cup {held'[b] : b \in Actors}) \ {0}
                 <=> x # 0 /\ (x = listening \/ \E b \in Actors : x = held'[b])
    BY <1>2
  <2> QED BY <2>4, <2>5 DEF ClientsAccounted
<1>6. listening' \in out' \cup {0} /\ out' \in SUBSET Clients
  BY <1>2, <1>5 DEF ClientsAccounted, ListenerInv, ListenerTypeOK
<1>7. ListenerTypeOK'
  BY <1>2, <1>4, <1>6 DEF ListenerInv, ListenerTypeOK, web, Places
<1>8. Subscriptions'
  BY <1>2, <1>3 DEF ListenerInv, Subscriptions, Holding, web
<1>9. SetupInv'
  BY <1>1, <1>2, <1>3 DEF ListenerInv, SetupInv
<1>10. HeldInv'
  BY <1>2, <1>3 DEF ListenerInv, HeldInv
<1>11. OpenMeansListening'
  BY <1>2, <1>3, ActorsAre DEF ListenerInv, OpenMeansListening, web
<1>12. ShutdownInv'
  BY <1>1, <1>2, <1>3, ActorsAre DEF ListenerInv, ShutdownInv, web
<1> QED BY <1>5, <1>7, <1>8, <1>9, <1>10, <1>11, <1>12 DEF ListenerInv

LEMMA ConnectedStep ==
    ASSUME ListenerInv, Connected
    PROVE  ListenerInv'
<1>1. PICK c \in Clients \ out : out' = out \cup {c} /\ listening' = c
  BY DEF Connected
<1>2. /\ setup = "connecting" /\ setup' = "listen" /\ listening = 0 /\ 0 \notin Clients /\ ~healthy
      /\ UNCHANGED <<listeners, healthy, web, local, faults>>
  BY DEF Connected, ListenerInv, SetupInv, Clients
<1>3. \A a \in Actors : held[a] # 0 => held[a] \in out
  BY DEF ListenerInv, ClientsAccounted
<1>4. ListenerTypeOK'
  BY <1>1, <1>2 DEF ListenerInv, ListenerTypeOK, web, local
<1>5. Subscriptions'
  BY <1>2 DEF ListenerInv, Subscriptions, web, local
<1>6. SetupInv'
  BY <1>1, <1>2 DEF ListenerInv, SetupInv, local
<1>7. HeldInv'
  BY <1>1, <1>2, <1>3 DEF ListenerInv, HeldInv, local
<1>8. OpenMeansListening'
  BY <1>2 DEF ListenerInv, OpenMeansListening, local, web
<1>9. ClientsAccounted'
  BY <1>1, <1>2 DEF ListenerInv, ClientsAccounted, local
<1>10. ShutdownInv'
  BY <1>2 DEF ListenerInv, ShutdownInv, web, local
<1> QED BY <1>4, <1>5, <1>6, <1>7, <1>8, <1>9, <1>10 DEF ListenerInv

\* Who waited goes on: nobody waits for a setup that is over.
LEMMA Settles ==
    ASSUME ListenerInv, NEW outcome \in {"subscribed", "rejected"}, Settle(outcome)
    PROVE  /\ at' \in [Actors -> Places]
           /\ \A a \in Actors : /\ at'[a] \in Holding <=> at[a] \in Holding
                                /\ at'[a] = "open" <=> at[a] = "open"
                                /\ at'[a] = "unlisten" <=> at[a] = "unlisten"
                                /\ at[a] = "idle" => at'[a] = "idle"
                                /\ at'[a] # "waiting"
<1>1. at \in [Actors -> Places]
  BY DEF ListenerInv, ListenerTypeOK, Places
<1>2. \A a \in Actors : at'[a] = IF at[a] = "waiting" THEN outcome
                                 ELSE IF at[a] = "draining" THEN "releasing" ELSE at[a]
  BY DEF Settle
<1>3. at' = [a \in Actors |-> at'[a]]
  BY DEF Settle
<1>4. \A a \in Actors : at'[a] \in Places
  BY <1>1, <1>2 DEF Places, Resumable, Suspended
<1> QED BY <1>2, <1>3, <1>4 DEF Holding

LEMMA ListenActiveStep ==
    ASSUME ListenerInv, ListenActive
    PROVE  ListenerInv'
<1>1. /\ setup = "listen" /\ setup' = "none" /\ healthy' = TRUE /\ Settle("subscribed") /\ listening # 0
      /\ UNCHANGED <<listeners, listening, out, web, mine, held, after, closed, faults>>
  BY DEF ListenActive, ListenerInv, SetupInv
<1>2. /\ at' \in [Actors -> Places]
      /\ \A a \in Actors : /\ at'[a] \in Holding <=> at[a] \in Holding
                           /\ at'[a] = "open" <=> at[a] = "open"
                           /\ at'[a] = "unlisten" <=> at[a] = "unlisten"
                           /\ at[a] = "idle" => at'[a] = "idle"
  BY <1>1, Settles
<1>3. ListenerTypeOK'
  BY <1>1, <1>2 DEF ListenerInv, ListenerTypeOK, web, Places
<1>4. Subscriptions'
  BY <1>1, <1>2 DEF ListenerInv, Subscriptions, web
<1>5. SetupInv'
  BY <1>1 DEF SetupInv
<1>6. HeldInv'
  BY <1>1, <1>2 DEF ListenerInv, HeldInv
<1>7. OpenMeansListening'
  BY <1>1 DEF OpenMeansListening
<1>8. ClientsAccounted'
  BY <1>1 DEF ListenerInv, ClientsAccounted
<1>9. ShutdownInv'
  BY <1>1, <1>2, ActorsAre DEF ListenerInv, ShutdownInv, web
<1> QED BY <1>3, <1>4, <1>5, <1>6, <1>7, <1>8, <1>9 DEF ListenerInv

\* A client that is current is held by nobody: without it, the others are
\* accounted for.
LEMMA ClientGone ==
    ASSUME ListenerInv, listening' = 0, out' = out \ {listening}, held' = held
    PROVE  ClientsAccounted' /\ \A a \in Actors : held[a] # 0 => held[a] # listening
<1>1. \A a \in Actors : held[a] # 0 => held[a] # listening
  BY DEF ListenerInv, HeldInv
<1>2. \A x : x \in out' <=> x # 0 /\ \E a \in Actors : x = held[a]
  BY <1>1 DEF ListenerInv, ClientsAccounted
<1>3. \A x : x \in ({0} \cup {held[a] : a \in Actors}) \ {0} <=> x # 0 /\ \E a \in Actors : x = held[a]
  OBVIOUS
<1>4. out' = ({0} \cup {held[a] : a \in Actors}) \ {0}
  BY <1>2, <1>3
<1>5. ClientsAccounted'
  BY <1>4 DEF ClientsAccounted
<1> QED BY <1>1, <1>5 DEF ListenerInv

LEMMA SetupFailsStep ==
    ASSUME ListenerInv, SetupFails
    PROVE  ListenerInv'
<1>1. /\ setup # "none" /\ setup' = "none" /\ listening' = 0 /\ out' = out \ {listening}
      /\ Settle("rejected") /\ ~healthy /\ faults' = faults + 1 /\ faults < MaxFaults /\ Quiet
      /\ UNCHANGED <<listeners, healthy, web, mine, held, after, closed>>
  BY DEF SetupFails, Fault, ListenerInv, SetupInv
<1>2. /\ at' \in [Actors -> Places]
      /\ \A a \in Actors : /\ at'[a] \in Holding <=> at[a] \in Holding
                           /\ at'[a] = "open" <=> at[a] = "open"
                           /\ at'[a] = "unlisten" <=> at[a] = "unlisten"
                           /\ at[a] = "idle" => at'[a] = "idle"
  BY <1>1, Settles
<1>3. ClientsAccounted' /\ (\A a \in Actors : held[a] # 0 => held[a] # listening)
  BY <1>1, ClientGone
<1>4. faults' \in 0..MaxFaults
  BY <1>1, ListenerAssumption DEF ListenerInv, ListenerTypeOK
<1>5. ListenerTypeOK'
  BY <1>1, <1>2, <1>4 DEF ListenerInv, ListenerTypeOK, web, Places
<1>6. Subscriptions'
  BY <1>1, <1>2 DEF ListenerInv, Subscriptions, web
<1>7. SetupInv'
  BY <1>1 DEF SetupInv
<1>8. HeldInv'
  BY <1>1, <1>2 DEF ListenerInv, HeldInv
<1>9. OpenMeansListening'
  BY <1>1, <1>2, ActorsAre DEF ListenerInv, OpenMeansListening, web
<1>10. ShutdownInv'
  BY <1>1, <1>2, ActorsAre DEF ListenerInv, ShutdownInv, web
<1> QED BY <1>3, <1>5, <1>6, <1>7, <1>8, <1>9, <1>10 DEF ListenerInv

-----------------------------------------------------------------------------
\* The streams that are closed at once: an open one gives up what is its own.
LEMMA LiveClosed ==
    ASSUME ListenerInv, CloseLive
    PROVE  /\ closed' \in [Streams -> BOOLEAN]
           /\ after' \in [Actors -> {"subscribe", "end"}]
           /\ listeners' \subseteq listeners
           /\ \A a \in Actors : at[a] \in Holding /\ ~(a \in Streams /\ at[a] = "open") => mine[a] \in listeners'
           /\ release # 0 => release \in listeners'
<1> DEFINE open == {s \in Streams : at[s] = "open" /\ ~closed[s]}
<1>1. listeners' = listeners \ {mine[s] : s \in open}
  BY DEF CloseLive
<1>2. closed' \in [Streams -> BOOLEAN]
  <2>1. \A s \in Streams : (closed[s] \/ IsLive(s)) \in BOOLEAN
    BY DEF ListenerInv, ListenerTypeOK, IsLive
  <2>2. closed' = [s \in Streams |-> closed[s] \/ IsLive(s)]
    BY DEF CloseLive
  <2> QED BY <2>1, <2>2, Zenon
<1>3. after' \in [Actors -> {"subscribe", "end"}]
  BY DEF CloseLive, ListenerInv, ListenerTypeOK
<1>4. \A s \in open : s \in Actors /\ at[s] \in Holding
  BY ActorsAre DEF Holding
<1>5. \A a \in Actors : at[a] \in Holding /\ ~(a \in Streams /\ at[a] = "open") => mine[a] \in listeners'
  <2> SUFFICES ASSUME NEW a \in Actors, at[a] \in Holding, ~(a \in Streams /\ at[a] = "open")
               PROVE  mine[a] \in listeners'
    OBVIOUS
  <2>1. mine[a] \in listeners /\ \A s \in open : mine[s] # mine[a]
    BY <1>4 DEF ListenerInv, Subscriptions
  <2> QED BY <1>1, <2>1
<1>6. release # 0 => release \in listeners'
  BY <1>1, <1>4 DEF ListenerInv, Subscriptions
<1> QED BY <1>1, <1>2, <1>3, <1>5, <1>6

\* Every open stream leaves, without a client; nobody else moves, unless it is
\* the shutdown that begins.
LEMMA StreamsLeave ==
    ASSUME ListenerInv, CloseLive, ~stopping, at' \in [Actors -> Places],
           \A s \in Streams : at[s] = "open" => at'[s] \notin Holding,
           \A a \in Actors : ~(a \in Streams /\ at[a] = "open") =>
               at'[a] = at[a] \/ (a = Shutdown /\ at'[a] = "sweeping"),
           UNCHANGED <<release, mine, held>>
    PROVE  /\ Subscriptions'
           /\ \A a \in Actors : at[a] = "waiting" => at'[a] = "waiting"
           /\ \A a \in Actors : at'[a] \in Holding => at'[a] = at[a] /\ ~(a \in Streams /\ at[a] = "open")
           /\ \A a \in Actors : held[a] # 0 => at'[a] = "unlisten"
<1>1. at[Shutdown] = "idle"
  BY DEF ListenerInv, ShutdownInv
<1>2. \A a \in Actors : at'[a] \in Holding => at'[a] = at[a] /\ ~(a \in Streams /\ at[a] = "open")
  BY DEF Holding
<1>3. /\ \A a \in Actors : at[a] \in Holding /\ ~(a \in Streams /\ at[a] = "open") => mine[a] \in listeners'
      /\ release # 0 => release \in listeners'
  BY LiveClosed
<1>4. Subscriptions'
  BY <1>2, <1>3 DEF ListenerInv, Subscriptions
<1>5. \A a \in Actors : at[a] \in {"waiting", "unlisten"} => at'[a] = at[a]
  BY <1>1
<1> QED BY <1>2, <1>4, <1>5 DEF ListenerInv, HeldInv

LEMMA ListenLostStep ==
    ASSUME ListenerInv, ListenLost
    PROVE  ListenerInv'
<1>1. /\ listening # 0 /\ setup = "none" /\ listening' = 0 /\ healthy' = FALSE /\ out' = out \ {listening}
      /\ faults' = faults + 1 /\ faults < MaxFaults
      /\ UNCHANGED <<setup, release, stopping, mine, held>>
  BY DEF ListenLost, Fault
<1>2. ClientsAccounted' /\ \A a \in Actors : held[a] # 0 => held[a] # listening
  BY <1>1, ClientGone
<1>3. \A a \in Actors : held[a] # 0 => held[a] # listening'
  BY <1>1
<1>4. faults' \in 0..MaxFaults
  BY <1>1, ListenerAssumption DEF ListenerInv, ListenerTypeOK
<1>5. SetupInv'
  BY <1>1 DEF SetupInv
<1>6. CASE stopping
  <2>1. UNCHANGED <<listeners, at, after, closed, ready>>
    BY <1>6 DEF ListenLost
  <2>2. ListenerTypeOK'
    BY <1>1, <1>4, <2>1 DEF ListenerInv, ListenerTypeOK
  <2>3. Subscriptions' /\ ShutdownInv'
    BY <1>1, <2>1 DEF ListenerInv, Subscriptions, ShutdownInv
  <2>4. HeldInv'
    BY <1>1, <1>3, <2>1 DEF ListenerInv, HeldInv
  <2>5. OpenMeansListening'
    BY <1>1, <1>6 DEF OpenMeansListening
  <2> QED BY <1>2, <1>5, <2>2, <2>3, <2>4, <2>5 DEF ListenerInv
<1>7. CASE ~stopping
  <2>1. /\ CloseLive /\ ready' = FALSE
        /\ at' = [a \in Actors |->
                   IF a \in Streams /\ at[a] = "open"
                   THEN IF listeners' = {} THEN "releasing" ELSE "released"
                   ELSE at[a]]
    BY <1>7 DEF ListenLost
  <2>2. at \in [Actors -> Places]
    BY DEF ListenerInv, ListenerTypeOK, Places
  <2>3. /\ \A a \in Actors : a \in Streams /\ at[a] = "open" => at'[a] \in {"releasing", "released"}
        /\ \A a \in Actors : ~(a \in Streams /\ at[a] = "open") => at'[a] = at[a]
    BY <2>1
  <2>4. at' \in [Actors -> Places]
    <3>1. \A a \in Actors : at'[a] \in Places
      BY <2>2, <2>3 DEF Places, Resumable
    <3> QED BY <2>1, <3>1
  <2>5. /\ Subscriptions'
        /\ \A a \in Actors : at'[a] \in Holding => at'[a] = at[a] /\ ~(a \in Streams /\ at[a] = "open")
        /\ \A a \in Actors : held[a] # 0 => at'[a] = "unlisten"
    BY <1>1, <1>7, <2>1, <2>3, <2>4, ActorsAre, StreamsLeave DEF Holding
  <2>6. ListenerTypeOK'
    BY <1>1, <1>4, <2>1, <2>4, LiveClosed DEF ListenerInv, ListenerTypeOK, Places
  <2>7. HeldInv'
    BY <1>1, <1>3, <2>5 DEF ListenerInv, HeldInv
  <2>8. OpenMeansListening'
    BY <2>5, ActorsAre DEF OpenMeansListening, Holding
  <2>9. ShutdownInv'
    BY <1>1, <2>3, ActorsAre DEF ListenerInv, ShutdownInv
  <2> QED BY <1>2, <1>5, <2>5, <2>6, <2>7, <2>8, <2>9 DEF ListenerInv
<1> QED BY <1>6, <1>7

LEMMA StopStep ==
    ASSUME ListenerInv, Stop
    PROVE  ListenerInv'
<1>1. /\ ~stopping /\ stopping' = TRUE /\ ready' = FALSE /\ CloseLive /\ Quiet
      /\ at' = [a \in Actors |->
           CASE a = Shutdown -> "sweeping"
             [] a \in Streams /\ at[a] = "open" ->
                   IF listeners' # {} THEN "released" ELSE IF setup = "none" THEN "releasing" ELSE "draining"
             [] OTHER -> at[a]]
      /\ UNCHANGED <<listening, setup, healthy, out, release, mine, held, faults>>
  BY DEF Stop
<1>2. at \in [Actors -> Places]
  BY DEF ListenerInv, ListenerTypeOK, Places
<1>3. /\ at'[Shutdown] = "sweeping"
      /\ \A a \in Actors : a \in Streams /\ at[a] = "open" => at'[a] \in {"released", "releasing", "draining"}
      /\ \A a \in Actors : a # Shutdown /\ ~(a \in Streams /\ at[a] = "open") => at'[a] = at[a]
  BY <1>1, ActorsAre
<1>4. at' \in [Actors -> Places]
  <2>1. \A a \in Actors : at'[a] \in Places
    BY <1>2, <1>3 DEF Places, Resumable, Suspended
  <2> QED BY <1>1, <2>1
<1>5. /\ Subscriptions'
      /\ \A a \in Actors : at[a] = "waiting" => at'[a] = "waiting"
      /\ \A a \in Actors : at'[a] \in Holding => at'[a] = at[a]
      /\ \A a \in Actors : held[a] # 0 => at'[a] = "unlisten"
  BY <1>1, <1>3, <1>4, ActorsAre, StreamsLeave DEF Holding
<1>6. ListenerTypeOK'
  BY <1>1, <1>4, LiveClosed DEF ListenerInv, ListenerTypeOK, Places
<1>7. SetupInv'
  BY <1>1, <1>5 DEF ListenerInv, SetupInv, Holding
<1>8. HeldInv'
  BY <1>1, <1>5 DEF ListenerInv, HeldInv
<1>9. OpenMeansListening' /\ ShutdownInv'
  BY <1>1 DEF OpenMeansListening, ShutdownInv
<1>10. ClientsAccounted'
  BY <1>1 DEF ListenerInv, ClientsAccounted
<1> QED BY <1>5, <1>6, <1>7, <1>8, <1>9, <1>10 DEF ListenerInv

-----------------------------------------------------------------------------
\* Steps that only move an actor.
LEMMA MovingSteps ==
    ASSUME ListenerInv,
           \/ \E a \in Actors : Ended(a)
           \/ \E a \in Probes \cup Streams : Arrive(a)
           \/ StopPool
           \/ Stopped
    PROVE  ListenerInv'
<1>1. /\ {"idle", "request", "ending", "stopped"} \subseteq Places \ Holding
      /\ ready \in BOOLEAN /\ stopping \in BOOLEAN /\ closed \in [Streams -> BOOLEAN]
      /\ after \in [Actors -> {"subscribe", "end"}]
  BY DEF Places, Resumable, Suspended, Holding, ListenerInv, ListenerTypeOK
<1>2. ASSUME NEW a \in Actors, Ended(a) PROVE ListenerInv'
  <2>1. at[a] = "released" /\ at' = [at EXCEPT ![a] = "idle"] /\ a # Shutdown
    BY <1>2 DEF Ended, Goto
  <2>2. UNCHANGED <<store, web, mine, held, after, closed, faults>>
    BY <1>2 DEF Ended
  <2> QED BY <1>1, <2>1, <2>2, Moves DEF web
<1>3. ASSUME NEW a \in Probes \cup Streams, Arrive(a) PROVE ListenerInv'
  <2>1. a \in Actors /\ a # Shutdown
    BY ActorsAre
  <2>2. at[a] = "idle" /\ at' = [at EXCEPT ![a] = "request"]
    BY <1>3 DEF Arrive, Goto
  <2>3. UNCHANGED <<store, web, mine, held, after, faults>>
    BY <1>3 DEF Arrive
  <2>4. closed' \in [Streams -> BOOLEAN]
    BY <1>1, <1>3 DEF Arrive
  <2> QED BY <1>1, <2>1, <2>2, <2>3, <2>4, Moves DEF web
<1>4. CASE StopPool
  <2>1. at[Shutdown] = "released" /\ at' = [at EXCEPT ![Shutdown] = "ending"]
    BY <1>4 DEF StopPool, Goto
  <2>2. UNCHANGED <<store, web, mine, held, after, closed, faults>>
    BY <1>4 DEF StopPool
  <2> QED BY <1>1, <2>1, <2>2, ActorsAre, Moves DEF web
<1>5. CASE Stopped
  <2>1. at[Shutdown] = "ending" /\ at' = [at EXCEPT ![Shutdown] = "stopped"]
    BY <1>5 DEF Stopped, Goto
  <2>2. UNCHANGED <<store, web, mine, held, after, closed, faults>>
    BY <1>5 DEF Stopped
  <2> QED BY <1>1, <2>1, <2>2, ActorsAre, Moves DEF web
<1> QED BY <1>2, <1>3, <1>4, <1>5

\* A stream opens only when the connection listens.
LEMMA StreamOpensStep ==
    ASSUME ListenerInv, NEW s \in Streams, StreamOpens(s)
    PROVE  ListenerInv'
<1>1. /\ s \in Actors /\ s # Shutdown /\ at[s] = "subscribed" /\ at \in [Actors -> Places]
      /\ ready \in BOOLEAN /\ closed \in [Streams -> BOOLEAN]
      /\ UNCHANGED <<release, stopping, closed, faults>>
  BY ActorsAre DEF StreamOpens, ListenerInv, ListenerTypeOK, Places
<1>2. release # mine[s] /\ \A b \in Actors \ {s} : at[b] \in Holding => mine[b] # mine[s]
  BY <1>1 DEF ListenerInv, Subscriptions, Holding
<1>3. CASE closed[s] \/ ~healthy
  <2>1. Unsubscribe(s, mine[s], "end") /\ ready' = (ready /\ closed[s])
    BY <1>3 DEF StreamOpens
  <2>2. ready' \in BOOLEAN
    BY <1>1, <2>1
  <2>3. release' # 0 => release' # mine[s]
    BY <1>1, <1>2
  <2> QED BY <1>1, <1>2, <2>1, <2>2, <2>3, Unsubscribes
<1>4. CASE ~(closed[s] \/ ~healthy)
  <2>1. /\ at' = [at EXCEPT ![s] = "open"] /\ ready' = TRUE
        /\ UNCHANGED <<store, mine, held, after>>
    BY <1>4 DEF StreamOpens, Goto
  <2>2. healthy /\ listening # 0 /\ setup = "none"
    BY <1>1, <1>4 DEF ListenerInv, SetupInv
  <2>3. at'[s] = "open" /\ \A b \in Actors \ {s} : at'[b] = at[b]
    BY <1>1, <2>1
  <2>4. at' \in [Actors -> Places]
    BY <1>1, <2>1 DEF Places, Suspended
  <2>5. ListenerTypeOK'
    BY <1>1, <2>1, <2>4 DEF ListenerInv, ListenerTypeOK, store, Places
  <2>6. \A b \in Actors : at'[b] \in Holding <=> at[b] \in Holding
    BY <1>1, <2>3 DEF Holding
  <2>7. Subscriptions'
    BY <1>1, <2>1, <2>6 DEF ListenerInv, Subscriptions, store
  <2>8. SetupInv'
    BY <2>1, <2>2 DEF SetupInv, store
  <2>9. HeldInv'
    BY <1>1, <2>1, <2>3 DEF ListenerInv, HeldInv, store
  <2>10. OpenMeansListening'
    BY <2>1, <2>2 DEF OpenMeansListening, store
  <2>11. ClientsAccounted'
    BY <2>1 DEF ListenerInv, ClientsAccounted, store
  <2>12. ShutdownInv'
    BY <1>1, <2>3, ActorsAre DEF ListenerInv, ShutdownInv
  <2> QED BY <2>5, <2>7, <2>8, <2>9, <2>10, <2>11, <2>12 DEF ListenerInv
<1> QED BY <1>3, <1>4

LEMMA StreamSteps ==
    ASSUME ListenerInv, NEW s \in Streams, StreamSubscribes(s) \/ StreamDisconnects(s)
    PROVE  ListenerInv'
<1>1. /\ s \in Actors /\ s # Shutdown /\ ready \in BOOLEAN /\ closed \in [Streams -> BOOLEAN]
  BY ActorsAre DEF ListenerInv, ListenerTypeOK
<1>2. CASE StreamSubscribes(s)
  <2>1. /\ at[s] = "request" /\ Subscribe(s) /\ UNCHANGED <<web, after, closed, faults>>
    BY <1>2 DEF StreamSubscribes
  <2> QED BY <1>1, <2>1, Subscribes DEF Holding, web
<1>3. CASE StreamDisconnects(s)
  <2>1. /\ at[s] = "open" /\ Unsubscribe(s, mine[s], "end") /\ UNCHANGED <<web, faults>>
        /\ closed' = [closed EXCEPT ![s] = TRUE]
    BY <1>3 DEF StreamDisconnects
  <2>2. release # mine[s] /\ \A b \in Actors \ {s} : at[b] \in Holding => mine[b] # mine[s]
    BY <1>1, <2>1 DEF ListenerInv, Subscriptions, Holding
  <2>3. closed' \in [Streams -> BOOLEAN]
    BY <1>1, <2>1
  <2> QED BY <1>1, <2>1, <2>2, <2>3, Unsubscribes DEF web
<1> QED BY <1>2, <1>3

-----------------------------------------------------------------------------
LEMMA VerifyStep ==
    ASSUME ListenerInv, NEW p \in Probes, Verify(p)
    PROVE  ListenerInv'
<1>1. /\ p \in Actors /\ p # Shutdown /\ at[p] = "request"
      /\ ready \in BOOLEAN /\ stopping \in BOOLEAN /\ closed \in [Streams -> BOOLEAN]
      /\ after \in [Actors -> {"subscribe", "end"}]
      /\ UNCHANGED <<stopping, closed, faults>>
  BY ActorsAre DEF Verify, ListenerInv, ListenerTypeOK
<1>2. CASE /\ ready' = ~stopping /\ Goto(p, "idle")
           /\ UNCHANGED <<store, release, mine, held, after>>
  <2>1. at' = [at EXCEPT ![p] = "idle"] /\ "idle" \in Places /\ "idle" \notin Holding
    BY <1>2 DEF Goto, Places, Holding
  <2> QED BY <1>1, <1>2, <2>1, Moves
<1>3. CASE release # 0 /\ Unsubscribe(p, release, "subscribe") /\ release' = 0 /\ UNCHANGED ready
  <2>1. \A b \in Actors \ {p} : at[b] \in Holding => mine[b] # release
    BY DEF ListenerInv, Subscriptions
  <2> QED BY <1>1, <1>3, <2>1, Unsubscribes
<1>4. CASE Subscribe(p) /\ UNCHANGED <<release, ready, after>>
  BY <1>1, <1>4, Subscribes DEF Holding
<1> QED BY <1>2, <1>3, <1>4 DEF Verify

LEMMA ResubscribeStep ==
    ASSUME ListenerInv, NEW p \in Probes, Resubscribe(p)
    PROVE  ListenerInv'
<1>1. at[p] = "released" /\ Subscribe(p) /\ UNCHANGED <<web, after, closed, faults>>
  BY DEF Resubscribe
<1> QED BY <1>1, ActorsAre, Subscribes DEF Holding, web

\* The subscription of the probe becomes the one of the process.
LEMMA KeepStep ==
    ASSUME ListenerInv, NEW p \in Probes, Keep(p)
    PROVE  ListenerInv'
<1>1. /\ p \in Actors /\ p # Shutdown /\ at[p] = "subscribed" /\ at \in [Actors -> Places]
      /\ closed \in [Streams -> BOOLEAN] /\ mine[p] \in listeners /\ listeners \subseteq Tokens
      /\ UNCHANGED <<stopping, closed, faults>>
  BY ActorsAre DEF Keep, ListenerInv, ListenerTypeOK, Places, Subscriptions, Holding
<1>2. release # mine[p] /\ \A b \in Actors \ {p} : at[b] \in Holding => mine[b] # mine[p]
  BY <1>1 DEF ListenerInv, Subscriptions, Holding
<1>3. CASE healthy
  <2>1. /\ release' = mine[p] /\ ready' = TRUE /\ at' = [at EXCEPT ![p] = "idle"]
        /\ UNCHANGED <<store, mine, held, after>>
    BY <1>3 DEF Keep, Goto
  <2>2. at'[p] = "idle" /\ \A b \in Actors \ {p} : at'[b] = at[b]
    BY <1>1, <2>1
  <2>3. at' \in [Actors -> Places]
    BY <1>1, <2>1 DEF Places
  <2>4. ListenerTypeOK'
    BY <1>1, <2>1, <2>3 DEF ListenerInv, ListenerTypeOK, store, Places
  <2>5. \A b \in Actors : at'[b] \in Holding => b # p /\ at[b] \in Holding
    BY <2>2 DEF Holding
  <2>6. Subscriptions'
    BY <1>1, <1>2, <2>1, <2>5 DEF ListenerInv, Subscriptions, store
  <2>7. SetupInv'
    BY <1>1, <2>1, <2>2 DEF ListenerInv, SetupInv, store
  <2>8. HeldInv'
    BY <1>1, <2>1, <2>2 DEF ListenerInv, HeldInv, store
  <2>9. OpenMeansListening'
    BY <1>1, <2>1, <2>2, ActorsAre DEF ListenerInv, OpenMeansListening, store
  <2>10. ClientsAccounted'
    BY <2>1 DEF ListenerInv, ClientsAccounted, store
  <2>11. ShutdownInv'
    BY <1>1, <2>2, ActorsAre DEF ListenerInv, ShutdownInv
  <2> QED BY <2>4, <2>6, <2>7, <2>8, <2>9, <2>10, <2>11 DEF ListenerInv
<1>4. CASE ~healthy
  <2>1. Unsubscribe(p, mine[p], "end") /\ ready' = FALSE /\ UNCHANGED release
    BY <1>4 DEF Keep
  <2> QED BY <1>1, <1>2, <2>1, Unsubscribes
<1> QED BY <1>3, <1>4

\* A subscription that failed takes its own listener away.
LEMMA RejectedStep ==
    ASSUME ListenerInv, NEW a \in Actors, Rejected(a)
    PROVE  ListenerInv'
<1>1. /\ at[a] = "rejected" /\ listeners' = listeners \ {mine[a]} /\ ready' = FALSE
      /\ at' = [at EXCEPT ![a] = "idle"] /\ at \in [Actors -> Places]
      /\ UNCHANGED <<listening, setup, healthy, out, release, stopping, mine, held, after, closed, faults>>
  BY DEF Rejected, Goto, ListenerInv, ListenerTypeOK, Places
<1>2. release # mine[a] /\ \A b \in Actors \ {a} : at[b] \in Holding => mine[b] # mine[a]
  BY <1>1 DEF ListenerInv, Subscriptions, Holding
<1>3. at'[a] = "idle" /\ \A b \in Actors \ {a} : at'[b] = at[b]
  BY <1>1
<1>4. at' \in [Actors -> Places]
  BY <1>1 DEF Places
<1>5. ListenerTypeOK'
  BY <1>1, <1>4 DEF ListenerInv, ListenerTypeOK, Places
<1>6. \A b \in Actors : at'[b] \in Holding => b # a /\ at[b] \in Holding
  BY <1>3 DEF Holding
<1>7. Subscriptions'
  BY <1>1, <1>2, <1>6 DEF ListenerInv, Subscriptions
<1>8. SetupInv'
  BY <1>1, <1>3 DEF ListenerInv, SetupInv
<1>9. HeldInv'
  BY <1>1, <1>3 DEF ListenerInv, HeldInv
<1>10. OpenMeansListening'
  BY <1>1, <1>3, ActorsAre DEF ListenerInv, OpenMeansListening
<1>11. ClientsAccounted'
  BY <1>1 DEF ListenerInv, ClientsAccounted
<1>12. ShutdownInv'
  BY <1>1, <1>3, ActorsAre DEF ListenerInv, ShutdownInv
<1> QED BY <1>5, <1>7, <1>8, <1>9, <1>10, <1>11, <1>12 DEF ListenerInv

LEMMA StopReadinessStep ==
    ASSUME ListenerInv, StopReadiness
    PROVE  ListenerInv'
<1>1. /\ at[Shutdown] = "sweeping" /\ Shutdown \in Actors /\ release' = 0
      /\ ready \in BOOLEAN /\ closed \in [Streams -> BOOLEAN]
      /\ UNCHANGED <<ready, stopping, closed, faults>>
  BY ActorsAre DEF StopReadiness, ListenerInv, ListenerTypeOK
<1>2. CASE release # 0
  <2>1. Unsubscribe(Shutdown, release, "end")
    BY <1>2 DEF StopReadiness
  <2>2. \A b \in Actors \ {Shutdown} : at[b] \in Holding => mine[b] # release
    BY DEF ListenerInv, Subscriptions
  <2> QED BY <1>1, <2>1, <2>2, Unsubscribes
<1>3. CASE release = 0
  <2>1. at' = [at EXCEPT ![Shutdown] = "ending"] /\ UNCHANGED <<store, mine, held, after>>
    BY <1>3 DEF StopReadiness, Goto
  <2>2. "ending" \in Places /\ "ending" \notin Holding
    BY DEF Places, Suspended, Holding
  <2>3. after \in [Actors -> {"subscribe", "end"}] /\ stopping \in BOOLEAN
    BY DEF ListenerInv, ListenerTypeOK
  <2> QED BY <1>1, <1>3, <2>1, <2>2, <2>3, Moves
<1> QED BY <1>2, <1>3

\* A failure elsewhere counts as one.
LEMMA OnlyFaults ==
    ASSUME ListenerInv, UNCHANGED <<store, web, local>>, faults' \in 0..MaxFaults
    PROVE  ListenerInv'
BY DEF ListenerInv, ListenerTypeOK, ShutdownInv, Subscriptions, SetupInv, HeldInv, OpenMeansListening,
       ClientsAccounted, store, web, local

\* The invariant of the LISTEN connection is inductive.
LEMMA ListenerStep ==
    ASSUME ListenerInv, [ListenerNext]_listenerVars
    PROVE  ListenerInv'
<1>1. CASE Continue
  BY <1>1, ActorsAre, DecideReleaseStep, RejectedStep, MovingSteps, StreamOpensStep, ResubscribeStep, KeepStep
     DEF Continue
<1>2. CASE Setup
  BY <1>2, ConnectedStep, ListenActiveStep DEF Setup
<1>3. CASE StopReadiness \/ Stopped
  BY <1>3, StopReadinessStep, MovingSteps
<1>4. CASE Environment
  BY <1>4, SetupFailsStep, ListenLostStep, StopStep, MovingSteps, StreamSteps DEF Environment
<1>5. CASE \E a \in Actors : Unlisten(a)
  BY <1>5, UnlistenStep
<1>6. CASE \E s \in Streams : StreamSubscribes(s)
  BY <1>6, StreamSteps
<1>7. CASE \E p \in Probes : Verify(p)
  BY <1>7, VerifyStep
<1>8. CASE UNCHANGED listenerVars
  <2>1. UNCHANGED <<store, web, local>> /\ faults' \in 0..MaxFaults
    BY <1>8 DEF listenerVars, ListenerInv, ListenerTypeOK
  <2> QED BY <2>1, OnlyFaults
<1> QED BY <1>1, <1>2, <1>3, <1>4, <1>5, <1>6, <1>7, <1>8 DEF ListenerNext

\* Theorem: a stream is open only while LISTEN is active, and every client
\* that was checked out for listening is the current one or about to be
\* returned, however probes, streams, failures and the shutdown interleave
\* (subscribeTimeline and releaseTimelineListener in packages/db, timelineStream
\* in apps/web/src/server.ts).
THEOREM ListeningIsKept == ListenerSpec => [](OpenMeansListening /\ ClientsAccounted /\ ListenerTypeOK)
<1>1. ListenerInit => ListenerInv
  BY ListenerStarts
<1>2. ListenerInv /\ [ListenerNext]_listenerVars => ListenerInv'
  BY ListenerStep
<1>3. ListenerInv => OpenMeansListening /\ ClientsAccounted /\ ListenerTypeOK
  BY DEF ListenerInv
<1> QED BY <1>1, <1>2, <1>3, PTL DEF ListenerSpec

-----------------------------------------------------------------------------
(* Readiness: the pool that probes, the LISTEN connection and other requests *)
(* share (ReadinessProbe).                                                   *)

PingTypeOK ==
    /\ checkedOut \in 0..PoolSize /\ borrowed \in Nat
    /\ pinging \in [Probes -> {"new", "acquiring", "querying", "answered"}]
    /\ acquires \in [Probes -> Acquisitions \cup {0}]
    /\ acquisition \in [Acquisitions -> {"none", "waiting", "late"}]
    /\ pending \in Acquisitions \cup {0}

\* A probe awaits an acquisition of its own, which is not late, and it is in
\* its request as long as its ping is under way.
PingInv ==
    /\ \A p \in Probes :
        /\ acquires[p] # 0 <=> pinging[p] = "acquiring"
        /\ acquires[p] # 0 => acquisition[acquires[p]] = "waiting"
        /\ pinging[p] \in {"acquiring", "querying"} => at[p] = "request"
    /\ \A p, q \in Probes : acquires[p] # 0 /\ acquires[p] = acquires[q] => p = q

Querying == {p \in Probes : pinging[p] = "querying"}

ProbeInv ==
    /\ ListenerInv
    /\ PingTypeOK
    /\ PingInv
    /\ PoolAccounted

LEMMA CountsAreNumbers ==
    /\ \A S \in SUBSET Clients : IsFiniteSet(S) /\ Cardinality(S) \in Nat
    /\ \A S \in SUBSET Probes : IsFiniteSet(S) /\ Cardinality(S) \in Nat
<1>1. IsFiniteSet(Clients)
  BY FS_Interval, ListenerAssumption DEF Clients
<1>2. IsFiniteSet(Probes)
  BY ProbeAssumption
<1> QED BY <1>1, <1>2, FS_Subset, FS_CardinalityType

LEMMA ProbeStarts == ProbeInit => ProbeInv
<1> SUFFICES ASSUME ProbeInit PROVE ProbeInv
  OBVIOUS
<1>1. ListenerInv
  BY ListenerStarts DEF ProbeInit
<1>2. /\ \A p \in Probes : pinging[p] = "new" /\ acquires[p] = 0
      /\ out = {1} /\ checkedOut = 1 /\ borrowed = 0 /\ pending = 0
  BY DEF ProbeInit, ListenerInit
<1>3. PingTypeOK
  BY <1>2, ProbeAssumption DEF ProbeInit, PingTypeOK
<1>4. PingInv
  BY <1>2 DEF PingInv
<1>5. Cardinality(out) = 1
  BY <1>2, FS_Singleton
<1>6. Cardinality({p \in Probes : pinging[p] = "querying"}) = 0
  <2>1. {p \in Probes : pinging[p] = "querying"} = {}
    BY <1>2
  <2> QED BY <2>1, FS_EmptySet
<1>7. PoolAccounted
  BY <1>1, <1>2, <1>5, <1>6 DEF PoolAccounted, ListenerInv
<1> QED BY <1>1, <1>3, <1>4, <1>7 DEF ProbeInv

-----------------------------------------------------------------------------
\* The steps of TimelineListener leave a probe that pings in its request.
Elsewhere ==
    \/ Continue \/ Setup \/ StopReadiness \/ Stopped \/ SetupFails \/ ListenLost \/ Stop
    \/ \E a \in Actors : Unlisten(a)
    \/ \E s \in Streams : StreamSubscribes(s) \/ Arrive(s) \/ StreamDisconnects(s)

LEMMA PingIsLeftAlone ==
    ASSUME ListenerInv, Elsewhere, NEW p \in Probes, at[p] = "request"
    PROVE  at'[p] = "request"
<1>1. at \in [Actors -> Places] /\ p \in Actors /\ p # Shutdown /\ p \notin Streams
  BY ActorsAre, ListenerAssumption DEF ListenerInv, ListenerTypeOK, Places
<1>2. ASSUME NEW a \in Actors, NEW place, a # p, Goto(a, place) PROVE at'[p] = "request"
  BY <1>1, <1>2 DEF Goto
<1>3. CASE Continue
  <2>1. ASSUME NEW a \in Actors, DecideRelease(a) \/ Rejected(a) \/ Ended(a)
        PROVE  a # p /\ \E place : Goto(a, place)
    BY <2>1 DEF DecideRelease, Rejected, Ended, Goto
  <2>2. ASSUME NEW s \in Streams, StreamOpens(s)
        PROVE  s # p /\ \E place : Goto(s, place)
    BY <1>1, <2>2 DEF StreamOpens, Unsubscribe
  <2>3. ASSUME NEW q \in Probes, Resubscribe(q) \/ Keep(q)
        PROVE  q # p /\ \E place : Goto(q, place)
    BY <2>3 DEF Resubscribe, Keep, Subscribe, Unsubscribe
  <2>4. StopPool => \E place : Goto(Shutdown, place)
    BY DEF StopPool
  <2> QED BY <1>1, <1>2, <1>3, <2>1, <2>2, <2>3, <2>4, ActorsAre DEF Continue
<1>4. CASE Setup \/ SetupFails
  <2>1. CASE Connected
    BY <2>1 DEF Connected, local
  <2>2. CASE ListenActive \/ SetupFails
    BY <1>1, <2>2 DEF ListenActive, SetupFails, Settle
  <2> QED BY <1>4, <2>1, <2>2 DEF Setup
<1>5. CASE StopReadiness \/ Stopped
  <2>1. \E place : Goto(Shutdown, place)
    BY <1>5 DEF StopReadiness, Stopped, Unsubscribe
  <2> QED BY <1>1, <1>2, <2>1, ActorsAre
<1>6. CASE ListenLost \/ Stop
  BY <1>1, <1>6 DEF ListenLost, Stop
<1>7. ASSUME NEW a \in Actors, Unlisten(a) PROVE at'[p] = "request"
  <2>1. a # p /\ Goto(a, "released")
    BY <1>7 DEF Unlisten
  <2> QED BY <1>2, <2>1
<1>8. ASSUME NEW s \in Streams, StreamSubscribes(s) \/ Arrive(s) \/ StreamDisconnects(s)
      PROVE  at'[p] = "request"
  <2>1. \E place : Goto(s, place)
    BY <1>8 DEF StreamSubscribes, Arrive, StreamDisconnects, Subscribe, Unsubscribe
  <2> QED BY <1>1, <1>2, <2>1, ActorsAre
<1> QED BY <1>3, <1>4, <1>5, <1>6, <1>7, <1>8 DEF Elsewhere

\* Clients of the LISTEN connection come from the pool and go back to it.
LEMMA PoolFollows ==
    ASSUME ProbeInv, ListenerInv', FromPool,
           UNCHANGED <<acquires, acquisition, pending, borrowed>>, Querying' = Querying
    PROVE  /\ checkedOut' \in 0..PoolSize
           /\ PoolAccounted'
<1> DEFINE n  == Cardinality(out)
           n1 == Cardinality(out')
           q  == Cardinality(Querying)
<1>1. n \in Nat /\ n1 \in Nat /\ q \in Nat
  <2>1. out \in SUBSET Clients /\ out' \in SUBSET Clients /\ Querying \in SUBSET Probes
    BY DEF ProbeInv, ListenerInv, ListenerTypeOK, Querying
  <2> QED BY <2>1, CountsAreNumbers
<1>2. checkedOut = n + q + borrowed /\ borrowed \in Nat
  BY DEF ProbeInv, PoolAccounted, PingTypeOK, Querying
<1>3. checkedOut' = checkedOut + n1 - n /\ checkedOut' <= PoolSize
  BY DEF FromPool
<1> HIDE DEF n, n1, q
<1>4. checkedOut' = n1 + q + borrowed' /\ checkedOut' \in 0..PoolSize
  BY <1>1, <1>2, <1>3, ProbeAssumption
<1>5. checkedOut' = Cardinality(out') + Cardinality(Querying') + borrowed'
  BY <1>4 DEF n1, q
<1>6. ClientsAccounted' /\ (pending' # 0 => acquisition'[pending'] = "late")
  BY DEF ProbeInv, PoolAccounted, ListenerInv
<1> QED BY <1>4, <1>5, <1>6 DEF PoolAccounted, Querying

LEMMA ElsewhereStep ==
    ASSUME ProbeInv, Elsewhere, ListenerSteps
    PROVE  ProbeInv'
<1>1. ListenerNext
  BY DEF Elsewhere, ListenerNext, Environment
<1>2. ListenerInv'
  BY <1>1, ListenerStep DEF ProbeInv
<1>3. FromPool /\ UNCHANGED <<pinging, acquires, acquisition, pending, borrowed>>
  BY DEF ListenerSteps, pingVars
<1>4. checkedOut' \in 0..PoolSize /\ PoolAccounted'
  BY <1>2, <1>3, PoolFollows DEF Querying
<1>5. PingTypeOK'
  BY <1>3, <1>4 DEF ProbeInv, PingTypeOK
<1>6. \A p \in Probes : pinging[p] \in {"acquiring", "querying"} => at'[p] = "request"
  BY PingIsLeftAlone DEF ProbeInv, PingInv
<1>7. PingInv'
  BY <1>3, <1>6 DEF ProbeInv, PingInv
<1> QED BY <1>2, <1>4, <1>5, <1>7 DEF ProbeInv

\* What a ping changes: its probe, its acquisition, and how many query.
LEMMA QueryingCounts ==
    ASSUME PingTypeOK, NEW p \in Probes, NEW place, pinging' = [pinging EXCEPT ![p] = place]
    PROVE  /\ Cardinality(Querying) \in Nat
           /\ pinging'[p] = place /\ \A q \in Probes \ {p} : pinging'[q] = pinging[q]
           /\ pinging[p] # "querying" /\ place # "querying" => Querying' = Querying
           /\ pinging[p] # "querying" /\ place = "querying" =>
                Cardinality(Querying') = Cardinality(Querying) + 1
           /\ pinging[p] = "querying" /\ place # "querying" =>
                Cardinality(Querying') = Cardinality(Querying) - 1
<1>1. pinging'[p] = place /\ \A q \in Probes \ {p} : pinging'[q] = pinging[q]
  BY DEF PingTypeOK
<1>2. IsFiniteSet(Querying) /\ Cardinality(Querying) \in Nat
  <2>1. Querying \in SUBSET Probes
    BY DEF Querying
  <2> QED BY <2>1, CountsAreNumbers
<1>3. pinging[p] # "querying" /\ place # "querying" => Querying' = Querying
  BY <1>1 DEF Querying
<1>4. ASSUME pinging[p] # "querying", place = "querying"
      PROVE  Cardinality(Querying') = Cardinality(Querying) + 1
  <2>1. Querying' = Querying \cup {p} /\ p \notin Querying
    BY <1>1, <1>4 DEF Querying
  <2> QED BY <1>2, <2>1, FS_AddElement
<1>5. ASSUME pinging[p] = "querying", place # "querying"
      PROVE  Cardinality(Querying') = Cardinality(Querying) - 1
  <2>1. Querying' = Querying \ {p} /\ p \in Querying
    BY <1>1, <1>5 DEF Querying
  <2> QED BY <1>2, <2>1, FS_RemoveElement
<1> QED BY <1>1, <1>2, <1>3, <1>4, <1>5

\* The invariant with its count of clients as three numbers.
LEMMA PoolCounts ==
    ASSUME ProbeInv
    PROVE  /\ Cardinality(out) \in Nat /\ Cardinality(Querying) \in Nat
           /\ checkedOut = Cardinality(out) + Cardinality(Querying) + borrowed
<1>1. out \in SUBSET Clients /\ Querying \in SUBSET Probes
  BY DEF ProbeInv, ListenerInv, ListenerTypeOK, Querying
<1> QED BY <1>1, CountsAreNumbers DEF ProbeInv, PoolAccounted, Querying

\* A step of the pool alone: no place of an actor changes.
PoolAlone == UNCHANGED <<store, web, local>> /\ faults' \in 0..MaxFaults

LEMMA PoolStep ==
    ASSUME ProbeInv, PoolAlone, PingTypeOK', PingInv',
           checkedOut' = Cardinality(out) + Cardinality(Querying') + borrowed',
           pending' # 0 => acquisition'[pending'] = "late"
    PROVE  ProbeInv'
<1>1. ListenerInv'
  BY OnlyFaults DEF PoolAlone, ProbeInv
<1>2. UNCHANGED out
  BY DEF PoolAlone, store
<1>3. PoolAccounted'
  BY <1>1, <1>2 DEF PoolAccounted, ListenerInv, Querying
<1> QED BY <1>1, <1>3 DEF ProbeInv

LEMMA FaultCounts ==
    ASSUME ProbeInv, UNCHANGED <<store, web, local>>, Fault \/ UNCHANGED faults
    PROVE  PoolAlone
BY ListenerAssumption DEF PoolAlone, Fault, ProbeInv, ListenerInv, ListenerTypeOK

LEMMA PingStep ==
    ASSUME ProbeInv, NEW p \in Probes, Ping(p)
    PROVE  ProbeInv'
<1>1. /\ at[p] = "request" /\ pinging[p] = "new"
      /\ UNCHANGED <<store, web, local, faults>> /\ UNCHANGED <<checkedOut, pending, borrowed>>
  BY DEF Ping, listenerVars
<1>2. PoolAlone /\ UNCHANGED at
  BY <1>1, FaultCounts DEF local
<1>3. acquires[p] = 0 /\ PingTypeOK /\ 0 \notin Acquisitions
  BY <1>1 DEF ProbeInv, PingInv, PingTypeOK, Acquisitions
<1>4. PICK place \in {"answered", "acquiring"} : pinging' = [pinging EXCEPT ![p] = place]
  BY DEF Ping, Answer
<1>5. /\ pinging'[p] = place /\ (\A q \in Probes \ {p} : pinging'[q] = pinging[q]) /\ Querying' = Querying
  BY <1>1, <1>3, <1>4, QueryingCounts
<1>6. checkedOut' = Cardinality(out) + Cardinality(Querying') + borrowed'
  BY <1>1, <1>5, PoolCounts
<1>7. CASE pending # 0
  <2>1. place = "answered" /\ UNCHANGED <<acquires, acquisition>>
    BY <1>5, <1>7, <1>3, <1>4 DEF Ping, Answer, PingTypeOK
  <2>2. PingTypeOK'
    BY <1>1, <1>3, <1>4, <2>1 DEF PingTypeOK
  <2>3. PingInv'
    BY <1>2, <1>3, <1>5, <2>1 DEF ProbeInv, PingInv
  <2>4. pending' # 0 => acquisition'[pending'] = "late"
    BY <1>1, <2>1 DEF ProbeInv, PoolAccounted
  <2> QED BY <1>2, <1>6, <2>2, <2>3, <2>4, PoolStep
<1>8. CASE pending = 0
  <2>1. PICK k \in Acquisitions :
          /\ acquisition[k] = "none"
          /\ acquisition' = [acquisition EXCEPT ![k] = "waiting"]
          /\ acquires' = [acquires EXCEPT ![p] = k]
    BY <1>8 DEF Ping
  <2>2. place = "acquiring"
    BY <1>3, <1>4, <1>5, <1>8 DEF Ping, PingTypeOK
  <2>3. /\ acquires'[p] = k /\ \A q \in Probes \ {p} : acquires'[q] = acquires[q]
        /\ acquisition'[k] = "waiting" /\ \A j \in Acquisitions \ {k} : acquisition'[j] = acquisition[j]
    BY <1>3, <2>1 DEF PingTypeOK
  <2>4. \A q \in Probes : acquires[q] # k
    BY <1>3, <2>1 DEF ProbeInv, PingInv
  <2>5. PingTypeOK'
    BY <1>1, <1>3, <1>4, <2>1 DEF PingTypeOK
  <2>6. \A q \in Probes : acquires[q] \in Acquisitions \cup {0}
    BY <1>3 DEF PingTypeOK
  <2>7. PingInv'
    BY <1>1, <1>2, <1>3, <1>5, <2>2, <2>3, <2>4, <2>6 DEF ProbeInv, PingInv
  <2>8. pending' = 0
    BY <1>1, <1>8
  <2> QED BY <1>2, <1>6, <2>5, <2>7, <2>8, PoolStep
<1> QED BY <1>7, <1>8

\* An acquisition that is over or late is one that no probe awaits any longer.
LEMMA PingEnds ==
    ASSUME ProbeInv, PoolAlone, NEW p \in Probes, acquires[p] # 0,
           NEW place \in {"answered", "querying"}, NEW state \in {"none", "late"},
           pinging' = [pinging EXCEPT ![p] = place],
           acquires' = [acquires EXCEPT ![p] = 0],
           acquisition' = [acquisition EXCEPT ![acquires[p]] = state],
           UNCHANGED borrowed, checkedOut' \in 0..PoolSize,
           checkedOut' = IF place = "querying" THEN checkedOut + 1 ELSE checkedOut,
           \/ state = "none" /\ UNCHANGED pending
           \/ state = "late" /\ pending' = acquires[p]
    PROVE  ProbeInv'
<1> DEFINE k == acquires[p]
<1>1. /\ PingTypeOK /\ k \in Acquisitions /\ 0 \notin Acquisitions
      /\ pinging[p] = "acquiring" /\ at[p] = "request" /\ acquisition[k] = "waiting"
  BY DEF ProbeInv, PingInv, PingTypeOK, Acquisitions
<1>2. acquisition' = [acquisition EXCEPT ![k] = state] /\ (state = "late" => pending' = k)
  OBVIOUS
<1>3. \A q \in Probes \ {p} : acquires[q] # k
  BY DEF ProbeInv, PingInv
<1> HIDE DEF k
<1>4. /\ pinging'[p] = place /\ \A q \in Probes \ {p} : pinging'[q] = pinging[q]
      /\ Cardinality(Querying) \in Nat
      /\ place # "querying" => Querying' = Querying
      /\ place = "querying" => Cardinality(Querying') = Cardinality(Querying) + 1
  BY <1>1, QueryingCounts
<1>5. /\ acquires'[p] = 0 /\ \A q \in Probes \ {p} : acquires'[q] = acquires[q]
      /\ acquisition'[k] = state /\ \A j \in Acquisitions \ {k} : acquisition'[j] = acquisition[j]
  BY <1>1, <1>2 DEF PingTypeOK
<1>6. PingTypeOK'
  BY <1>1, <1>2 DEF PingTypeOK
<1>7. PingInv'
  <2>1. \A q \in Probes : acquires[q] \in Acquisitions \cup {0}
    BY <1>1 DEF PingTypeOK
  <2>2. UNCHANGED at
    BY DEF PoolAlone, local
  <2> QED BY <1>1, <1>3, <1>4, <1>5, <2>1, <2>2 DEF ProbeInv, PingInv
<1>8. checkedOut' = Cardinality(out) + Cardinality(Querying') + borrowed'
  <2>1. borrowed \in Nat
    BY <1>1 DEF PingTypeOK
  <2> QED BY <1>4, <2>1, PoolCounts
<1>9. pending' # 0 => acquisition'[pending'] = "late"
  <2>1. CASE state = "late"
    BY <1>2, <1>5, <2>1
  <2>2. CASE state = "none"
    <3>1. pending' = pending /\ (pending # 0 => acquisition[pending] = "late" /\ pending \in Acquisitions)
      BY <1>1, <2>2 DEF ProbeInv, PoolAccounted, PingTypeOK
    <3> QED BY <1>1, <1>5, <3>1
  <2> QED BY <2>1, <2>2
<1> QED BY <1>6, <1>7, <1>8, <1>9, PoolStep

\* A late acquisition is over: nobody awaits it.
LEMMA LateEnds ==
    ASSUME ProbeInv, PoolAlone, NEW k \in Acquisitions, acquisition[k] = "late", Forget(k),
           acquisition' = [acquisition EXCEPT ![k] = "none"],
           UNCHANGED <<checkedOut, pinging, acquires, borrowed>>
    PROVE  ProbeInv'
<1>1. PingTypeOK /\ 0 \notin Acquisitions /\ UNCHANGED at
  BY DEF ProbeInv, Acquisitions, PoolAlone, local
<1>2. acquisition'[k] = "none" /\ \A j \in Acquisitions \ {k} : acquisition'[j] = acquisition[j]
  BY <1>1 DEF PingTypeOK
<1>3. PingTypeOK'
  BY <1>1 DEF PingTypeOK, Forget
<1>4. \A q \in Probes : acquires[q] # k /\ acquires[q] \in Acquisitions \cup {0}
  BY <1>1 DEF ProbeInv, PingInv, PingTypeOK
<1>5. PingInv'
  BY <1>1, <1>2, <1>4 DEF ProbeInv, PingInv
<1>6. pending' # 0 => acquisition'[pending'] = "late"
  <2>1. pending # 0 => acquisition[pending] = "late" /\ pending \in Acquisitions
    BY <1>1 DEF ProbeInv, PoolAccounted, PingTypeOK
  <2> QED BY <1>2, <2>1 DEF Forget
<1>7. Querying' = Querying
  BY DEF Querying
<1>8. checkedOut' = Cardinality(out) + Cardinality(Querying') + borrowed'
  BY <1>7, PoolCounts
<1> QED BY <1>3, <1>5, <1>6, <1>8, PoolStep

LEMMA AcquisitionSteps ==
    ASSUME ProbeInv,
           \/ \E p \in Probes : AcquisitionTimesOut(p)
           \/ \E k \in Acquisitions : Acquire(k) \/ Refuse(k)
    PROVE  ProbeInv'
<1>1. checkedOut \in 0..PoolSize /\ PoolSize \in Nat /\ 0 \notin Acquisitions
  BY ProbeAssumption DEF ProbeInv, PingTypeOK, Acquisitions
<1>2. ASSUME NEW p \in Probes, AcquisitionTimesOut(p) PROVE ProbeInv'
  <2>1. acquires[p] # 0
    BY <1>2 DEF AcquisitionTimesOut, ProbeInv, PingInv
  <2>2. /\ pinging' = [pinging EXCEPT ![p] = "answered"]
        /\ acquires' = [acquires EXCEPT ![p] = 0]
        /\ acquisition' = [acquisition EXCEPT ![acquires[p]] = "late"]
        /\ pending' = acquires[p]
        /\ UNCHANGED <<store, web, local, checkedOut, borrowed>> /\ Fault
    BY <1>2 DEF AcquisitionTimesOut, Answer
  <2>3. PoolAlone
    BY <2>2, FaultCounts
  <2> QED BY <1>1, <2>1, <2>2, <2>3, PingEnds
<1>3. ASSUME NEW k \in Acquisitions, Acquire(k) PROVE ProbeInv'
  <2>1. /\ checkedOut < PoolSize /\ acquisition' = [acquisition EXCEPT ![k] = "none"]
        /\ UNCHANGED <<store, web, local, faults, borrowed>>
    BY <1>3 DEF Acquire, listenerVars
  <2>2. PoolAlone
    BY <2>1, FaultCounts
  <2>3. CASE acquisition[k] = "late" /\ Forget(k) /\ UNCHANGED <<checkedOut, pinging, acquires>>
    BY <2>1, <2>2, <2>3, LateEnds
  <2>4. ASSUME NEW p \in Probes, acquires[p] = k, checkedOut' = checkedOut + 1,
               pinging' = [pinging EXCEPT ![p] = "querying"],
               acquires' = [acquires EXCEPT ![p] = 0], UNCHANGED pending
        PROVE  ProbeInv'
    <3>1. checkedOut' \in 0..PoolSize
      BY <1>1, <2>1, <2>4
    <3>2. acquires[p] # 0 /\ acquisition' = [acquisition EXCEPT ![acquires[p]] = "none"]
      BY <1>1, <2>1, <2>4
    <3> QED BY <2>1, <2>2, <2>4, <3>1, <3>2, PingEnds
  <2> QED BY <1>3, <2>3, <2>4 DEF Acquire
<1>4. ASSUME NEW k \in Acquisitions, Refuse(k) PROVE ProbeInv'
  <2>1. /\ acquisition' = [acquisition EXCEPT ![k] = "none"]
        /\ UNCHANGED <<store, web, local, checkedOut, borrowed>>
    BY <1>4 DEF Refuse
  <2>2. CASE /\ acquisition[k] = "late" /\ Forget(k)
             /\ UNCHANGED <<pinging, acquires, database, faults>>
    <3>1. PoolAlone
      BY <2>1, <2>2, FaultCounts
    <3> QED BY <2>1, <2>2, <3>1, LateEnds
  <2>3. ASSUME NEW p \in Probes, acquires[p] = k, Fault, acquires' = [acquires EXCEPT ![p] = 0],
               Answer(p, FALSE), UNCHANGED pending
        PROVE  ProbeInv'
    <3>1. PoolAlone
      BY <2>1, <2>3, FaultCounts
    <3>2. acquires[p] # 0 /\ acquisition' = [acquisition EXCEPT ![acquires[p]] = "none"]
      BY <1>1, <2>1, <2>3
    <3>3. pinging' = [pinging EXCEPT ![p] = "answered"]
      BY <2>3 DEF Answer
    <3> QED BY <1>1, <2>1, <2>3, <3>1, <3>2, <3>3, PingEnds
  <2> QED BY <1>4, <2>2, <2>3 DEF Refuse
<1> QED BY <1>2, <1>3, <1>4

LEMMA QueryStep ==
    ASSUME ProbeInv, NEW p \in Probes, QueryAnswered(p) \/ QueryFails(p)
    PROVE  ProbeInv'
<1>1. /\ pinging[p] = "querying" /\ checkedOut' = checkedOut - 1
      /\ pinging' = [pinging EXCEPT ![p] = "answered"]
      /\ UNCHANGED <<store, web, local, acquires, acquisition, pending, borrowed>>
      /\ Fault \/ UNCHANGED faults
  BY DEF QueryAnswered, QueryFails, Query, Answer
<1>2. PoolAlone /\ UNCHANGED at /\ PingTypeOK /\ acquires[p] = 0
  BY <1>1, FaultCounts DEF local, ProbeInv, PingInv
<1>3. /\ pinging'[p] = "answered" /\ \A q \in Probes \ {p} : pinging'[q] = pinging[q]
      /\ Cardinality(Querying) \in Nat /\ Cardinality(Querying') = Cardinality(Querying) - 1
  BY <1>1, <1>2, QueryingCounts
<1>4. Cardinality(Querying) > 0
  <2>1. p \in Querying /\ Querying \in SUBSET Probes
    BY <1>1 DEF Querying
  <2> QED BY <1>3, <2>1, CountsAreNumbers, FS_EmptySet
<1>5. checkedOut' = Cardinality(out) + Cardinality(Querying') + borrowed'
  BY <1>1, <1>2, <1>3, PoolCounts DEF PingTypeOK
<1>6. checkedOut' \in 0..PoolSize
  BY <1>1, <1>2, <1>3, <1>4, PoolCounts, ProbeAssumption DEF PingTypeOK
<1>7. PingTypeOK'
  BY <1>1, <1>2, <1>6 DEF PingTypeOK
<1>8. PingInv'
  BY <1>1, <1>2, <1>3 DEF ProbeInv, PingInv
<1>9. pending' # 0 => acquisition'[pending'] = "late"
  BY <1>1 DEF ProbeInv, PoolAccounted
<1> QED BY <1>2, <1>5, <1>7, <1>8, <1>9, PoolStep

\* Other requests take clients and return them.
LEMMA BorrowerSteps ==
    ASSUME ProbeInv, Borrow \/ Return
    PROVE  ProbeInv'
<1>1. UNCHANGED <<store, web, local, faults>> /\ UNCHANGED <<pinging, acquires, acquisition, pending>>
  BY DEF Borrow, Return, listenerVars
<1>2. PoolAlone /\ UNCHANGED at
  BY <1>1, FaultCounts DEF local
<1>3. Querying' = Querying
  BY <1>1 DEF Querying
<1>4. checkedOut \in 0..PoolSize /\ borrowed \in Nat /\ PoolSize \in Nat
  BY ProbeAssumption DEF ProbeInv, PingTypeOK
<1>5. /\ checkedOut' = Cardinality(out) + Cardinality(Querying') + borrowed'
      /\ checkedOut' \in 0..PoolSize /\ borrowed' \in Nat
  <2>1. CASE Borrow
    BY <1>3, <1>4, <2>1, PoolCounts DEF Borrow
  <2>2. CASE Return
    BY <1>3, <1>4, <2>2, PoolCounts DEF Return
  <2> QED BY <2>1, <2>2
<1>6. PingTypeOK'
  BY <1>1, <1>5 DEF ProbeInv, PingTypeOK
<1>7. PingInv'
  BY <1>1, <1>2 DEF ProbeInv, PingInv
<1>8. pending' # 0 => acquisition'[pending'] = "late"
  BY <1>1 DEF ProbeInv, PoolAccounted
<1> QED BY <1>2, <1>5, <1>6, <1>7, <1>8, PoolStep

-----------------------------------------------------------------------------
\* The pool as it was: no client moves.
LEMMA SameClients ==
    ASSUME ProbeInv, ListenerInv', UNCHANGED <<checkedOut, out>>
    PROVE  FromPool
<1>1. Cardinality(out) \in Nat /\ checkedOut \in 0..PoolSize /\ PoolSize \in Nat
  BY PoolCounts, ProbeAssumption DEF ProbeInv, PingTypeOK
<1>2. Cardinality(out') = Cardinality(out)
  OBVIOUS
<1> QED BY <1>1, <1>2 DEF FromPool

LEMMA CloseAllStep ==
    ASSUME ProbeInv, CloseAll
    PROVE  ProbeInv'
<1>1. Stop /\ UNCHANGED <<checkedOut, pinging, acquires, acquisition, pending, borrowed>>
  BY DEF CloseAll
<1>2. ListenerInv'
  BY <1>1, StopStep DEF ProbeInv
<1>3. FromPool
  BY <1>1, <1>2, SameClients DEF Stop
<1>4. checkedOut' \in 0..PoolSize /\ PoolAccounted'
  BY <1>1, <1>2, <1>3, PoolFollows DEF Querying
<1>5. \A p \in Probes : pinging[p] \in {"acquiring", "querying"} => at'[p] = "request"
  BY <1>1, PingIsLeftAlone DEF ProbeInv, PingInv, Elsewhere
<1>6. PingTypeOK' /\ PingInv'
  BY <1>1, <1>4, <1>5 DEF ProbeInv, PingTypeOK, PingInv
<1> QED BY <1>2, <1>4, <1>6 DEF ProbeInv

\* A probe that arrives has no ping under way.
LEMMA ProbeArrivesStep ==
    ASSUME ProbeInv, NEW p \in Probes, ProbeArrives(p)
    PROVE  ProbeInv'
<1>1. /\ Arrive(p) /\ pinging' = [pinging EXCEPT ![p] = "new"]
      /\ UNCHANGED <<checkedOut, acquires, acquisition, pending, borrowed>>
  BY DEF ProbeArrives
<1>2. ListenerInv'
  BY <1>1, MovingSteps DEF ProbeInv
<1>3. /\ at[p] = "idle" /\ at' = [at EXCEPT ![p] = "request"] /\ UNCHANGED out
      /\ at \in [Actors -> Places]
  BY <1>1 DEF Arrive, Goto, store, ProbeInv, ListenerInv, ListenerTypeOK, Places
<1>4. FromPool
  BY <1>1, <1>2, <1>3, SameClients
<1>5. pinging[p] \notin {"acquiring", "querying"} /\ acquires[p] = 0 /\ PingTypeOK
  BY <1>3 DEF ProbeInv, PingInv
<1>6. /\ pinging'[p] = "new" /\ (\A q \in Probes \ {p} : pinging'[q] = pinging[q]) /\ Querying' = Querying
  BY <1>1, <1>5, QueryingCounts
<1>7. checkedOut' \in 0..PoolSize /\ PoolAccounted'
  BY <1>1, <1>2, <1>4, <1>6, PoolFollows
<1>8. \A q \in Probes \ {p} : at'[q] = at[q]
  BY <1>3, ActorsAre
<1>9. PingTypeOK'
  BY <1>1, <1>5, <1>7 DEF PingTypeOK
<1>10. PingInv'
  BY <1>1, <1>5, <1>6, <1>8 DEF ProbeInv, PingInv
<1> QED BY <1>2, <1>7, <1>9, <1>10 DEF ProbeInv

LEMMA VerifyAfterStep ==
    ASSUME ProbeInv, NEW p \in Probes, VerifyAfter(p)
    PROVE  ProbeInv'
<1>1. /\ pinging[p] = "answered" /\ Verify(p) /\ FromPool
      /\ UNCHANGED <<pinging, acquires, acquisition, pending, borrowed>>
  BY DEF VerifyAfter, ListenerSteps, pingVars
<1>2. ListenerInv'
  BY <1>1, VerifyStep DEF ProbeInv
<1>3. PICK place : at' = [at EXCEPT ![p] = place]
  BY <1>1 DEF Verify, Goto, Subscribe, Unsubscribe
<1>4. \A q \in Probes \ {p} : at'[q] = at[q]
  BY <1>3, ActorsAre DEF ProbeInv, ListenerInv, ListenerTypeOK
<1>5. checkedOut' \in 0..PoolSize /\ PoolAccounted'
  BY <1>1, <1>2, PoolFollows DEF Querying
<1>6. PingTypeOK' /\ PingInv'
  BY <1>1, <1>4, <1>5 DEF ProbeInv, PingTypeOK, PingInv
<1> QED BY <1>2, <1>5, <1>6 DEF ProbeInv

LEMMA ProbeStep ==
    ASSUME ProbeInv, [ProbeNext]_allVars
    PROVE  ProbeInv'
<1>1. CASE ContinueAll \/ SetUp \/ CloseGoesOn
  BY <1>1, ActorsAre, ElsewhereStep DEF ContinueAll, SetUp, CloseGoesOn, GiveUp, PoolEnded, Clean, Elsewhere
<1>2. CASE CloseAll
  BY <1>2, CloseAllStep
<1>3. CASE Faults
  <2>1. CASE (SetupFails \/ ListenLost) /\ ListenerSteps
    BY <2>1, ElsewhereStep DEF Elsewhere
  <2>2. CASE \E p \in Probes : AcquisitionTimesOut(p) \/ QueryFails(p)
    BY <2>2, AcquisitionSteps, QueryStep
  <2> QED BY <1>3, <2>1, <2>2 DEF Faults
<1>4. CASE Borrow \/ Return
  BY <1>4, BorrowerSteps
<1>5. ASSUME NEW s \in Streams, StreamGoesOn(s) \/ ((Arrive(s) \/ StreamDisconnects(s)) /\ ListenerSteps)
      PROVE  ProbeInv'
  BY <1>5, ActorsAre, ElsewhereStep DEF StreamGoesOn, StreamStep, Clean, Elsewhere
<1>6. ASSUME NEW p \in Probes, ProbeGoesOn(p) PROVE ProbeInv'
  <2>1. Clean(p) => ProbeInv'
    BY ActorsAre, ElsewhereStep DEF Clean, Elsewhere
  <2> QED BY <1>6, <2>1, ProbeArrivesStep, PingStep, QueryStep, VerifyAfterStep DEF ProbeGoesOn
<1>7. ASSUME NEW k \in Acquisitions, Acquire(k) \/ Refuse(k) PROVE ProbeInv'
  BY <1>7, AcquisitionSteps
<1>8. CASE UNCHANGED allVars
  <2>1. UNCHANGED <<store, web, local, faults>> /\ UNCHANGED <<checkedOut, pinging, acquires, acquisition, pending, borrowed>>
    BY <1>8 DEF allVars, listenerVars, pingVars
  <2>2. PoolAlone /\ UNCHANGED at /\ Querying' = Querying
    BY <2>1, FaultCounts DEF local, Querying
  <2>3. checkedOut' = Cardinality(out) + Cardinality(Querying') + borrowed'
    BY <2>1, <2>2, PoolCounts
  <2>4. PingTypeOK' /\ PingInv' /\ (pending' # 0 => acquisition'[pending'] = "late")
    BY <2>1, <2>2 DEF ProbeInv, PingTypeOK, PingInv, PoolAccounted
  <2> QED BY <2>2, <2>3, <2>4, PoolStep
<1> QED BY <1>1, <1>2, <1>3, <1>4, <1>5, <1>6, <1>7, <1>8 DEF ProbeNext

\* Theorem: every client of the pool that is checked out is in use, whatever
\* the deadlines of the probes, the failures and the shutdown do, and a probe
\* is turned away only while an acquisition is late (probePostgresReadiness).
THEOREM PoolIsAccounted == ProbeSpec => []PoolAccounted
<1>1. ProbeInit => ProbeInv
  BY ProbeStarts
<1>2. ProbeInv /\ [ProbeNext]_allVars => ProbeInv'
  BY ProbeStep
<1>3. ProbeInv => PoolAccounted
  BY DEF ProbeInv
<1> QED BY <1>1, <1>2, <1>3, PTL DEF ProbeSpec

\* Theorem: also with the pool and its deadlines, a stream is open only while
\* LISTEN is active, and the pool is never overdrawn (max of the pool).
THEOREM OpenStreamsListen == ProbeSpec => [](OpenMeansListening /\ checkedOut <= PoolSize)
<1>1. ProbeInit => ProbeInv
  BY ProbeStarts
<1>2. ProbeInv /\ [ProbeNext]_allVars => ProbeInv'
  BY ProbeStep
<1>3. ProbeInv => OpenMeansListening /\ checkedOut <= PoolSize
  BY ProbeAssumption DEF ProbeInv, ListenerInv, PingTypeOK
<1> QED BY <1>1, <1>2, <1>3, PTL DEF ProbeSpec
=============================================================================
