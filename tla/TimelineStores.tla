---------------------------- MODULE TimelineStores ----------------------------
(***************************************************************************)
(* The two implementations of TimelineStore in packages/db, one call at a    *)
(* time: MemoryObservationStore, which the tests run against, and the rows   *)
(* PostgresObservationStore reads and writes, which production runs on.      *)
(* What happens when calls interleave is the subject of Correlation,         *)
(* Attention and IngestionLedger.                                           *)
(*                                                                         *)
(* One Workspace and one stream.  An operation is a record; "at" is the time *)
(* it runs.  Identifiers are drawn from the sequence of the entries.  Reading *)
(* suggestions refreshes them, so the refresh after a write, which may fail  *)
(* in PostgreSQL, is left to the reader.                                    *)
(***************************************************************************)
EXTENDS TimelineQuery, TLC

CONSTANTS
    DefaultDays, \* DEFAULT_RETENTION_DAYS
    Window,      \* CORRELATION_TIME_WINDOW_MS, in units of the clock
    Approved,    \* the approved namespaces of the configured Cluster
    Configured,  \* the subjects (workloads) of the configured Cluster
    Secret       \* the cursor secret

\* An observed version of a resource is a record of its identity, namespace,
\* version, whether it needs attention, and the subject the correlation signals
\* compare.
\* markRecovery: the state that needed attention and is over.
MarkRecovery(source, previous) ==
    IF previous = Absent \/ source.attention THEN Absent
    ELSE IF previous.attention THEN previous ELSE Absent

\* What became of one observation of a batch.
Result(outcome, recovery) == [outcome |-> outcome, recovery |-> recovery]

\* correlationSignalsBetween.
Signals(d, e) ==
    d.subject = e.subject \/ (d.time <= e.time + Window /\ e.time <= d.time + Window)

\* suggestCorrelationCandidates, as pairs of ids in their order.
Candidates(entries) ==
    {p \in {e.id : e \in entries} \X {e.id : e \in entries} :
        /\ p[1] < p[2]
        /\ \E d, e \in entries : d.id = p[1] /\ e.id = p[2] /\ Signals(d, e)}

\* An entry as the Timeline lists it.
Entry(id, source, subject, at) ==
    [ id |-> id, sequence |-> id, time |-> at, subject |-> subject, source |-> source,
      kind |-> IF source = Absent THEN Absent ELSE "Pod",
      namespace |-> IF source = Absent THEN Absent ELSE source.namespace,
      name |-> IF source = Absent THEN Absent ELSE source.identity,
      phase |-> Absent,
      item |-> source # Absent /\ Or(source, [attention |-> FALSE]).attention,
      unread |-> FALSE ]

-----------------------------------------------------------------------------
(* In memory: maps.                                                         *)

EmptyMemory ==
    [ observations |-> <<>>, orders |-> <<>>, entries |-> <<>>, next |-> 0, order |-> 0,
      checkpoint |-> Absent, reviews |-> {}, suggestions |-> <<>>, links |-> {},
      days |-> DefaultDays, answer |-> Absent ]

ValuesOf(map) == {map[k] : k \in DOMAIN map}
Without(map, keys) == [k \in DOMAIN map \ keys |-> map[k]]

\* checkpointVersionShouldReplace: opaque versions have no order.
ShouldReplace(candidate, previous) ==
    candidate # previous /\ (candidate \in Nat /\ previous \in Nat => candidate > previous)

MemoryCheckpoint(m, version) ==
    IF m.checkpoint = Absent \/ ShouldReplace(version, m.checkpoint)
    THEN [m EXCEPT !.checkpoint = version] ELSE m

\* The observation of an identity that was recorded last.
MemoryPrevious(m, identity) ==
    LET same == {s \in DOMAIN m.observations : s.identity = identity} IN
    IF same = {} THEN Absent ELSE CHOOSE s \in same : \A t \in same : m.orders[t] <= m.orders[s]

\* One round of the loop of recordObservationsInternal.
MemoryObservation(m, source, at) ==
    IF source \in DOMAIN m.observations THEN [m EXCEPT !.answer = Append(@, Result("duplicate", Absent))]
    ELSE LET recovery == MarkRecovery(source, MemoryPrevious(m, source.identity)) IN
         [m EXCEPT !.observations = (source :> recovery) @@ @,
                   !.entries = (m.next + 1 :> Entry(m.next + 1, source, source.subject, at)) @@ @,
                   !.orders = (source :> m.order + 1) @@ @,
                   !.next = @ + 1, !.order = @ + 1,
                   !.answer = Append(@, Result("stored", recovery))]

\* validateObservationOwnership looks at every observation first.
MemoryRecord(m, op) ==
    LET refused == \E i \in DOMAIN op.sources : op.sources[i].namespace \notin Approved
        all == FoldLeft(LAMBDA acc, s : MemoryObservation(acc, s, op.at),
                        [m EXCEPT !.answer = <<>>], op.sources)
    IN IF refused THEN [m EXCEPT !.answer = "refused"]
       ELSE IF op.checkpoint = Absent THEN all ELSE MemoryCheckpoint(all, op.checkpoint)

MemoryCreate(m, op) ==
    IF op.subject \notin Configured THEN [m EXCEPT !.answer = "refused"]
    ELSE [m EXCEPT !.entries = (m.next + 1 :> Entry(m.next + 1, Absent, op.subject, op.at)) @@ @,
                   !.next = @ + 1, !.answer = m.next + 1]

MemoryUpdate(m, op) ==
    IF op.entry \notin DOMAIN m.entries \/ m.entries[op.entry].source # Absent
    THEN [m EXCEPT !.answer = Absent]
    ELSE IF op.subject \notin Configured THEN [m EXCEPT !.answer = "refused"]
    ELSE [m EXCEPT !.entries[op.entry].subject = op.subject, !.answer = op.entry]

\* refreshCorrelationSuggestions: a map from pairs to their status.
MemoryRefresh(m) ==
    LET candidates == Candidates(ValuesOf(m.entries))
        stale == {p \in DOMAIN m.suggestions : m.suggestions[p] = "pending" /\ p \notin candidates}
    IN [m EXCEPT !.suggestions = Without(m.suggestions, stale) @@ [p \in candidates |-> "pending"]]

\* Memory and database answer the same decision again and refuse the other.
Repeated(status, decision) == IF status = decision THEN "idempotent" ELSE "conflict"

MemoryDecide(m, op) ==
    LET r == MemoryRefresh(m) IN
    IF op.pair \notin DOMAIN r.suggestions THEN [r EXCEPT !.answer = Absent]
    ELSE IF r.suggestions[op.pair] # "pending"
    THEN [r EXCEPT !.answer = Repeated(r.suggestions[op.pair], op.decision)]
    ELSE [r EXCEPT !.links = IF op.decision = "confirmed" THEN @ \cup {op.pair} ELSE @,
                   !.suggestions[op.pair] = op.decision, !.answer = op.decision]

MemoryUnread(m, member) ==
    {e \in ValuesOf(m.entries) : e.item /\ <<e.id, member>> \notin m.reviews}

MemoryReview(m, op) ==
    IF op.entry \notin DOMAIN m.entries THEN [m EXCEPT !.answer = Absent]
    ELSE IF ~m.entries[op.entry].item THEN [m EXCEPT !.answer = Absent]
    ELSE LET done == [m EXCEPT !.reviews = @ \cup {<<op.entry, op.member>>}] IN
         [done EXCEPT !.answer = << <<op.entry, op.member>> \notin m.reviews,
                                    Cardinality(MemoryUnread(done, op.member)) >>]

\* cleanupRetention: entries, observations, reviews and suggestions, each map
\* by its own loop.
MemoryClean(m, op) ==
    LET old == {e \in ValuesOf(m.entries) : e.source # Absent /\ e.time < op.at - m.days}
        linked == UNION {{p[1], p[2]} : p \in m.links}
        gone == {e \in old : e.id \notin linked}
        ids == {e.id : e \in gone}
    IN [m EXCEPT !.entries = Without(@, ids),
                 !.observations = Without(@, {e.source : e \in gone}),
                 !.orders = Without(@, {e.source : e \in gone}),
                 !.reviews = {r \in @ : r[1] \notin ids},
                 !.suggestions = Without(@, {p \in DOMAIN @ : p[1] \in ids \/ p[2] \in ids}),
                 !.answer = <<Cardinality(gone), Cardinality(old) - Cardinality(gone)>>]

MemoryStep(m, op) ==
    CASE op.do = "record" -> MemoryRecord(m, op)
      [] op.do = "advance" -> MemoryCheckpoint([m EXCEPT !.answer = Absent], op.checkpoint)
      [] op.do = "clear" -> [m EXCEPT !.checkpoint = Absent, !.answer = Absent]
      [] op.do = "create" -> MemoryCreate(m, op)
      [] op.do = "update" -> MemoryUpdate(m, op)
      [] op.do = "decide" -> MemoryDecide(m, op)
      [] op.do = "review" -> MemoryReview(m, op)
      [] op.do = "policy" -> [m EXCEPT !.days = op.days, !.answer = op.days]
      [] op.do = "clean" -> MemoryClean(m, op)

\* What the readers of the store see.
MemoryView(m, queries, members) ==
    LET r == MemoryRefresh(m)
        listed(member) == {[e EXCEPT !.unread = member # Absent /\ e \in MemoryUnread(m, member)] :
                               e \in ValuesOf(m.entries)}
    IN [ answer |-> m.answer, checkpoint |-> m.checkpoint,
         observations |-> Cardinality(DOMAIN m.observations),
         pages |-> [q \in queries, n \in members |-> PageFromEntries(listed(n), q, Secret, n, m.next)],
         unread |-> [n \in members |-> Cardinality(MemoryUnread(m, n))],
         pending |-> {p \in DOMAIN r.suggestions : r.suggestions[p] = "pending"},
         links |-> m.links ]

-----------------------------------------------------------------------------
(* In PostgreSQL: rows, and what their foreign keys cascade to.              *)

EmptyDatabase ==
    [ observations |-> {}, entries |-> {}, items |-> {}, reviews |-> {}, suggestions |-> {},
      links |-> {}, checkpoint |-> Absent, next |-> 0, order |-> 0, days |-> DefaultDays,
      answer |-> Absent ]

\* ON CONFLICT ... DO UPDATE: the greater of two decimal versions.
DatabaseCheckpoint(d, version) ==
    [d EXCEPT !.checkpoint =
        IF @ = Absent THEN version
        ELSE IF @ \in Nat /\ version \in Nat THEN (IF @ > version THEN @ ELSE version)
        ELSE version]

\* recordObservationInTransaction.
DatabaseObservation(d, source, at) ==
    LET same == {o \in d.observations : o.source.identity = source.identity}
        latest == IF same = {} THEN Absent
                  ELSE (CHOOSE o \in same : \A p \in same : p.order <= o.order).source
        recovery == MarkRecovery(source, latest)
        id == d.next + 1
    IN IF source.namespace \notin Approved THEN [d EXCEPT !.answer = Append(@, Result("refused", Absent))]
       ELSE IF \E o \in d.observations : o.source = source THEN [d EXCEPT !.answer = Append(@, Result("duplicate", Absent))]
       ELSE [d EXCEPT !.observations = @ \cup {[source |-> source, recovery |-> recovery, order |-> d.order + 1]},
                      !.entries = @ \cup {[id |-> id, source |-> source, subject |-> source.subject, at |-> at]},
                      !.items = IF source.attention THEN @ \cup {id} ELSE @,
                      !.next = id, !.order = @ + 1, !.answer = Append(@, Result("stored", recovery))]

\* One transaction: an observation that is refused undoes the others.
DatabaseRecord(d, op) ==
    LET all == FoldLeft(LAMBDA acc, s : DatabaseObservation(acc, s, op.at),
                        [d EXCEPT !.answer = <<>>], op.sources)
    IN IF Contains(all.answer, Result("refused", Absent)) THEN [d EXCEPT !.answer = "refused"]
       ELSE IF op.checkpoint = Absent THEN all ELSE DatabaseCheckpoint(all, op.checkpoint)

DatabaseCreate(d, op) ==
    IF op.subject \notin Configured THEN [d EXCEPT !.answer = "refused"]
    ELSE [d EXCEPT !.entries = @ \cup {[id |-> d.next + 1, source |-> Absent, subject |-> op.subject, at |-> op.at]},
                   !.next = @ + 1, !.answer = d.next + 1]

DatabaseUpdate(d, op) ==
    LET row == {e \in d.entries : e.id = op.entry /\ e.source = Absent} IN
    IF row = {} THEN [d EXCEPT !.answer = Absent]
    ELSE IF op.subject \notin Configured THEN [d EXCEPT !.answer = "refused"]
    ELSE [d EXCEPT !.entries = (@ \ row) \cup {[e EXCEPT !.subject = op.subject] : e \in row},
                   !.answer = op.entry]

\* The entries with the columns that are joined to them.
Joined(d, member) ==
    {[Entry(e.id, e.source, e.subject, e.at) EXCEPT
        !.item = e.id \in d.items,
        !.unread = member # Absent /\ e.id \in d.items /\ <<e.id, member>> \notin d.reviews] : e \in d.entries}

\* Pending rows that are no candidates are deleted; new candidates inserted.
DatabaseRefresh(d) ==
    LET candidates == Candidates(Joined(d, Absent))
        kept == {s \in d.suggestions : s.status # "pending" \/ s.pair \in candidates}
    IN [d EXCEPT !.suggestions =
            kept \cup {[pair |-> p, status |-> "pending"] : p \in candidates \ {s.pair : s \in kept}}]

DatabaseDecide(d, op) ==
    LET r == DatabaseRefresh(d)
        row == {s \in r.suggestions : s.pair = op.pair}
        status == (CHOOSE s \in row : TRUE).status
    IN IF row = {} THEN [r EXCEPT !.answer = Absent]
       ELSE IF status # "pending" THEN [r EXCEPT !.answer = Repeated(status, op.decision)]
       ELSE [r EXCEPT !.links = IF op.decision = "confirmed" THEN @ \cup {op.pair} ELSE @,
                      !.suggestions = (@ \ row) \cup {[pair |-> op.pair, status |-> op.decision]},
                      !.answer = op.decision]

DatabaseUnread(d, member) == {i \in d.items : <<i, member>> \notin d.reviews}

DatabaseReview(d, op) ==
    IF op.entry \notin d.items THEN [d EXCEPT !.answer = Absent]
    ELSE LET done == [d EXCEPT !.reviews = @ \cup {<<op.entry, op.member>>}] IN
         [done EXCEPT !.answer = << <<op.entry, op.member>> \notin d.reviews,
                                    Cardinality(DatabaseUnread(done, op.member)) >>]

\* The observations that are deleted, and the rows that reference them.
DatabaseClean(d, op) ==
    LET old == {e \in d.entries : e.source # Absent /\ e.at < op.at - d.days}
        gone == {e \in old : \A p \in d.links : e.id \notin {p[1], p[2]}}
        ids == {e.id : e \in gone}
        cascades(pair) == pair[1] \in ids \/ pair[2] \in ids
    IN [d EXCEPT !.observations = {o \in @ : \A e \in gone : e.source # o.source},
                 !.entries = @ \ gone,
                 !.items = @ \ ids,
                 !.reviews = {r \in @ : r[1] \notin ids},
                 !.suggestions = {s \in @ : ~cascades(s.pair)},
                 !.links = {p \in @ : ~cascades(p)},
                 !.answer = <<Cardinality(gone), Cardinality(old) - Cardinality(gone)>>]

DatabaseStep(d, op) ==
    CASE op.do = "record" -> DatabaseRecord(d, op)
      [] op.do = "advance" -> DatabaseCheckpoint([d EXCEPT !.answer = Absent], op.checkpoint)
      [] op.do = "clear" -> [d EXCEPT !.checkpoint = Absent, !.answer = Absent]
      [] op.do = "create" -> DatabaseCreate(d, op)
      [] op.do = "update" -> DatabaseUpdate(d, op)
      [] op.do = "decide" -> DatabaseDecide(d, op)
      [] op.do = "review" -> DatabaseReview(d, op)
      [] op.do = "policy" -> [d EXCEPT !.days = op.days, !.answer = op.days]
      [] op.do = "clean" -> DatabaseClean(d, op)

\* The greatest sequence number of an entry that is there.
DatabaseSequence(d) == CHOOSE n \in {0} \cup {e.id : e \in d.entries} : \A e \in d.entries : e.id <= n

DatabaseView(d, queries, members) ==
    LET r == DatabaseRefresh(d) IN
    [ answer |-> d.answer, checkpoint |-> d.checkpoint,
      observations |-> Cardinality(d.observations),
      pages |-> [q \in queries, n \in members |-> SelectPage(Joined(d, n), q, Secret, n, DatabaseSequence(d))],
      unread |-> [n \in members |-> Cardinality(DatabaseUnread(d, n))],
      pending |-> {s.pair : s \in {t \in r.suggestions : t.status = "pending"}},
      links |-> d.links ]

-----------------------------------------------------------------------------
\* After the same calls the two stores answer alike and show the same, but for
\* the place where live updates start: in memory it is past deleted entries.
StoresAgree(ops, queries, members) ==
    LET m == MemoryView(FoldLeft(MemoryStep, EmptyMemory, ops), queries, members)
        d == DatabaseView(FoldLeft(DatabaseStep, EmptyDatabase, ops), queries, members)
    IN /\ [m EXCEPT !.pages = <<>>] = [d EXCEPT !.pages = <<>>]
       /\ \A q \in queries, n \in members :
              [m.pages[q, n] EXCEPT !.resume = Absent] = [d.pages[q, n] EXCEPT !.resume = Absent]
=============================================================================
