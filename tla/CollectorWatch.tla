---------------------------- MODULE CollectorWatch ----------------------------
(***************************************************************************)
(* The collector process: one asynchronous loop per (namespace, resource    *)
(* kind) stream, a scope monitor, and the runWatch function that owns them  *)
(* (apps/collector/src/main.ts), together with the transactions they run    *)
(* against PostgreSQL and the Kubernetes API they read.                     *)
(*                                                                         *)
(* One action is the code between two awaits.  pc names the await a stream  *)
(* is suspended at, runner the await of runWatch.  Whatever another actor   *)
(* does while a stream is suspended -- the owner edits the scope, another   *)
(* stream fails, the process is stopped or dies -- interleaves there.       *)
(***************************************************************************)
EXTENDS Naturals, Sequences, FiniteSets

CONSTANTS
    Streams,              \* the (namespace, resource kind) pairs of the Cluster
    Objects,              \* object UIDs of a stream
    Scopes,               \* the scopes an owner may approve, as sets of streams
    InitialScopes,        \* the scopes approved when the behaviour starts
    MaxRevision,          \* bound: changes Kubernetes makes
    MaxReconnectAttempts, \* CollectorBackoffPolicy.maxReconnectAttempts
    Faults                \* environment faults this instance lets happen

AllFaults ==
    {"crash", "stop", "scope", "database", "kubernetes", "expiry", "malformed", "redelivery"}

ASSUME CollectorAssumption ==
    /\ Scopes \subseteq SUBSET Streams
    /\ InitialScopes \subseteq SUBSET Streams
    /\ MaxRevision \in Nat
    /\ MaxReconnectAttempts \in Nat
    /\ Faults \subseteq AllFaults

VARIABLES
    history,    \* Kubernetes: the changes so far; the i-th has resourceVersion i
    compacted,  \* Kubernetes: a watch from a smaller resourceVersion is Gone
    approved,   \* database: the persisted Cluster scope, {} when unconfigured
    checkpoint, \* database: ingestion checkpoint of a stream, 0 when absent
    observed,   \* database: resourceVersions of the stored Observations
    runner,     \* where runWatch (or process startup) is
    scope,      \* the scope runWatch captured for its current iteration
    aborted,    \* the abort signal of the current iteration
    verdict,    \* the first rejection of Promise.all: "none" until there is one
    ready,      \* collectionReady
    failed,     \* signalState.failedNamespaces
    pc,         \* the await a stream is suspended at
    version,    \* currentVersion of a stream, 0 for null
    relist,     \* needsRelist
    attempts,   \* recoveryAttempts
    cursor,     \* the last revision the open watch of a stream has delivered
    held        \* the revision of the list or event a stream is processing

cluster  == <<history, compacted>>
database == <<approved, checkpoint, observed>>
process  == <<runner, scope, aborted, verdict, ready, failed>>
streams  == <<pc, version, relist, attempts, cursor, held>>
vars     == <<cluster, database, process, streams>>

Ledger == INSTANCE IngestionLedger

Revisions == Ledger!Revisions

\* Stream promises that have settled (or were never created).
Settled == {"idle", "returned", "exhausted", "rejected"}

\* Awaits that hold a database transaction, which no abort signal interrupts.
Writing == {"commitList", "commitChange", "commitBookmark", "clear"}

\* Awaits after which an abort makes the stream return.
Abortable ==
    {"load", "loop", "list", "open", "next", "gotChange", "gotBookmark",
     "gone", "broken", "timedOut", "backoff"}

\* Awaits of runWatch and of startup.
RunnerStates ==
    {"down", "collect", "collectCommit", "start", "racing", "settling",
     "failed", "done", "stopping", "draining"}

AllSettled == \A s \in Streams : pc[s] \in Settled

TypeOK ==
    /\ history \in Seq(Ledger!Change)
    /\ compacted \in Nat
    /\ approved \in SUBSET Streams
    /\ checkpoint \in [Streams -> Nat]
    /\ observed \in SUBSET Nat
    /\ runner \in RunnerStates
    /\ scope \in SUBSET Streams
    /\ aborted \in BOOLEAN
    /\ verdict \in {"none", "scopeChanged", "fatal"}
    /\ ready \in BOOLEAN
    /\ failed \in SUBSET Streams
    /\ pc \in [Streams -> Settled \cup Writing \cup Abortable]
    /\ version \in [Streams -> Nat]
    /\ relist \in [Streams -> BOOLEAN]
    /\ attempts \in [Streams -> 0..MaxReconnectAttempts]
    /\ cursor \in [Streams -> Nat]
    /\ held \in [Streams -> Nat]

-----------------------------------------------------------------------------
\* The process has just been created, or is gone: nothing in memory survives.
Blank ==
    /\ scope' = {}
    /\ aborted' = FALSE
    /\ verdict' = "none"
    /\ ready' = FALSE
    /\ failed' = {}
    /\ pc' = [s \in Streams |-> "idle"]
    /\ version' = [s \in Streams |-> 0]
    /\ relist' = [s \in Streams |-> FALSE]
    /\ attempts' = [s \in Streams |-> 0]
    /\ cursor' = [s \in Streams |-> 0]
    /\ held' = [s \in Streams |-> 0]

Init ==
    /\ history \in {<<c>> : c \in Ledger!Change}
    /\ compacted = 0
    /\ approved \in InitialScopes
    /\ checkpoint = [s \in Streams |-> 0]
    /\ observed = {}
    /\ runner = "down"
    /\ scope = {}
    /\ aborted = FALSE
    /\ verdict = "none"
    /\ ready = FALSE
    /\ failed = {}
    /\ pc = [s \in Streams |-> "idle"]
    /\ version = [s \in Streams |-> 0]
    /\ relist = [s \in Streams |-> FALSE]
    /\ attempts = [s \in Streams |-> 0]
    /\ cursor = [s \in Streams |-> 0]
    /\ held = [s \in Streams |-> 0]

-----------------------------------------------------------------------------
(* The environment: the Kubernetes API and the owner's web request.         *)

Exists(s, o) ==
    \E i \in Ledger!ChangesOf(s, Revisions) :
        history[i].object = o /\ Ledger!Newest(i, Len(history)) /\ history[i].live

\* An object of the Cluster is created, modified or deleted.
ClusterChange ==
    /\ Len(history) < MaxRevision
    /\ \E c \in Ledger!Change :
        /\ ~c.live => Exists(c.stream, c.object)
        /\ history' = Append(history, c)
    /\ UNCHANGED <<compacted, database, process, streams>>

\* Old revisions expire: watches opened below the new floor are Gone.
Compact ==
    /\ "expiry" \in Faults
    /\ compacted' \in (compacted + 1)..Len(history)
    /\ UNCHANGED <<history, database, process, streams>>

\* An owner saves another scope (the web process, one transaction).
SaveScope ==
    /\ "scope" \in Faults
    /\ \E sc \in Scopes \ {approved} : approved' = sc
    /\ UNCHANGED <<cluster, checkpoint, observed, process, streams>>

-----------------------------------------------------------------------------
(* How a stream's promise moves and settles.                                *)

Goto(s, place) == pc' = [pc EXCEPT ![s] = place]

\* The stream's promise rejects; Promise.all keeps the first rejection only.
Reject(s, kind) ==
    /\ Goto(s, "rejected")
    /\ verdict' = IF verdict = "none" THEN kind ELSE verdict

KeepStream   == UNCHANGED <<version, relist, attempts, cursor, held>>
KeepRunner   == UNCHANGED <<runner, scope, aborted>>
KeepSignals  == UNCHANGED <<ready, failed>>

\* The abort signal (or stopping) is seen after an await: the stream returns.
\* Seen by the scope read of the catch block, it is an error of its own.
Abandon(s) ==
    /\ aborted
    /\ pc[s] \in Abortable
    /\ IF pc[s] \in {"gone", "broken"}
       THEN Reject(s, "fatal")
       ELSE Goto(s, "returned") /\ UNCHANGED verdict
    /\ KeepStream /\ KeepRunner /\ KeepSignals
    /\ UNCHANGED <<cluster, database>>

\* Mutant: a stream without a checkpoint does not ask for a relist.
LoadCheckpointNoRelist(s) ==
    /\ pc[s] = "load" /\ ~aborted
    /\ version' = [version EXCEPT ![s] = checkpoint[s]]
    /\ Goto(s, "loop")
    /\ UNCHANGED <<relist, attempts, cursor, held, verdict, cluster, database>>
    /\ KeepRunner /\ KeepSignals

\* Mutant: every start of a stream begins with a list.
LoadCheckpointRelists(s) ==
    /\ pc[s] = "load" /\ ~aborted
    /\ version' = [version EXCEPT ![s] = 0]
    /\ relist' = [relist EXCEPT ![s] = TRUE]
    /\ Goto(s, "loop")
    /\ UNCHANGED <<attempts, cursor, held, verdict, cluster, database>>
    /\ KeepRunner /\ KeepSignals

\* The first await of runCollection: the durable checkpoint decides the start.
LoadCheckpoint(s) ==
    /\ pc[s] = "load" /\ ~aborted
    /\ version' = [version EXCEPT ![s] = checkpoint[s]]
    /\ relist' = [relist EXCEPT ![s] = checkpoint[s] = 0]
    /\ Goto(s, "loop")
    /\ UNCHANGED <<attempts, cursor, held, verdict, cluster, database>>
    /\ KeepRunner /\ KeepSignals

\* The loop re-reads the persisted scope before it lists or watches.
CheckScope(s) ==
    /\ pc[s] = "loop" /\ ~aborted
    /\ IF approved # scope
       THEN Reject(s, "scopeChanged")
       ELSE Goto(s, IF relist[s] THEN "list" ELSE "open") /\ UNCHANGED verdict
    /\ KeepStream /\ KeepRunner /\ KeepSignals
    /\ UNCHANGED <<cluster, database>>

\* synchronizeList: a list of the stream, taken at the newest revision.
List(s) ==
    /\ pc[s] = "list" /\ ~aborted
    /\ held' = [held EXCEPT ![s] = Len(history)]
    /\ Goto(s, "commitList")
    /\ UNCHANGED <<version, relist, attempts, cursor, verdict, cluster, database>>
    /\ KeepRunner /\ KeepSignals

\* Mutant: the watch is opened without a resourceVersion, "from now on".
OpenWatchFromNow(s) ==
    /\ pc[s] = "open" /\ ~aborted
    /\ Goto(s, "next")
    /\ cursor' = [cursor EXCEPT ![s] = Len(history)]
    /\ UNCHANGED <<version, relist, attempts, held, verdict, cluster, database>>
    /\ KeepRunner /\ KeepSignals

\* watch.call: refused with 410 when the position has expired.
OpenWatch(s) ==
    /\ pc[s] = "open" /\ ~aborted
    /\ IF version[s] < compacted
       THEN Goto(s, "gone") /\ UNCHANGED cursor
       ELSE Goto(s, "next") /\ cursor' = [cursor EXCEPT ![s] = version[s]]
    /\ UNCHANGED <<version, relist, attempts, held, verdict, cluster, database>>
    /\ KeepRunner /\ KeepSignals

Receive(s, place, i) ==
    /\ pc[s] = "next" /\ ~aborted
    /\ held' = [held EXCEPT ![s] = i]
    /\ Goto(s, place)
    /\ UNCHANGED <<version, relist, attempts, verdict, cluster, database>>
    /\ KeepRunner /\ KeepSignals

\* The open watch yields the next change of the stream.
DeliverChange(s) ==
    \E i \in Revisions :
        /\ Ledger!NextChange(s, cursor[s], i)
        /\ Receive(s, "gotChange", i)
        /\ cursor' = [cursor EXCEPT ![s] = i]

\* The open watch yields a bookmark beyond every change it has delivered.
DeliverBookmark(s) ==
    \E i \in (cursor[s] + 1)..Len(history) :
        /\ Ledger!ChangesOf(s, (cursor[s] + 1)..i) = {}
        /\ Receive(s, "gotBookmark", i)
        /\ cursor' = [cursor EXCEPT ![s] = i]

\* A change or a bookmark that was delivered before is delivered again.
Redeliver(s) ==
    /\ "redelivery" \in Faults
    /\ \/ \E i \in Ledger!ChangesOf(s, 1..cursor[s]) : Receive(s, "gotChange", i)
       \/ \E i \in 1..cursor[s] : Receive(s, "gotBookmark", i)
    /\ UNCHANGED cursor

\* Each event is checked against the persisted scope before it is stored; a
\* bookmark that does not advance the position is dropped.
CheckEventScope(s) ==
    /\ pc[s] \in {"gotChange", "gotBookmark"} /\ ~aborted
    /\ \/ approved # scope /\ Reject(s, "scopeChanged")
       \/ /\ approved = scope /\ UNCHANGED verdict
          /\ \/ pc[s] = "gotChange" /\ Goto(s, "commitChange")
             \/ pc[s] = "gotBookmark" /\ held[s] > version[s] /\ Goto(s, "commitBookmark")
             \/ pc[s] = "gotBookmark" /\ held[s] <= version[s] /\ Goto(s, "next")
    /\ KeepStream /\ KeepRunner /\ KeepSignals
    /\ UNCHANGED <<cluster, database>>

-----------------------------------------------------------------------------
(* The transactions.  Each validates the approved scope in PostgreSQL and   *)
(* saves Observations and checkpoint together, or neither.                  *)

Larger(a, b) == IF a > b THEN a ELSE b

\* Mutant: the checkpoint of a list is saved without its Observations.
RecordEmptyList(s, revisions, v) ==
    /\ observed' = IF pc[s] = "commitList" THEN observed ELSE observed \cup revisions
    /\ checkpoint' = [checkpoint EXCEPT ![s] = Larger(checkpoint[s], v)]

\* Observations are stored and the checkpoint moves to v, never backwards.
Record(s, revisions, v) ==
    /\ observed' = observed \cup revisions
    /\ checkpoint' = [checkpoint EXCEPT ![s] = Larger(checkpoint[s], v)]

\* recordObservationsAndCheckpoint, recordObservations (an event that does not
\* advance the position moves no checkpoint) and clearIngestionCheckpoint.
Persist(s) ==
    /\ \/ pc[s] = "commitList" /\ Record(s, Ledger!Listing(s, held[s]), held[s])
       \/ pc[s] = "commitChange" /\ held[s] > version[s] /\ Record(s, {held[s]}, held[s])
       \/ pc[s] = "commitChange" /\ held[s] <= version[s] /\ Record(s, {held[s]}, 0)
       \/ pc[s] = "commitBookmark" /\ Record(s, {}, held[s])
       \/ /\ pc[s] = "clear"
          /\ checkpoint' = [checkpoint EXCEPT ![s] = 0]
          /\ UNCHANGED observed
    /\ UNCHANGED <<approved, cluster>>

\* Mutant: the transaction trusts the scope the stream has checked before.
TransactUnvalidated(s) == Persist(s)

\* The transaction locks the Cluster row and validates the stream against it.
Transact(s) == s \in approved /\ Persist(s)

\* The position of the stream follows a list or an event that advances it.
Advances(s) == pc[s] \in {"commitList", "commitChange", "commitBookmark"} /\ held[s] > version[s]

\* The transaction commits and the stream goes on: events reset the budget and
\* make the collector ready, a list only ends the relist.
Commit(s) ==
    /\ Transact(s)
    /\ version' = [version EXCEPT ![s] = IF Advances(s) THEN held[s] ELSE version[s]]
    /\ relist' = [relist EXCEPT ![s] = pc[s] = "clear"]
    /\ attempts' = [attempts EXCEPT ![s] =
           IF Advances(s) /\ pc[s] # "commitList" THEN 0 ELSE attempts[s]]
    /\ ready' = (ready \/ pc[s] \in {"commitChange", "commitBookmark"})
    /\ \/ pc[s] = "commitList" /\ Goto(s, "open")
       \/ pc[s] \in {"commitChange", "commitBookmark"} /\ Goto(s, "next")
       \/ pc[s] = "clear" /\ Goto(s, "loop")
    /\ KeepRunner
    /\ UNCHANGED <<cursor, held, verdict, failed>>

\* A failed transaction becomes a CollectorRecoveryError, which no retry
\* handles; an aborted stream returns instead, except from inside the catch
\* block, where the checkpoint is cleared.
PersistenceError(s) ==
    IF aborted /\ pc[s] # "clear"
    THEN Goto(s, "returned") /\ UNCHANGED verdict
    ELSE Reject(s, "fatal")

\* The stream is no longer approved: the transaction rolls back.
CommitRefused(s) ==
    /\ pc[s] \in Writing
    /\ s \notin approved
    /\ PersistenceError(s)
    /\ KeepStream /\ KeepRunner /\ KeepSignals
    /\ UNCHANGED <<cluster, database>>

\* The database fails: nothing is stored, or everything is and the
\* acknowledgement of COMMIT is lost.
CommitFails(s) ==
    /\ "database" \in Faults
    /\ pc[s] \in Writing
    /\ Transact(s) \/ UNCHANGED <<cluster, database>>
    /\ PersistenceError(s)
    /\ KeepStream /\ KeepRunner /\ KeepSignals

-----------------------------------------------------------------------------
(* Errors and the recovery budget.                                          *)

\* The list, the watch request or the open stream ends: disconnect, ERROR
\* event, buffer overflow, normal end -- or 410, in a response or an event.
StreamBreaks(s) ==
    /\ "kubernetes" \in Faults
    /\ pc[s] \in {"list", "open", "next"} /\ ~aborted
    /\ Goto(s, "broken") \/ Goto(s, "gone")
    /\ KeepStream /\ KeepRunner /\ KeepSignals
    /\ UNCHANGED <<cluster, database, verdict>>

\* A scope read inside the loop fails, by its deadline or otherwise; the
\* checkpoint read of a new stream fails for good.
ReadFails(s) ==
    /\ "database" \in Faults /\ ~aborted
    /\ \/ pc[s] \in {"loop", "gotChange", "gotBookmark"}
          /\ (Goto(s, "timedOut") \/ Goto(s, "broken")) /\ UNCHANGED verdict
       \/ pc[s] \in {"load", "gone", "broken"} /\ Reject(s, "fatal")
    /\ KeepStream /\ KeepRunner /\ KeepSignals
    /\ UNCHANGED <<cluster, database>>

\* A list without a resourceVersion, or an object that cannot be normalised.
Malformed(s) ==
    /\ "malformed" \in Faults /\ ~aborted
    /\ pc[s] \in {"list", "gotChange"}
    /\ Reject(s, "fatal")
    /\ KeepStream /\ KeepRunner /\ KeepSignals
    /\ UNCHANGED <<cluster, database>>

\* The catch block: re-read the scope unless reading it is what timed out,
\* then spend one recovery attempt on a relist or on a delayed reconnect.
Recover(s) ==
    /\ pc[s] \in {"gone", "broken", "timedOut"} /\ ~aborted
    /\ pc[s] = "timedOut" \/ approved = scope
    /\ attempts[s] < MaxReconnectAttempts
    /\ attempts' = [attempts EXCEPT ![s] = @ + 1]
    /\ version' = [version EXCEPT ![s] = IF pc[s] = "gone" THEN 0 ELSE @]
    /\ relist' = [relist EXCEPT ![s] = IF pc[s] = "gone" THEN TRUE ELSE @]
    /\ Goto(s, IF pc[s] = "gone" THEN "clear" ELSE "backoff")
    /\ KeepRunner /\ KeepSignals
    /\ UNCHANGED <<cursor, held, verdict, cluster, database>>

\* The catch block finds another scope.
RecoverScopeChanged(s) ==
    /\ pc[s] \in {"gone", "broken"} /\ ~aborted
    /\ approved # scope
    /\ Reject(s, "scopeChanged")
    /\ KeepStream /\ KeepRunner /\ KeepSignals
    /\ UNCHANGED <<cluster, database>>

\* The budget is spent: runCollectionWithIsolation marks the namespace failed
\* and the other streams go on.
Exhaust(s) ==
    /\ pc[s] \in {"gone", "broken", "timedOut"} /\ ~aborted
    /\ pc[s] = "timedOut" \/ approved = scope
    /\ attempts[s] >= MaxReconnectAttempts
    /\ Goto(s, "exhausted")
    /\ failed' = failed \cup {s}
    /\ KeepStream /\ KeepRunner
    /\ UNCHANGED <<ready, verdict, cluster, database>>

\* The backoff delay is over.
WakeUp(s) ==
    /\ pc[s] = "backoff" /\ ~aborted
    /\ Goto(s, "loop")
    /\ KeepStream /\ KeepRunner /\ KeepSignals
    /\ UNCHANGED <<cluster, database, verdict>>

-----------------------------------------------------------------------------
(* runWatch and the process around it.                                      *)

\* Process start: stores are verified and the persisted scope is read; the
\* initial collection is skipped when every stream has a checkpoint.
Boot ==
    /\ runner = "down"
    /\ runner' = IF approved = {} \/ \E s \in approved : checkpoint[s] = 0
                 THEN "collect" ELSE "start"
    /\ ready' = (approved # {})
    /\ UNCHANGED <<cluster, database, scope, aborted, verdict, failed, streams>>

\* collectObservations lists every stream of the scope it reads.
CollectList ==
    /\ runner = "collect"
    /\ scope' = approved
    /\ held' = [s \in Streams |-> IF s \in approved THEN Len(history) ELSE 0]
    /\ IF approved = {}
       THEN runner' = "start" /\ ready' = FALSE
       ELSE runner' = "collectCommit" /\ UNCHANGED ready
    /\ UNCHANGED <<cluster, database, aborted, verdict, failed,
                   pc, version, relist, attempts, cursor>>

Collected == UNION {Ledger!Listing(s, held[s]) : s \in scope}

\* ... and stores them without a checkpoint, if their streams are still approved.
CollectCommit ==
    /\ runner = "collectCommit"
    /\ \A i \in Collected : history[i].stream \in approved
    /\ observed' = observed \cup Collected
    /\ ready' = TRUE
    /\ runner' = "start"
    /\ UNCHANGED <<cluster, approved, checkpoint, scope, aborted, verdict, failed, streams>>

\* Startup fails and the process exits.
CollectFails ==
    /\ \/ runner \in {"collect", "collectCommit"} /\ "database" \in Faults
       \/ runner = "collect" /\ Faults \cap {"kubernetes", "malformed"} # {}
       \/ runner = "collectCommit" /\ \E i \in Collected : history[i].stream \notin approved
    /\ runner' = "down"
    /\ Blank
    /\ UNCHANGED <<cluster, database>>

\* The head of runWatch's loop: without preconditions it returns for good.
StartWithoutScope ==
    /\ runner = "start" /\ approved = {}
    /\ runner' = "done"
    /\ ready' = FALSE
    /\ UNCHANGED <<cluster, database, scope, aborted, verdict, failed, streams>>

\* The head of runWatch's loop: capture the scope and start its streams.
StartStreams ==
    /\ runner = "start" /\ approved # {}
    /\ runner' = "racing"
    /\ scope' = approved
    /\ aborted' = FALSE
    /\ verdict' = "none"
    /\ pc' = [s \in Streams |-> IF s \in approved THEN "load" ELSE "idle"]
    /\ version' = [s \in Streams |-> 0]
    /\ relist' = [s \in Streams |-> FALSE]
    /\ attempts' = [s \in Streams |-> 0]
    /\ cursor' = [s \in Streams |-> 0]
    /\ held' = [s \in Streams |-> 0]
    /\ UNCHANGED <<cluster, database, ready, failed>>

\* The scope read at the head of the loop fails: runWatch rejects.
StartFails ==
    /\ runner = "start" /\ "database" \in Faults
    /\ runner' = "failed"
    /\ UNCHANGED <<cluster, database, scope, aborted, verdict, ready, failed, streams>>

\* Mutant: only an active stream notices another scope, no monitor runs.
AbortIterationUnmonitored ==
    /\ runner = "racing"
    /\ verdict = "scopeChanged"
    /\ runner' = "settling"
    /\ aborted' = TRUE
    /\ ready' = FALSE
    /\ UNCHANGED <<cluster, database, scope, verdict, failed, streams>>

\* The scope monitor, or a stream, reports another scope: abort the iteration.
AbortIteration ==
    /\ runner = "racing"
    /\ \/ verdict = "none" /\ approved # scope /\ ~AllSettled
       \/ verdict = "scopeChanged"
    /\ runner' = "settling"
    /\ aborted' = TRUE
    /\ ready' = FALSE
    /\ UNCHANGED <<cluster, database, scope, verdict, failed, streams>>

\* Mutant: the next iteration does not wait for the streams of the last one.
NextIterationEarly ==
    /\ runner = "settling"
    /\ runner' = "start"
    /\ UNCHANGED <<cluster, database, scope, aborted, verdict, ready, failed, streams>>

\* Promise.allSettled: the next iteration starts once every stream settled.
NextIteration ==
    /\ runner = "settling" /\ AllSettled
    /\ runner' = "start"
    /\ UNCHANGED <<cluster, database, scope, aborted, verdict, ready, failed, streams>>

\* A stream failed for good: runWatch aborts the others and rejects, without
\* waiting for them.
FailWatch ==
    /\ runner = "racing" /\ verdict = "fatal"
    /\ runner' = "failed"
    /\ aborted' = TRUE
    /\ ready' = FALSE
    /\ UNCHANGED <<cluster, database, scope, verdict, failed, streams>>

\* Every stream spent its budget: runWatch rejects with the first of them.
FailExhausted ==
    /\ runner = "racing" /\ verdict = "none" /\ AllSettled
    /\ runner' = "failed"
    /\ aborted' = TRUE
    /\ ready' = FALSE
    /\ UNCHANGED <<cluster, database, scope, verdict, failed, streams>>

\* Mutant: a stop does not abort the streams, idle watches stay open.
StopWithoutAbort ==
    /\ "stop" \in Faults
    /\ runner \in {"start", "racing", "settling", "failed", "done"}
    /\ runner' = IF runner = "settling" THEN "draining" ELSE "stopping"
    /\ UNCHANGED <<aborted, cluster, database, scope, verdict, ready, failed, streams>>

\* SIGTERM: close() aborts the streams and waits for runWatch, which may be
\* waiting for a race (stopping) or for every stream to settle (draining).
Stop ==
    /\ "stop" \in Faults
    /\ runner \in {"start", "racing", "settling", "failed", "done"}
    /\ runner' = IF runner = "settling" THEN "draining" ELSE "stopping"
    /\ aborted' = TRUE
    /\ UNCHANGED <<cluster, database, scope, verdict, ready, failed, streams>>

\* runWatch has settled: the database is closed and the process exits.
Exit ==
    /\ runner \in {"stopping", "draining"}
    /\ AllSettled \/ (runner = "stopping" /\ verdict # "none")
    /\ runner' = "down"
    /\ Blank
    /\ UNCHANGED <<cluster, database>>

\* The process dies at any point.
Crash ==
    /\ "crash" \in Faults
    /\ runner # "down"
    /\ runner' = "down"
    /\ Blank
    /\ UNCHANGED <<cluster, database>>

-----------------------------------------------------------------------------
\* What a stream does on its own.
StreamStep(s) ==
    \/ Abandon(s) \/ LoadCheckpoint(s) \/ CheckScope(s) \/ List(s) \/ OpenWatch(s)
    \/ DeliverChange(s) \/ CheckEventScope(s) \/ Commit(s) \/ CommitRefused(s)
    \/ Recover(s) \/ RecoverScopeChanged(s) \/ Exhaust(s) \/ WakeUp(s)

\* What runWatch and the process do on their own.
RunnerStep ==
    \/ Boot \/ CollectList \/ CollectCommit \/ CollectFails
    \/ StartWithoutScope \/ StartStreams \/ AbortIteration \/ NextIteration
    \/ FailWatch \/ FailExhausted \/ Exit

\* What happens to them.
Environment ==
    \/ ClusterChange \/ Compact \/ SaveScope \/ StartFails \/ Stop \/ Crash
    \/ \E s \in Streams :
        \/ DeliverBookmark(s) \/ Redeliver(s) \/ StreamBreaks(s)
        \/ ReadFails(s) \/ Malformed(s) \/ CommitFails(s)

Next == RunnerStep \/ Environment \/ \E s \in Streams : StreamStep(s)

Spec == Init /\ [][Next]_vars

\* The event loop runs every continuation that is ready, kubelet restarts an
\* exited process, and the API server answers; it does not put a pending change
\* off for ever by delivering old events again.
Fairness ==
    /\ WF_vars(RunnerStep)
    /\ \A s \in Streams : WF_vars(StreamStep(s)) /\ SF_vars(DeliverChange(s))

FairSpec == Spec /\ Fairness

-----------------------------------------------------------------------------
(* Properties.                                                              *)

\* Every live object that existed at a stream's durable checkpoint has been
\* stored, whatever was interleaved: no crash, relist, scope edit or lost
\* acknowledgement leaves the checkpoint ahead of the Observations.
CheckpointCovered == Ledger!CheckpointCovered

\* A checkpoint moving forward from a position never skips a change of its
\* stream: only forgetting the position (410 Gone) lets a relist jump.
NothingSkipped == Ledger!NothingSkipped

\* An Observation is stored only while its stream is approved, even when the
\* owner narrows the scope between a stream's scope check and its transaction.
StoredWhenApproved ==
    [][\A i \in observed' \ observed : history[i].stream \in approved]_vars

\* While a stream works from a position, that position is the durable one: no
\* second writer (an older iteration, a process that is gone) moved it.
PositionIsDurable ==
    \A s \in Streams :
        pc[s] \in (Abortable \cup Writing) \ {"load", "clear"} => version[s] = checkpoint[s]

\* A stream lists exactly when it has no position, and watches only from one.
RelistHasNoPosition ==
    \A s \in Streams :
        /\ pc[s] \in {"list", "commitList", "clear"} => relist[s] /\ version[s] = 0
        /\ pc[s] \in {"open", "next", "gotChange", "gotBookmark", "commitChange", "commitBookmark"}
           => ~relist[s] /\ version[s] # 0
        /\ pc[s] \in {"loop", "backoff", "broken", "timedOut", "gone"}
           => (relist[s] <=> version[s] = 0)

\* The event a stream holds is one it has stored before, or the very next one
\* after its position: nothing lies between the position and the event.
EventIsNext ==
    \A s \in Streams :
        /\ pc[s] = "next" => cursor[s] = version[s]
        /\ pc[s] \in {"gotChange", "commitChange"}
           => /\ held[s] \in Ledger!ChangesOf(s, Revisions)
              /\ held[s] > version[s] => Ledger!ChangesOf(s, (version[s] + 1)..(held[s] - 1)) = {}
        /\ pc[s] \in {"gotBookmark", "commitBookmark"}
           => /\ held[s] \in Revisions
              /\ Ledger!ChangesOf(s, (version[s] + 1)..held[s]) = {}
        /\ pc[s] \in {"gotChange", "gotBookmark", "commitChange", "commitBookmark"}
           => cursor[s] = Larger(version[s], held[s])
        /\ pc[s] = "commitBookmark" => held[s] > version[s]

\* Positions are revisions of the history, which is never empty.
PositionsExist ==
    /\ Revisions # {}
    /\ \A s \in Streams :
        /\ checkpoint[s] <= Len(history)
        /\ pc[s] = "commitList" => held[s] \in Revisions
        /\ runner = "collectCommit" => held[s] <= Len(history)

\* Outside a running or abandoned iteration no stream is active.
QuietBetweenIterations ==
    runner \in {"down", "collect", "collectCommit", "start", "done"} => AllSettled

\* The inductive invariant behind the ledger: together with TypeOK, every step
\* of the collector preserves it, whatever the constants.
WatchInv ==
    /\ PositionIsDurable
    /\ RelistHasNoPosition
    /\ EventIsNext
    /\ PositionsExist
    /\ QuietBetweenIterations

\* A stream never gets a second loop while its first one still runs: after a
\* scope change every stream of the old iteration settles, even the one that is
\* inside a transaction, before a stream of the new iteration reads a position.
OneLoopPerStream ==
    [][\A s \in Streams : pc'[s] = "load" => pc[s] \in Settled \cup {"load"}]_vars

\* The collector does as the ledger promises.
ImplementsLedger == Ledger!LedgerSpec

\* Readiness is withdrawn for good when the watch has failed.
NotReadyOnceFailed == runner = "failed" => ~ready

CaughtUp(s) == Ledger!Listing(s, Len(history)) \subseteq observed

\* Once Kubernetes and the owner are quiet, everything that exists in an approved
\* stream ends up stored, unless the collector failed where an operator can see it: the
\* process keeps restarting, the watch ended, or the stream spent its budget.
CollectsOrFails ==
    (<>[][FALSE]_approved)
    => \/ []<>(runner = "down")
       \/ <>[](\/ runner \in {"failed", "done"}
               \/ \A s \in approved : s \in failed \/ CaughtUp(s))

\* Once the owner stops editing, the watch runs with the approved scope, or has
\* ended, unless the process is restarted for ever; it never stays with an
\* older scope.
FollowsScope ==
    (<>[][FALSE]_approved)
    => \/ []<>(runner = "down")
       \/ <>[](runner \in {"failed", "done"} \/ (runner = "racing" /\ scope = approved))

\* A graceful stop always completes.
StopCompletes == runner \in {"stopping", "draining"} ~> runner = "down"
=============================================================================
