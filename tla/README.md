# Tracegarden in TLA+

Tracegarden observes a Kubernetes cluster and keeps what it saw, together with
what a team writes down, on one Timeline. This directory holds TLA+ models of
its program logic, the TLC configurations that check them on small instances,
and TLAPS proofs of the properties that matter most for every instance. All
paths below are relative to the repository root.

Run a model with `tlc -workers 2 -config MCCollectorWatch_one.cfg MCCollectorWatch`,
check a proof module with `tlapm CollectorWatch_proofs.tla`. `PROJECT.json` lists
every run, the mutation that each property detects, the source lines behind
each definition, and the hazards that the properties are aimed at.

Contents: [1 Inventory](#1-inventory), [2 Plan](#2-plan),
[3 Modules](#3-modules-and-the-code), [4 Runs](#4-runs),
[5 Fairness](#5-fairness), [6 Proofs](#6-proofs),
[7 Findings](#7-findings-and-observations), [8 Limits](#8-what-is-not-modelled).

## 1. Inventory

### Components

| component | source | state it keeps | operations | hard part |
|---|---|---|---|---|
| collector watch runtime | `apps/collector/src/main.ts` | per stream: position, relist flag, recovery attempts; per process: captured scope, abort signal, readiness | startup collection, list, watch, store, recover, scope monitor, stop | awaits everywhere; the scope is edited, streams fail and the process dies between any two of them |
| ingestion ledger | `packages/db/src/index.ts` 2031-2308 | Observations, ingestion checkpoints | store, store with checkpoint, clear checkpoint | the checkpoint must never be ahead of what is stored |
| Kubernetes adapters | `packages/cluster/src/index.ts` | the open watch, its buffer (1024 events, line 281) and its one wake-up | list, watch, normalize | 410 Gone, disconnects, overflow, an abort at any moment; two paths to one Observation |
| Cluster scope | `packages/db/src/index.ts` 1448-1552 | the approved namespaces and kinds | get with a deadline, save | read before an await and used after it |
| Timeline feed | `packages/db/src/index.ts` 1921-2030, 2583-2712; `apps/web/src/server.ts` 645-1015; `apps/web/src/views/timeline.tsx` | entries numbered by a sequence, one LISTEN connection, one SSE client record per page | write, history page, live page, notify, recover | commit order, coalesced and lost hints, reconnects |
| Attention Items and reviews | `packages/db/src/index.ts` 2047-2104, 2583-2751; `packages/cluster/src/index.ts` 502-553, 776-782; migration 0010 | items, reviews of Members | mark recovery, review, unread count, page | a list that runs ahead of the watch; reviews that race each other and the cleanup |
| correlation and retention | `packages/db/src/index.ts` 2441-2582, 2765-2895 | suggestions, decisions, confirmed links, retention policy | refresh, decide, clean up | a decision races a refresh; cleanup races ingestion and decisions |
| Experiment journal | `packages/domain/src/index.ts`, `packages/db/src/index.ts` 2310-2440 | Experiments and their status | create, update | concurrent partial updates |
| membership | `packages/identity/src/index.ts`, `packages/db/src/index.ts` 2980-3290 | accounts, memberships, invitations, audit records | admit, invite, revoke, assign role | first owner, last owner, one invitation accepted twice, a lock cycle |
| migrations and startup | `apps/migrate/src/main.ts`, `packages/db/src/index.ts` 3384-3504, `deploy/` Jobs and init containers | the migration ledger | migrate, wait for the schema, verify | two releases, retries of a Job, an ambiguous COMMIT |
| readiness probe | `packages/db/src/index.ts` 88-230, `apps/web/src/server.ts` 474-515 | pending acquisitions of the pool | ping with a deadline | a deadline that passes while a client is being acquired |
| in-memory stores | `packages/db/src/index.ts` 331-640, 996-1445 | maps | the operations of the PostgreSQL stores | the tests run on them, production does not |
| web requests | `apps/web/src/server.ts` 1090-1230 | none of its own | look the session up, await, act | roles and scopes that change between the two |
| recent log window | `packages/logs/src/index.ts` | none | bounded read, audit | truncation by lines and bytes, an answer without its audit record |
| telemetry | `packages/telemetry/src/index.ts` | counters | export | best effort, nothing depends on it |
| contracts, i18n, views | `packages/contracts`, `packages/i18n`, `apps/web/src/views` | none | formatting | none |
| delivery policy | `packages/delivery`, `deploy/` | none | static checks, admission of previews | two implementations of one admission rule |
| preview controller | `scripts/preview-lifecycle-controller.mjs` | namespaces, pull secrets and labels | one pass a minute | a pass that fails half-way, pull requests that move meanwhile |
| backup and rehearsal | `scripts/backup.mjs`, `scripts/restore-rehearsal.mjs` | files | run external tools | sequential, disabled by default |

### How they interact

Three processes share one PostgreSQL database and nothing else.

- The **migration Job** runs to its end before anything else serves. Web and
  collector wait for the schema their image carries (an init container in the
  chart, `waitForDatabase` and `verifyMigrations` in the process).
- The **collector** reads the approved scope from the database, lists and
  watches Kubernetes, and stores Observations together with the position they
  reach in one transaction. A timer of the same process runs the retention
  cleanup.
- The **web process** writes Experiments, decisions, reviews, memberships and
  the scope, and answers pages. It holds one LISTEN connection. Every
  transaction that writes a Timeline entry notifies it, it hints to the open
  pages over server-sent events, and the pages ask for what is after their
  cursor.

Everything that writes to the Timeline takes one advisory lock (the timeline
writer lock, `packages/db/src/index.ts:1906`) to the end of its transaction.
The order of sequence numbers, the merge of Experiment edits, decisions,
cleanups and the marking of recoveries all rely on it. Sign-ins take an
advisory lock of the Workspace, migrations one of the database.

### What is hard here

- *Interleaving at awaits.* The collector runs a loop per stream, a monitor and
  a supervisor in one event loop. The owner edits the scope, another stream
  fails or SIGTERM comes at any `await`, and no abort interrupts a transaction.
- *Failure.* The process dies between or inside transactions, the
  acknowledgement of COMMIT is lost, Kubernetes forgets a position (410 Gone),
  LISTEN fails, a browser loses its event stream.
- *Order.* Sequence numbers are drawn before the commit; history order is not
  commit order; a list runs ahead of a watch; an event may be delivered again.
- *Read, then use.* Transactions run at READ COMMITTED: what a statement reads
  stays true only under the lock that protects it. Scope checks, decisions,
  cleanups, merges, role counts and unread counts all read first.
- *Progress.* Recovery budgets, probes that share one release function, a stop
  that waits for transactions, PostgreSQL deadlocks, Jobs with a retry limit.

### What makes each component correct

- *Collector and ledger*: a checkpoint never covers what is not stored, and no
  change between two positions of it is skipped, whatever fails. What is stored
  was approved. There is one loop per stream. After failures and edits
  everything that exists is stored or the failure is visible. A stop ends.
- *Timeline feed*: the cursor of a page never passes an entry it does not show;
  no wake-up is lost; what is committed is shown in the end.
- *LISTEN connection and readiness probe*: an open event stream is being
  notified; no pool client is forgotten, however late it comes; readiness
  returns; shutdown ends.
- *Kubernetes adapter*: what the API server sends is handed over in order and
  without a gap, or the stream fails visibly; a stream that is over holds
  nothing; a list and a watch make the same Observation of a resource.
- *Attention*: recoveries follow what they recover from; one request makes a
  review; a page agrees with its unread count.
- *Correlation and retention*: decisions stand; a cleanup deletes only what is
  expired and unlinked.
- *Experiments*: the lifecycle moves forward; a conclusion is explained; edits
  of different fields do not undo each other.
- *Membership and web requests*: an owner remains; the audit trail explains
  members and invitations; what a request does its member was allowed to do
  while it ran; a log window is audited before it is shown; requests end.
- *In-memory stores*: they answer every sequence of calls as the database does.
- *Startup*: nothing serves against an incomplete schema; Jobs of two releases
  do not make each other fail; a release comes up.
- *Previews*: what is shown is provisioned; what nobody wants is deleted.

## 2. Plan

The order was: the collector and its ledger (the reason why the program
exists), then how an entry reaches a page, then the transactions of the web
process, then startup. Each module has its own state; modules meet where the
table says.

| module | abstracts | composed with | stands |
|---|---|---|---|
| `IngestionLedger` | what observation promises: history, checkpoints, stored changes | implemented by `CollectorWatch` | checked, proved |
| `CollectorWatch` | one process, its streams, the database transactions and the Kubernetes API they use | `INSTANCE IngestionLedger` as refinement | checked, safety proved |
| `ObservedStream` | what a watch promises to the collector | implemented by `KubernetesAdapter` | checked, proved |
| `KubernetesAdapter` | list, watch request, buffer, wake-up, abort | `INSTANCE ObservedStream` as refinement | checked, safety proved |
| `ObservationNormalization` | projection, classification and normalization on the list and the watch path | assumptions of `MCKubernetesAdapter` | evaluated |
| `StoredRecords` | how an Observation and an Experiment come back from their rows | assumptions of `MCKubernetesAdapter` | evaluated |
| `TimelineFeed` | writers, notification, hint, page and cursor | takes LISTEN as up or down; `TimelineListener` details it | checked, safety proved |
| `TimelineQuery` | parameters, filters, cursors, pages and their lag, in memory and in SQL | assumptions of `MCTimelineFeed` | evaluated |
| `TimelineListener` | the LISTEN connection shared by streams, probes and shutdown | – | checked, safety proved |
| `ReadinessProbe` | the ping, late pool clients, a full pool | EXTENDS `TimelineListener`: they share the pool | checked, safety proved |
| `Membership` | admission and membership transactions | – | checked, safety proved |
| `WebRequests` | handlers that use a session's role and the scope after awaits, log windows, saves of the scope | EXTENDS `Membership` and `RecentLogWindow` | checked, safety proved |
| `RecentLogWindow` | the cut of a log by lines and bytes | used by `WebRequests`; assumptions of `MCWebRequests` | evaluated |
| `AdmissionStores` | the in-memory and the PostgreSQL admission store, call by call | assumption of `MCWebRequests` | evaluated |
| `Experiments` | journal transactions | – | checked, proved |
| `ExperimentInput` | what a request may say about an Experiment, how it is normalized and merged | assumptions of `MCExperiments`, one of which compares it with `Experiments` | evaluated |
| `Correlation` | suggestions, decisions, links, retention | entries of both kinds | checked, proved |
| `TimelineStores` | the in-memory and the PostgreSQL Timeline store, call by call | EXTENDS `TimelineQuery`; assumption of `MCCorrelation` | evaluated |
| `Startup` | migration Jobs and pods of several releases | – | checked, safety proved |
| `PreviewAdmission` | the admission decisions of the controller and of the delivery package | used by `PreviewLifecycle`; assumptions of `MCDelivery` | evaluated |
| `PreviewLifecycle` | a pass of the preview controller against GitHub and Kubernetes | – | checked, safety proved |
| `Attention` | items, recoveries, reviews, unread counts | the collector of `CollectorWatch`, reduced to its store order; the cleanup of `Correlation`, which deletes anything here | checked, safety proved |

The abstract specifications worth stating are the ledger, which says in six
actions what the rest of Tracegarden may assume of observation, and the observed
stream, which says in five what the collector may assume of a watch. The first
refinement lets properties of the ledger be proved there once and carried to the
collector; the second justifies that `CollectorWatch` takes a watch as a source of
"the next change, or an end".

Pure transformations are operators. They are compared with a reference
definition, or with their second implementation in the source, by assumptions of
the MC modules that TLC evaluates over all small inputs.

Left for later:

1. An abstract Timeline that `TimelineFeed` implements (a page is a prefix of
   the committed entries), like the ledger for the collector. The invariant it
   needs is there: `CursorInv` and `AnswerInv` of `Timeline_proofs`.
2. Lemmas about the operators that are evaluated only (`Decisions` of
   `PreviewAdmission`, `PageFromEntries` of `TimelineQuery`), where they do not
   need induction over data.

## 3. Modules and the code

In all modules one action is the code between two awaits or between two
statements of a transaction, whichever the other actors can tell apart. A
variable named `pc`, `at` or `runner` says which await an actor is suspended
at. Names of definitions in the modules follow the functions they stand for;
`PROJECT.json` has the lines. Definitions named `…Unlocked`, `…Unchecked`,
`…Early` and the like next to an action are its defective forms; they are part
of no specification and serve to show that the properties notice them.

### IngestionLedger

`history` is what the API server commits: a sequence of changes, the i-th with
resourceVersion i. `checkpoint` is `tracegarden_ingestion_checkpoints`,
`observed` the set of revisions stored as Observations. `Occur`, `Forget`,
`Rebase`, `Ingest`, `Bookmark` and `Replay` are the only ways these may change.
`CheckpointCovered` and `NothingSkipped` are stated here.

### CollectorWatch

State: the Cluster (`history`, `compacted`), the database (`approved`,
`checkpoint`, `observed`), `runWatch` (`runner`, `scope`, `aborted`, `verdict`,
`ready`, `failed`) and per stream the variables of `watchStream` (`pc`,
`version`, `relist`, `attempts`, `cursor`, `held`).

| code | actions |
|---|---|
| startup and initial collection, `main.ts` 955-1010 | `Boot`, `CollectList`, `CollectCommit`, `CollectFails` |
| `runWatch`, 660-880 | `StartStreams`, `StartWithoutScope`, `StartFails`, `AbortIteration`, `NextIteration`, `FailWatch`, `FailExhausted` |
| a stream: scope check, list or watch, 700-790 | `LoadCheckpoint`, `CheckScope`, `List`, `OpenWatch`, `DeliverChange`, `DeliverBookmark`, `Redeliver`, `CheckEventScope` |
| its transactions, `packages/db` 2206-2308 | `Commit`, `CommitRefused` (the scope row says no), `CommitFails` (before or after the commit took effect) |
| its catch block, 786-850 | `StreamBreaks`, `ReadFails`, `Malformed`, `Recover`, `RecoverScopeChanged`, `Exhaust`, `WakeUp` |
| `close()` and the process | `Stop`, `Exit`, `Crash` |
| the world | `ClusterChange`, `Compact`, `SaveScope` |

Abstractions: one revision counter for all streams, as in etcd; the history has
a past when observation starts; a list is answered at the current revision;
buffer overflow, a disconnect and an error event are one action because the
adapter ends the stream in the same way. `advanceIngestionCheckpoint` has no
caller and is not modelled. Deadlines of the scope reads are outcomes of
`ReadFails`, not clocks.

### ObservedStream and KubernetesAdapter

`ObservedStream` has what the API server has put on the wire (`sent`), what was
handed over (`taken`) and how the stream ended. `KubernetesAdapter` has the two
calls of the collector. `StartList`, `ListCollection` and `ListFails` are
`listResult`; `ListedVersion` is its rule that only a single collection has a
resourceVersion. `OpenWatch` is the call of `watchNamespace`; `Accepted`, `Refused`
and `CannotRequest` are the three ways its request is answered, `LateAnswer` the
answer to a request that lost the race against the signal. `Push` and `Finish` are
the functions of these names, with the buffer limit and the wake-up; `Yield`,
`Throw`, `Return`, `Wait` and `Leave` are the generator between two awaits, `Finally`
its finally block. `caller = "waiting"` means that `wake` is set.

### ObservationNormalization

`Projected` is `projectResourceResponse`, `Normalize` is `normalizeObservation` with
the classification of `abnormalReason`; `ByList` and `ByWatch` are the two paths, of
which only the first projects. `Served` leaves counters out that are zero, as the
API server does.

### StoredRecords

`RowOf` is what `normalizedFacts` stores of an Observation, `ObservationFromRow`
what `observationFromRow` reads from it for each kind, through `FactString`,
`FactNumber` and `FactBoolean`; `ExperimentFromRow` is `experimentFromTimelineRow`.
A fact is a type and a value. The tests use the in-memory store, which keeps the
object it is given, and never come by this conversion.

### TimelineFeed

State: the sequence and the entries (`sequence`, `writing`, `entries`), the web
process's client record (`stream`, `pending`, `check`, `looking`, `queued`), what
is on the wire, and the page's script (`shown`, `cursor`, `base`, `identified`,
`recovering`, `again`, `request`). `BeginWrite`, `CommitWrite` and
`RollbackWrite` are the writers under their lock. `Notify`, `SendHint` and
`HintWritten` are `sendAuthorizedHint` with its coalescing; `Subscribe`,
`WriteReady` and `ReadySent` are `timelineStream`; `LoadPage`, `OnReady`,
`OnHint`, `Receive` and `FetchFails` are the script of `views/timeline.tsx`;
`ReadPage` and `Respond` are the API with its two orders (`history`: by
occurredAt and id; `live`: by sequence). A `Cursor` is one of the two kinds or
absent, as the encoded cursors are.

### TimelineListener

State: `timelineListeners`, `timelineListenerClient`, `timelineListenerSetup`
and `timelineListenerHealthy` of the store, the clients checked out of the pool
(`out`), `releaseTimelineReadiness`, `timelineReady` and `stopping` of the
server, and the place of each handler. Continuations that are ready
(`Continue`) run before the next I/O event or request, as the microtask queue
does; without that, the model would show races Node cannot produce.

### TimelineQuery

`TimelineQueryInput` and `ParseTimelineQuery` are the parameters of a request,
`EntryMatchesQuery` the filters, `TimelineCursor` and `LiveTimelineCursor` the cursors
with the Member and filters they are good for, `PageFromEntries` the page as the
in-memory store cuts it and `SelectPage` as the SQL statement does.
`CountTimelineEntriesAfterCursor` is the lag of a stream.

### ReadinessProbe

`Ping` is the head of `probePostgresReadiness`, `AcquisitionTimesOut`, `Acquire`,
`Refuse`, `QueryAnswered` and `QueryFails` its outcomes. A late acquisition is one
whose probe has gone on without it; `pending` is the entry of its pool in
`pendingReadinessAcquisitions`. `VerifyAfter` continues with the LISTEN connection as
`status` does, whatever the ping was answered. `Borrow` and `Return` are all other
requests. Steps of `TimelineListener` take their clients from the same pool
(`FromPool`). One probe at a time is past its ping: overlapping ones are the
subject of `listener_overlap`.

### Membership

State: roles, invitations, audit records in commit order, and one record per
transaction. A step that waits for a lock is enabled when it is free; locks are
visible as places (`AdvisoryLock`, `MembersLock`, `InvitationLock`, the identity row).
`admit` is `SignIn`, `TakeLock`, `LookUp`, `Accept`, `Insert`, `SignedIn`;
`assignMemberRole` is `BeginAssign`, `LockMembers`, `ReadTarget`, `Assigned`;
`BreakDeadlock` is PostgreSQL's deadlock detector. `Fail` is any error of a
statement: the transaction rolls back.

### WebRequests and RecentLogWindow

A slot runs a transaction of `Membership` or a handler. `Arrive` looks the session
up; a page handler reads the scope before it asks for the capability (`Page`),
an API handler asks at once. `ValidateScope`, `ReadLog` and `RecordLogAccess` are
`requestRecentLogWindow`, `Configure` and `Save` are `configureClusterScope`; `Perform`
stands for the operations whose transactions have modules of their own. `logged`
are the audit records of log reads. `Bounded` and `ReadResponse` are the cut of
`boundRecentLogWindow` and of the adapter's response, in characters of one to
four bytes.

### AdmissionStores and TimelineStores

Each has two folds over a sequence of calls: maps, as the classes `Memory…Store`
keep them, and rows with their keys and cascades, as the statements of
`Postgres…Store` change them. `StoresAgree` compares every answer and what the
readers of the two show. `AdmissionStores` also has the capabilities of a role
twice, from the table of the program and from the rows of the migrations. The
place where live updates resume differs by design (in memory it counts deleted
entries) and is not compared. Refreshes of suggestions may fail in PostgreSQL
after the write they follow; they are left to the reader.

### Experiments

State: the records and one record per request. `Validate` is
`validateExperimentInput` over the merged record, `Transitions` the table of
`packages/domain`. `Read` takes the writer lock and reads, `Update` validates,
writes and commits. Text fields are one field that must not be empty.

### ExperimentInput

`ParseExperimentInput` is `validate` with the order of its checks, over inputs in which
each field may be missing, null or of another type; texts are what the checks
ask of them (blank, padded, too long, odd characters). `CreateExperimentRecord`
and `UpdateExperimentRecord` are the functions of these names; the journal takes
only what passes here.

### Correlation

State: the day, the policy, entries, the suggestion and link of each pair,
decisions that were answered. A row of a suggestion has an identity of its own (`row`)
because a decision names the row it was shown. What two entries have in common
is one subject and a distance in days. Reading (with the lock) and committing
are separate steps, so that statements outside the lock interleave.

### Startup

State: whether PostgreSQL answers, the migration ledger, who holds the advisory
lock, and the place of each Job and pod. Migrations are numbered; an image
carries a prefix of them. A pod that dies rolls back at once. A timed-out schema
wait is a stutter because its pod starts again in the same state, and the
`activeDeadlineSeconds` of a Job is not modelled.

### PreviewAdmission and PreviewLifecycle

`Decisions` is `previewAdmissionDecisions` with its capacity arithmetic, `Admissions`
and `Reconciliation` the versions of the delivery package. A pass is `StartPass`,
`ListPulls`, `LookUp`, `CheckDigest`, `Decide`, then per pull request `Hide` and `Delete`,
or `Ensure`, `ProvideSecret`, `ProvideAccount`, `Mark` and `Show`: one action per
request to GitHub or Kubernetes. `PassFails` ends it anywhere, `Refused` where
Kubernetes does not take an object for a namespace that is gone or going. What
the controller remembers (`pass`) is lost with the pass. `GitHubChange` and
`Terminate` are the world.

### Attention

State: the versions of one resource, the checkpoint of its stream, entries by
ingestion order, the items, reviews, and one record per request. `overtaken` and
`credited` are history variables. `Store` is the store transaction with
`markRecovery` against the entry stored last. `CollectOnStart` is the initial
collection, which lists every stream when any has no checkpoint;
`SynchronizeList`, `WatchEvent` and `ClearCheckpoint` are the stream's ways to
store or to lose its position. `InsertReview`, `CountUnread` and `CommitReview`
are `reviewAttention`, whose insert waits for a concurrent one of the same key
and for a cleanup that holds the entry. `ReadEntries` and `ReadCount` are the
two statements of a page.

## 4. Runs

Counters that the code does not bound are bounded by constants named `Max…`;
each bound is a guard of the action that counts. `CHECK_DEADLOCK FALSE` stands
where a behaviour may end: a collector without a scope is done, a process is
stopped, a stream is over, a bound is reached, a Job has no retry left. `attention` alone
checks for deadlock.

| run | instance | distinct states | what it shows |
|---|---|---|---|
| `collector_one` | 2 streams of which `{}` or `{s1}` is approved, 1 object each, 3 revisions, 1 recovery attempt, every fault but scope edits | 310 000 | The collector implements the ledger. `CheckpointCovered` and `NothingSkipped` hold through crashes, lost acknowledgements, 410 Gone, redelivery. `CollectsOrFails`: what exists is stored in the end unless the failure is visible. |
| `collector_two` | 2 streams, `{s1}` or both approved and edited at any time, 1 revision, no retries, database failures, SIGTERM | 161 000 | Nothing unapproved is stored; a stream has one loop; the watch ends up on the approved scope; a stop completes. |
| `collector_readiness` | 2 approved streams, database failures | violation | `NotReadyOnceFailed`, see [7](#7-findings-and-observations). |
| `feed` | 3 entries in any order of rank, 1 entry per answer, 1 fault | 101 000 | A page's cursor passes nothing; no wake-up is lost; committed entries are shown. |
| `adapter` | 2 collections listed together or one alone, 2 objects, 4 revisions, a buffer of 2 | 285 000 | The watch implements the stream it promises; a list exposes only a resourceVersion it is a snapshot of; a watch that is over holds nothing; no wake-up is lost. |
| `listener` | 2 probes, 1 stream, a pool of 2 clients, 3 acquisitions, 1 other request, 4 subscriptions, 2 failures, no request under way at SIGTERM | 146 000 | Every client that is checked out is in use; an open stream is being notified; readiness returns; shutdown ends. |
| `listener_overlap` | 2 probes, 1 failure | violation | `StopCompletes`. |
| `membership` | 2 identities of one address, 2 slots; from an empty Workspace with management only (2 invitations, 5 audit records, local sessions), or from a settled one with 2 handlers; a log of 4 characters, 2 namespaces | 281 000 | An owner remains; the audit trail explains members and invitations; what a handler does was allowed; log windows are approved, cut and audited; a Cluster keeps its identity; requests end, the lock cycle included. |
| `experiments` | 1 Experiment, 2 requests, 3 texts | 162 000 | Conclusions are explained, the lifecycle moves forward, edits merge. |
| `correlation` | 2 entries, days 0 to 3, periods of 1 or 2 days, 2 requests | 3 330 000 | Decisions stand; a confirmed suggestion is shown with its link; a cleanup takes only what is expired and unlinked. |
| `startup` | an old release (2 migrations) and a new one (3), 1 retry, 3 faults; or 2 pull requests with room for one preview, 2 changes, 1 failing request | 300 000 | Nothing serves against an incomplete schema; the schema is that of a whole release; Jobs do not make each other fail; both releases come up. What carries the preview label is provisioned; previews converge. |
| `attention` | 1 resource with 3 versions (bad, good, bad), 3 entries, pages of 2, 2 Members, 2 requests | 3 800 000 | Recoveries are later, reviews count once, pages agree with their counts. |

Why these bounds are enough for the cases that matter:

- *Collector.* Three revisions give a listed one, one the watch delivers and one
  between them; a change of the unobserved stream makes revisions without a
  change of the observed one, so bookmarks and gaps occur. One recovery attempt
  gives a recovery that succeeds and a spent budget. Two streams are the
  smallest number for a late transaction and for an iteration that waits.
  Lists of several objects are covered by the proofs only, which hold for any
  number of objects.
- *Feed.* With one entry per answer, two entries make a page, a cursor and a
  second fetch; the third is committed while that fetch runs. Ranks differ
  from sequence numbers in every way three entries allow.
- *Adapter.* Four revisions over two collections fill a buffer of two, overflow
  it, and leave a change of the other collection in between.
- *Listener.* A subscription can be asked for while one is given up and one is
  being set up; every actor holds at most one of the four tokens. Two probes
  are the smallest number for one that is turned away while the acquisition
  of the other is late; a pool of two can be full with the LISTEN connection
  and one request. Two failures are a timed-out acquisition and a lost
  LISTEN connection, in either order.
- *Web requests.* Two handlers are one that acts by a role or scope and one that
  changes it. They start in a settled Workspace because how it came about
  is the matter of the behaviours without handlers.
- *Previews.* With room for one, the second pull request waits for the first to
  be closed; two changes are that and one in the middle of a pass.
- *Transactions.* Two requests meet in every pair of places. A third adds
  waiting, not another conflict, because each of the locks has one holder.
  Six audit records are two admissions, two invitations and two role changes.
- *Correlation.* One pair is what decisions, links and cleanups meet on. Four
  days pass both periods. Suggestions of different pairs do not interact.
- *Startup.* A pod of each release waits while either Job runs first; three
  faults exceed the two pods a Job may use, so that it can give up.
- *Attention.* Bad, good, bad gives a recovery and a relapse; three entries of
  which any may be deleted give a previous state that is not the last version.

Assumptions of the MC modules compare pure definitions over all inputs of a
small size; TLC evaluates them before the run:

| module | assumptions | over |
|---|---|---|
| `MCKubernetesAdapter` | `PathIndependent`, `ShortfallIsAttention`, `ObservationsRoundTrip`, `ReadingIsStable`, `ExperimentsRead` | resources of every kind, with counters to 2, 3 conditions, 3 labels; rows of every kind with facts that are missing or of another type |
| `MCTimelineFeed` | `PagesComplete`, `StoresPageAlike`, `LagIsRemainder`, `QueriesAreSound` | stores of 3 entries, every filter, every cursor that was handed out, parameters as a browser may send them |
| `MCExperiments` | `AcceptedIsNormal`, `UpdatesKeepTheRest`, `JournalValidatesAlike` | requests that differ from a plain one in two fields, updates of every stored state |
| `MCWebRequests` | `WindowIsCutRight`, `WindowsKeepLimits`, `ResponseIsCutRight`, `StoresAnswerAlike` | texts of 4 characters; 3 admission calls after 3 beginnings |
| `MCCorrelation` | `StoresAnswerAlike` | 3 Timeline calls after 3 beginnings, and all pages afterwards |
| `MCDelivery` | `DecisionsFillPlaces`, `DecisionsAgree` | 3 pull requests, capacities of which each bound is the one that binds |

Symmetry is used where a run has safety properties only (`experiments`,
`correlation`, `attention`), over requests, Members and equal texts.

Each property of a passing run has a mutation of one definition in
`PROJECT.json` that makes it fail: a dropped guard, a missing reset, a wrong
order. The mutated forms stand next to the definitions they replace.

## 5. Fairness

No environment action is fair: nobody must edit, fail, write, review or sign in.

- `CollectorWatch`: weak fairness of the runner and of every stream, because an
  event loop runs each continuation that is ready and each request is answered
  or times out, and kubelet restarts a process that exited. Strong fairness of
  `DeliverChange` for each stream: the API server does not hold back a pending
  change for ever by delivering old events again. Without it a watch that only
  redelivers would violate `CollectsOrFails`, which says nothing of the code.
- `TimelineFeed`: weak fairness of the steps of the web process and the page
  taken together: requests arrive and event loops run what is ready.
- `TimelineListener`, `ReadinessProbe`: weak fairness of ready continuations; strong
  fairness of what each handler does next, of the set-up, of clients that are
  returned and of acquisitions, as the event loop takes every event that is
  ready although others come between, and the pool serves its queue or times
  out. Probes are sent again and again.
- `KubernetesAdapter`: weak fairness of the collector's pulls and of answers of the
  HTTP client, which settles what was aborted. The API server need send nothing.
- `Membership`, `WebRequests`: strong fairness of the steps of each transaction and
  of each handler: PostgreSQL grants locks in the order of their requests and
  breaks deadlocks; what a handler awaits answers.
- `Startup`: weak fairness of Jobs and of a database that is restarted, strong
  fairness of the steps of a pod that need the database to be up.
- `PreviewLifecycle`: weak fairness of passes, which a CronJob starts every minute
  and never two at a time (`deploy/preview/lifecycle-controller.yaml:478`), and of
  deletions, which Kubernetes carries out.
- `Experiments`, `Correlation`, `Attention`: none. Their properties are safety.

## 6. Proofs

Theorems hold for every value of the constants that satisfies the assumptions of
the modules (`CollectorAssumption`, `AdapterAssumption`, `FeedAssumption`,
`ListenerAssumption`, `ProbeAssumption`, `MembershipAssumption`,
`WindowAssumption`, `WebAssumption`, `TrailAssumption`, `ExperimentsAssumption`,
`CorrelationAssumption`, `StartupAssumption`, `PreviewAssumption`,
`AttentionAssumption`). They give types, and say that sets which cannot stand for
the same thing differ: any number of streams, objects, pages' entries, probes,
requests, identities, releases, pull requests; any bounds; any set of faults.
Two say more. `TrailAssumption` is about the Workspace that handlers start in: its
audit trail is one that `Membership` can produce. `ProbeAssumption` wants
finitely many probes, which is what the counts of the pool are about.

| module | theorems | inductive invariant and why it is needed |
|---|---|---|
| `CollectorWatch_proofs` | `LedgerCovered`, `LedgerSkipsNothing`, `TypeCorrect`, `WatchInvariant`, `CollectorImplementsLedger`, `CollectorCovered`, `CollectorSkipsNothing`, `CollectorStoresApproved`, `CollectorHasOneLoop` | `LedgerInv`, of the ledger: checkpoints are positions of the history, and what is listed there is stored; lemmas say what a listing loses and gains when the history grows, a change is ingested or a bookmark passes. `TypeOK /\ WatchInv`, of the collector: a stream's `version` is the durable checkpoint wherever it will be used; a stream relists exactly when it has no position; the event it holds is the next one. Only with these does a commit map to `Ingest`, `Rebase`, `Bookmark` or `Replay` of the ledger. `CollectorCovered` and `CollectorSkipsNothing` then follow from the ledger's theorems. |
| `KubernetesAdapter_proofs` | `TypesKept`, `ListsAreSnapshots`, `ReleasedAlways`, `AdapterImplementsStream` | `IInv`, of four parts. `ListInv`: a list of one collection was answered by one request. `RequestInv`: a caller that pulls has a request, and an open request has such a caller. `Consecutive`: the first buffered change is the next after the one yielded last, and each is the next after the one before. `Whole`: while the watch has neither failed nor been aborted, the buffer ends where the wire does; without it a quiet end could not be mapped to `Close`. |
| `Timeline_proofs` | `FeedInvKept`, `FeedTypesKept`, `NothingIsPassed`, `NoWakeupIsLost`, `NothingPassedKept`, `NoLostWakeupKept` | `FeedInv`. `Numbered`: numbers are drawn under the writer lock, so that who writes has the last one; without it an entry could appear behind a cursor. `CursorInv` and `AnswerInv`: a page shows everything up to its cursor, and an answer under way has everything up to where the page goes on. `WireInv`, `ClientInv`, `QueueInv`: where hints may be, and why one is held back. `WakeInv`: an entry that an open page lacks is fetched, announced, being answered, or a notification of it is on its way. |
| `Membership_proofs` | `TypeCorrect`, `WorkspaceKeepsOwner`, `AuditTrailExplains`, `MembersOfRequests`, `WebInvariant`, `EffectsAreAuthorized`, `IdentityIsKept`, `WindowsAreAccounted` | `TypeOK /\ MemberInv`: lock holders are unique, and a role change that is about to commit still knows an owner beside its target; `Invited` is needed because an invitation admits only where an owner made it. `TrailInv` adds the audit trail and `Claims`: an invitation that a transaction is about to accept is pending and nobody else has it. Lemmas say what one more record changes of the roles and invitations that a trail comes to. `WebInv`: what a handler asked for was allowed at a point of the trail that it remembers, its scope is one that was saved, its window is cut from a log, and one Cluster was answered to all. |
| `WebProcess_proofs` | `TypesKept`, `ConclusionKept`, `LifecycleKept`, `EditsKept`, `ListeningIsKept`, `PoolIsAccounted`, `OpenStreamsListen` | Of the journal, `TypeOK /\ JournalInv`: what a merge has read is still the record, because it holds the writer lock. Of the LISTEN connection, `ListenerInv`: each stream and probe that listens has a subscription of its own, and none is the one that readiness holds (`Subscriptions`); a set-up is waited for by somebody and nothing is healthy meanwhile (`SetupInv`); a client that is given back is no longer the current one (`HeldInv`). Only then does giving up the last subscription close nothing that an open stream needs. Of the probe, `ProbeInv` adds `PingInv`: a probe awaits an acquisition of its own that is not late, so that a client which comes late is nobody's and is returned. |
| `Correlation_proofs` | `TypesKept`, `DecisionsKept`, `LinksShown`, `OnlyExpiredGoes` | `TypeOK /\ CorrelationInv`: links are the confirmed suggestions; what a decision, refresh or cleanup has chosen under the lock is still so when it commits; a link seen by the first statement of a page is there for the second. |
| `Startup_proofs` | `TypesKept`, `ServesMigrated`, `SchemaKeptWhole`, `OnlyFaultsFail`, `LabelIsEarned`, `BothSidesAreKept` | `TypeOK /\ StartupInv`: the holder of the lock is unique, and what it skipped or wrote is a prefix of its list. Since images carry prefixes of one list, a commit leaves that of a release. `PreviewInv`, of the preview controller: a pull request whose namespace the pass is about to delete carries no label, and a namespace that is still active has what the pass has given it. `BothSidesAreKept` says that a behaviour of the run is one of both modules, so that both sets of theorems hold of it. |
| `Attention_proofs` | `TypesKept`, `RecoveriesFollow`, `OneReview`, `CountsAgree` | `TypeOK /\ AttentionInv`: what is stored is not ahead of the position unless it was overtaken; a transaction that has inserted a review holds its key and its item; a review that was credited is there or its entry is gone; what a request has counted agrees with what it shows. |

Each proof has one lemma per action or group of actions that change the same
state, a lemma for steps that change one request only, and a theorem that
combines them with the temporal rule of invariance.

Every invariant of a passing run, and every action property, is stated by one of
these theorems. Two have a hypothesis besides the assumptions:

- `NothingPassedKept` and `NoLostWakeupKept` exclude `emptyPage`, a page rendered
  without entries, as the run does; [7](#7-findings-and-observations) says what happens on such a page.
  `NothingIsPassed` and `NoWakeupIsLost` hold whatever the faults are, of pages
  rendered with entries.
- `WindowsAreAccounted` takes `WindowsFit`, that a window which is cut from a log keeps
  its limits. That is what the recursive cut of a text computes; TLC evaluates it
  (`WindowsKeepLimits`). The theorem is about the rest: who may answer which
  window, and with which audit record.

Only model-checked: all liveness (`CollectsOrFails`, `FollowsScope`,
`StopCompletes`, `EventuallyShown`, `ReadinessReturns`, `NoLostWakeup` of the adapter,
`AllRequestsEnd`, `ReleaseComesUp`, `PreviewsConverge`), which the prover cannot reach.
What the comparisons of the stores, the cut of a log, pages, queries, stored
rows, the validation of inputs and the admission of previews compute is evaluated on small
inputs only: most of it is a fold or a recursive function, and what such a
definition yields for every input is induction over data, out of the prover's
reach.

## 7. Findings and observations

Runs that end in a violation, each against a statement of the repository:

1. **A failed collector may report that it is ready** (`collector_readiness`).
   The initial collection sets `collectionReady`; when the scope read at the head
   of `runWatch` fails (`main.ts:699`) nothing takes it back. The same happens when
   a stream fails for good while another is inside a transaction: the late
   commit sets it true again. Nothing restarts the watch.
2. **Overlapping probes leak a LISTEN subscription** (`listener_overlap`). Two
   `verifyTimelineNotifications` each assign `releaseTimelineReadiness`; the first
   is lost and `close()` waits for its pool client for ever.

Disagreements that no run shows, because the properties except them:

- *A refused event stream ends live updates of a page.* When LISTEN is down, the
  server answers 503 (`server.ts:961`); an `EventSource` does not reconnect after
  that, and the page has no other way to learn of entries until it is reloaded.
  `EventuallyShown` excepts a page whose stream request was refused.
- *A StatefulSet without a ready replica is not an Attention Item.* The API server
  leaves `readyReplicas` out when it is zero, and `abnormalReason` compares it only when it
  is there (`packages/cluster/src/index.ts:533`). `ShortfallIsAttention` excepts this case.
- *A preview may be labelled in a namespace that is being deleted.* The declared
  policy is `provisionBeforeEligibility: true` (`deploy/preview/lifecycle-policy.yaml:43`).
  `ensureNamespace` takes a terminating namespace for an existing one
  (`scripts/preview-lifecycle-controller.mjs:242`); its objects are still there
  to be patched, and the label is set. The next pass that finds the namespace gone
  provisions it anew; `LabelledIsProvisioned` excepts the time between.

Observed while modelling, not kept as runs because the repository promises
nothing that they contradict plainly:

- A pass of the preview controller goes by ascending number, so that a preview
  that is admitted is labelled before a displaced one of a higher number is
  hidden; for a moment there is one more than the capacity allows.
- A pass that fails at one pull request leaves those of higher numbers as they are,
  deletions included; a missing operator secret stops cleanup while any
  pull request is admitted (`scripts/preview-lifecycle-controller.mjs:337`).
- The label of a closed pull request stays when its namespace is gone before a
  pass comes by; `Reconciled` speaks of open ones.
- In memory, the cursor of a first page counts entries that a cleanup has
  deleted, in PostgreSQL it does not; both are past every entry that is there.

- The initial collection lists every stream when any checkpoint is missing
  (`main.ts:977-986`). A stream whose checkpoint is behind then watches older
  versions after the newest is stored, so that an older healthy state can be
  marked as the recovery of a newer unhealthy one. `RecoveryIsLater` excepts
  exactly these versions (`overtaken`).
- A scope edit between an event's check and its transaction is refused by the
  transaction; unlike the check's own error, the refusal may end the watch of all streams
  (`main.ts:555`, 790-794).
- A page that was rendered without entries recovers in history order and may
  pass an entry that commits with an earlier time (`packages/db/src/index.ts:2667`,
  `views/timeline.tsx:66-69`); `NothingPassed` therefore speaks of live cursors.
- A stream request that is suspended in its session look-up at SIGTERM
  subscribes after the shutdown has swept the streams (`server.ts:868`). With
  `InFlight = TRUE`, `StopCompletes` of `TimelineListener` fails.
- The Experiment form posts every field (`server.ts:717`), so that saving an old
  view reverts fields which others changed. `EditsMerge` speaks of the fields a
  request names.
- Creating an Experiment accepts the field names `lifecycleState` and
  `associatedWorkloads` as well as `state` and `workloads`; an update ignores the
  former two, because the merged record already has the latter.
- A field that is null in an update is reset to its default and not left alone:
  tags become empty, and a state becomes "draft", which is refused of an
  Experiment that is past it.
- Readiness of the web process is withdrawn and given by streams as well as by
  probes; it may flap while streams come and go.
- Audit records are listed by `created_at` (`packages/db/src/index.ts:2988`), which
  is the start of their transaction and not its commit; `audit` is in commit order.
- A review that races a cleanup fails on its foreign key and is answered as
  an error, not as "not found".

## 8. What is not modelled

- *Payload formats*: redaction of secrets in URLs, the typed client libraries (whose
  lists have timestamps as `Date` objects, which the projection of strings drops),
  HTML and translations. What a version means to Attention is a set of versions.
- *Identity providers, cookies, tokens*: the sign-in's transaction starts with a
  verified identity. Input validation is modelled where a module needs its result.
- *Telemetry*: counters and logs nothing else reads. The collector's readiness
  is modelled because probes act on it.
- *SQL of migrations*: one step that succeeds or fails.
- *Delivery policy, manifests*: static predicates, but for the admission of
  previews. The Jobs and init containers of the chart are in `Startup`.
- *Backup and rehearsal scripts, smoke tests*: sequential pipelines of external
  tools, disabled by default or run by hand.
- *Time*: deadlines, backoff and intervals are choices of the environment.
