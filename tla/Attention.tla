------------------------------- MODULE Attention -------------------------------
(***************************************************************************)
(* Attention Items: the stored states of one Kubernetes resource, which of   *)
(* them need attention, which is the recovery from another, and the reviews  *)
(* and unread counts of Members (packages/db, PostgresTimelineStore and      *)
(* migration 0010; packages/cluster, markRecovery).                          *)
(*                                                                         *)
(* The collector of CollectorWatch stores versions of the resource, one      *)
(* transaction under the timeline writer lock each.  A retention cleanup     *)
(* holds the same lock; what it may delete is the subject of Correlation,    *)
(* here it deletes any entries.  Reviews take no lock but those PostgreSQL   *)
(* takes for a row and its foreign key; a page reads one snapshot.           *)
(***************************************************************************)
EXTENDS Naturals, Sequences, FiniteSets

CONSTANTS
    MaxVersion, \* bound: versions of the resource
    MaxEntries, \* bound: Timeline entries, deleted ones included
    Unhealthy,  \* versions that normalization classifies as "attention"
    PageLimit,  \* entries of a page
    Members,
    NoMember,
    Requests    \* requests that may run at the same time

ASSUME AttentionAssumption ==
    /\ MaxVersion \in Nat \ {0} /\ MaxEntries \in Nat /\ PageLimit \in Nat \ {0}
    /\ Unhealthy \subseteq 1..MaxVersion
    /\ NoMember \notin Members

VARIABLES
    newest,     \* the resource's version in the Cluster
    position,   \* the checkpoint of its stream, 0 if there is none
    overtaken,  \* history: the newest version collected ahead of the position
    entry,      \* Timeline entries with their Observation, by ingestion_order
    item,       \* tracegarden_attention_items: their entries
    review,     \* tracegarden_attention_reviews: entry and Member
    credited,   \* history: how often a review was answered as newly made
    doomed,     \* what the cleanup that holds the writer lock has deleted
    tx          \* what each request is doing

collector == <<newest, position, overtaken>>
timeline  == <<entry, item>>
vars == <<newest, position, overtaken, entry, item, review, credited, doomed, tx>>

Versions == 1..MaxVersion
Entries  == 1..MaxEntries
Filters  == {"all", "attention", "unread"}

Tx == [at : {"idle", "insert", "count", "commit", "counting", "paged"},
       member : Members \cup {NoMember}, entry : Entries \cup {0},
       mine : BOOLEAN,             \* the transaction has inserted the review
       snapshot : SUBSET Entries,  \* unread when the page's snapshot was taken
       flagged : SUBSET Entries,   \* shown as unread
       more : BOOLEAN,             \* the page has a next cursor
       unread : SUBSET Entries]    \* counted as unread

Idle == [at |-> "idle", member |-> NoMember, entry |-> 0, mine |-> FALSE,
         snapshot |-> {}, flagged |-> {}, more |-> FALSE, unread |-> {}]

Kept == {e \in DOMAIN entry : entry[e].kept}

\* abnormalReason, a function of the resource's version.
NeedsAttention(v) == v \in Unhealthy

\* Exactly the stored states that need attention are Attention Items, and only
\* those are reviewed.
References ==
    /\ item = {e \in Kept : NeedsAttention(entry[e].version)}
    /\ \A p \in review : p[1] \in item

TypeOK ==
    /\ newest \in Versions /\ position \in 0..newest /\ overtaken \in 0..newest
    /\ entry \in Seq([version : Versions, recoveryOf : 0..MaxVersion, kept : BOOLEAN])
    /\ Len(entry) <= MaxEntries
    /\ review \subseteq Entries \X Members
    /\ credited \in [Entries \X Members -> Nat]
    /\ doomed \subseteq Kept
    /\ tx \in [Requests -> Tx]
    /\ References

Init ==
    /\ newest = 1 /\ position = 0 /\ overtaken = 0
    /\ entry = <<>> /\ item = {} /\ review = {}
    /\ credited = [p \in Entries \X Members |-> 0]
    /\ doomed = {}
    /\ tx = [r \in Requests |-> Idle]

-----------------------------------------------------------------------------
(* The collector.                                                            *)

\* The Kubernetes API server: the resource changes.
Modify ==
    /\ newest < MaxVersion
    /\ newest' = newest + 1
    /\ UNCHANGED <<position, overtaken, timeline, review, credited, doomed, tx>>

\* The stored state with the highest ingestion_order, 0 if there is none.
Previous == CHOOSE e \in Kept \cup {0} : \A f \in Kept : f <= e

\* What a version recovers from: the previous state, if that needs attention
\* and the new one does not.
MarkRecovery(v) ==
    IF ~NeedsAttention(v) /\ Previous # 0 /\ NeedsAttention(entry[Previous].version)
    THEN entry[Previous].version ELSE 0

\* An Observation, its entry and its Attention Item, unless its source key is
\* stored; a cleanup keeps the writer lock until it commits.
Store(v) ==
    /\ doomed = {}
    /\ \/ \E e \in Kept : entry[e].version = v /\ UNCHANGED timeline
       \/ /\ \A e \in Kept : entry[e].version # v
          /\ Len(entry) < MaxEntries
          /\ entry' = Append(entry, [version |-> v, recoveryOf |-> MarkRecovery(v), kept |-> TRUE])
          /\ item' = IF NeedsAttention(v) THEN item \cup {Len(entry) + 1} ELSE item
    /\ UNCHANGED <<newest, review, credited, doomed, tx>>

\* The initial collection of a process that finds another stream without a
\* checkpoint; this stream's checkpoint stays where it is.
CollectOnStart ==
    /\ Store(newest)
    /\ overtaken' = IF position \in 1..(newest - 1) THEN newest ELSE overtaken
    /\ UNCHANGED position

\* Mutant: the list does not move the checkpoint to its own revision.
SynchronizeListBehind ==
    /\ position = 0
    /\ Store(newest)
    /\ position' = 1
    /\ UNCHANGED overtaken

\* Without a checkpoint the stream lists the resource.
SynchronizeList ==
    /\ position = 0
    /\ Store(newest)
    /\ position' = newest
    /\ UNCHANGED overtaken

\* The watch delivers the next version.
WatchEvent ==
    /\ position \in 1..(newest - 1)
    /\ Store(position + 1)
    /\ position' = position + 1
    /\ UNCHANGED overtaken

\* 410 Gone: the checkpoint is cleared.
ClearCheckpoint ==
    /\ position # 0
    /\ position' = 0
    /\ UNCHANGED <<newest, overtaken, timeline, review, credited, doomed, tx>>

-----------------------------------------------------------------------------
(* Retention.  Deleting an Observation cascades to its entry, the item and   *)
(* the reviews.                                                              *)

\* A review that is not committed yet keeps its item locked.
Locked == {tx[r].entry : r \in {q \in Requests : tx[q].mine}}

\* cleanupRetention has deleted Observations, not committed.
CleanUp ==
    /\ doomed = {}
    /\ doomed' \in (SUBSET (Kept \ Locked)) \ {{}}
    /\ UNCHANGED <<collector, timeline, review, credited, tx>>

\* It commits.
CommitCleanUp ==
    /\ doomed # {}
    /\ entry' = [e \in DOMAIN entry |-> [entry[e] EXCEPT !.kept = @ /\ e \notin doomed]]
    /\ item' = item \ doomed
    /\ review' = {p \in review : p[1] \notin doomed}
    /\ doomed' = {}
    /\ UNCHANGED <<collector, credited, tx>>

\* It fails and is rolled back.
FailCleanUp ==
    /\ doomed # {}
    /\ doomed' = {}
    /\ UNCHANGED <<collector, timeline, review, credited, tx>>

-----------------------------------------------------------------------------
(* Reviews.                                                                  *)

At(r, place)   == tx[r].at = place
Unread(m)      == {e \in item : <<e, m>> \notin review}
KeepTimeline   == UNCHANGED <<collector, timeline, doomed>>

\* A Member reviews an entry that some page or stream has shown; when it is no
\* Attention Item, or not any more, the answer is "not found".
SelectItem(r) ==
    /\ At(r, "idle")
    /\ \E m \in Members, e \in item :
        tx' = [tx EXCEPT ![r] = [Idle EXCEPT !.at = "insert", !.member = m, !.entry = e]]
    /\ KeepTimeline /\ UNCHANGED <<review, credited>>

\* The insert waits for another transaction that inserts the same review, or
\* deletes the item.
Waits(r) ==
    \/ tx[r].entry \in doomed
    \/ \E q \in Requests \ {r} :
        tx[q].mine /\ tx[q].entry = tx[r].entry /\ tx[q].member = tx[r].member

\* Mutant: a review that exists is updated.
InsertReviewAgain(r) ==
    /\ At(r, "insert") /\ ~Waits(r)
    /\ tx' = [tx EXCEPT ![r] = IF @.entry \in item THEN [@ EXCEPT !.at = "count", !.mine = TRUE] ELSE Idle]
    /\ KeepTimeline /\ UNCHANGED <<review, credited>>

\* A review that exists is left as it is; one whose item has been deleted
\* violates its foreign key and fails.
InsertReview(r) ==
    /\ At(r, "insert") /\ ~Waits(r)
    /\ tx' = [tx EXCEPT ![r] =
                IF <<@.entry, @.member>> \in review THEN [@ EXCEPT !.at = "count"]
                ELSE IF @.entry \in item THEN [@ EXCEPT !.at = "count", !.mine = TRUE]
                ELSE Idle]
    /\ KeepTimeline /\ UNCHANGED <<review, credited>>

\* The count of this statement's snapshot and of the own insert.
CountUnread(r) ==
    /\ At(r, "count")
    /\ tx' = [tx EXCEPT ![r].at = "commit",
                        ![r].unread = Unread(tx[r].member) \ (IF tx[r].mine THEN {tx[r].entry} ELSE {})]
    /\ KeepTimeline /\ UNCHANGED <<review, credited>>

CommitReview(r) ==
    LET p == <<tx[r].entry, tx[r].member>> IN
    /\ At(r, "commit")
    /\ review' = IF tx[r].mine THEN review \cup {p} ELSE review
    /\ credited' = IF tx[r].mine THEN [credited EXCEPT ![p] = @ + 1] ELSE credited
    /\ tx' = [tx EXCEPT ![r] = Idle]
    /\ KeepTimeline

-----------------------------------------------------------------------------
(* Timeline pages.                                                           *)

Matching(filter, unread) ==
    CASE filter = "all" -> Kept
      [] filter = "attention" -> item
      [] filter = "unread" -> unread

\* The first PageLimit of some entries, by occurred_at.
FirstOf(entries) == {e \in entries : Cardinality({f \in entries : f < e}) < PageLimit}

\* The first query takes the snapshot of the transaction.
ReadEntries(r) ==
    /\ At(r, "idle")
    /\ \E m \in Members, filter \in Filters :
        LET unread  == Unread(m)
            matches == Matching(filter, unread)
        IN tx' = [tx EXCEPT ![r] = [Idle EXCEPT !.at = "counting", !.member = m, !.snapshot = unread,
                                                !.flagged = FirstOf(matches) \cap unread,
                                                !.more = Cardinality(matches) > PageLimit]]
    /\ KeepTimeline /\ UNCHANGED <<review, credited>>

\* Mutant: every query of a page has a snapshot of its own.
ReadCountLater(r) ==
    /\ At(r, "counting")
    /\ tx' = [tx EXCEPT ![r].at = "paged", ![r].unread = Unread(tx[r].member), ![r].snapshot = {}]
    /\ KeepTimeline /\ UNCHANGED <<review, credited>>

\* The unread count is read in the same snapshot.
ReadCount(r) ==
    /\ At(r, "counting")
    /\ tx' = [tx EXCEPT ![r].at = "paged", ![r].unread = tx[r].snapshot, ![r].snapshot = {}]
    /\ KeepTimeline /\ UNCHANGED <<review, credited>>

\* The request is answered, or fails and is rolled back.
End(r) ==
    /\ ~At(r, "idle")
    /\ tx' = [tx EXCEPT ![r] = Idle]
    /\ KeepTimeline /\ UNCHANGED <<review, credited>>

-----------------------------------------------------------------------------
Collector == Modify \/ CollectOnStart \/ SynchronizeList \/ WatchEvent \/ ClearCheckpoint
Retention == CleanUp \/ CommitCleanUp \/ FailCleanUp
Request(r) ==
    \/ SelectItem(r) \/ InsertReview(r) \/ CountUnread(r) \/ CommitReview(r)
    \/ ReadEntries(r) \/ ReadCount(r) \/ End(r)

Next == Collector \/ Retention \/ \E r \in Requests : Request(r)

Spec == Init /\ [][Next]_vars

-----------------------------------------------------------------------------
(* Properties.                                                               *)

\* An entry is marked as the recovery of an earlier state of the resource,
\* whatever was listed again, expired or deleted in between.  The exception is a
\* version that an initial collection has overtaken: the watch delivers it later.
RecoveryIsLater ==
    \A e \in DOMAIN entry :
        entry[e].recoveryOf < entry[e].version \/ entry[e].version < overtaken

\* Of all requests of a Member to review an item, however they overlap, one is
\* told that it made the review.
ReviewedOnce == \A p \in Entries \X Members : credited[p] <= 1

\* Unread counts agree with what they are shown with, although Members review
\* and the collector stores between the queries that read them: a page's count
\* with the marks of its entries, a review's with the entry just reviewed.
UnreadAgrees ==
    \A r \in Requests :
        /\ At(r, "commit") => tx[r].entry \notin tx[r].unread
        /\ At(r, "paged") =>
            /\ tx[r].flagged \subseteq tx[r].unread
            /\ tx[r].more \/ tx[r].flagged = tx[r].unread
=============================================================================
