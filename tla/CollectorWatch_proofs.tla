------------------------ MODULE CollectorWatch_proofs ------------------------
(***************************************************************************)
(* Proofs that the collector keeps the promise of the ledger, for every     *)
(* set of streams, objects and scopes, every retry budget and every set of  *)
(* faults.  TypeOK /\ WatchInv is inductive; under it every step of the     *)
(* collector is a step of the ledger or leaves the ledger alone.            *)
(***************************************************************************)
EXTENDS CollectorWatch, TLAPS

-----------------------------------------------------------------------------
(* The promise itself: a ledger that only ever forgets, rebases, ingests and *)
(* bookmarks keeps everything at its checkpoints stored, and skips nothing.  *)

\* It is inductive that what is listed at a checkpoint is stored, once checkpoints are known to be positions
\* of the history.
LedgerTypeOK ==
    /\ history \in Seq(Ledger!Change)
    /\ checkpoint \in [Streams -> 0..Len(history)]

LedgerInv == LedgerTypeOK /\ Ledger!CheckpointCovered

-----------------------------------------------------------------------------
\* A listing only depends on the history up to its revision.
LEMMA ListingStable ==
    ASSUME NEW s \in Streams, history \in Seq(Ledger!Change), NEW c \in Ledger!Change,
           history' = Append(history, c), NEW v \in 0..Len(history)
    PROVE  Ledger!Listing(s, v)' = Ledger!Listing(s, v)
<1>1. Len(history') = Len(history) + 1
  OBVIOUS
<1>2. \A i \in 1..v : history'[i] = history[i]
  OBVIOUS
<1>3. \A i \in 1..v : Ledger!Newest(i, v)' <=> Ledger!Newest(i, v)
  <2>1. SUFFICES ASSUME NEW i \in 1..v PROVE Ledger!Newest(i, v)' <=> Ledger!Newest(i, v)
    OBVIOUS
  <2>2. \A j \in (i + 1)..v : j \in 1..v
    OBVIOUS
  <2> QED BY <1>2, <2>1, <2>2 DEF Ledger!Newest
<1>4. Ledger!ChangesOf(s, 1..v)' = Ledger!ChangesOf(s, 1..v)
  BY <1>2 DEF Ledger!ChangesOf
<1>5. Ledger!ChangesOf(s, 1..v) \subseteq 1..v
  BY DEF Ledger!ChangesOf
<1> QED BY <1>2, <1>3, <1>4, <1>5 DEF Ledger!Listing

\* Ingesting the next change of a stream extends the listing by that change.
LEMMA ListingIngest ==
    ASSUME NEW s \in Streams, history \in Seq(Ledger!Change), NEW v \in 0..Len(history),
           NEW i \in Ledger!Revisions, Ledger!NextChange(s, v, i)
    PROVE  Ledger!Listing(s, i) \subseteq Ledger!Listing(s, v) \cup {i}
<1>1. i \in (v + 1)..Len(history) /\ Ledger!ChangesOf(s, (v + 1)..(i - 1)) = {}
  BY DEF Ledger!NextChange, Ledger!ChangesOf
<1>2. SUFFICES ASSUME NEW k \in Ledger!Listing(s, i), k # i PROVE k \in Ledger!Listing(s, v)
  OBVIOUS
<1>3. k \in 1..i /\ history[k].stream = s /\ Ledger!Newest(k, i) /\ history[k].live
  BY <1>2 DEF Ledger!Listing, Ledger!ChangesOf
<1>4. k \in 1..v
  <2>1. k \notin (v + 1)..(i - 1)
    BY <1>1, <1>3 DEF Ledger!ChangesOf
  <2> QED BY <1>1, <1>2, <1>3, <2>1 DEF Ledger!Revisions
<1>5. Ledger!Newest(k, v)
  <2>1. \A j \in (k + 1)..v : j \in (k + 1)..i
    BY <1>1, <1>4
  <2> QED BY <1>3, <2>1 DEF Ledger!Newest
<1> QED BY <1>3, <1>4, <1>5 DEF Ledger!Listing, Ledger!ChangesOf

\* A bookmark over revisions without changes of the stream changes nothing.
LEMMA ListingBookmark ==
    ASSUME NEW s \in Streams, history \in Seq(Ledger!Change), NEW v \in 0..Len(history),
           NEW w \in (v + 1)..Len(history), Ledger!ChangesOf(s, (v + 1)..w) = {}
    PROVE  Ledger!Listing(s, w) \subseteq Ledger!Listing(s, v)
<1>1. SUFFICES ASSUME NEW k \in Ledger!Listing(s, w) PROVE k \in Ledger!Listing(s, v)
  OBVIOUS
<1>2. k \in 1..w /\ history[k].stream = s /\ Ledger!Newest(k, w) /\ history[k].live
  BY <1>1 DEF Ledger!Listing, Ledger!ChangesOf
<1>3. k \in 1..v
  <2>1. k \notin (v + 1)..w
    BY <1>2 DEF Ledger!ChangesOf
  <2> QED BY <1>2, <2>1
<1>4. Ledger!Newest(k, v)
  <2>1. \A j \in (k + 1)..v : j \in (k + 1)..w
    BY <1>3
  <2> QED BY <1>2, <2>1 DEF Ledger!Newest
<1> QED BY <1>2, <1>3, <1>4 DEF Ledger!Listing, Ledger!ChangesOf

\* Nothing is listed at position 0.
LEMMA ListingEmpty == \A s \in Streams : Ledger!Listing(s, 0) = {}
  BY DEF Ledger!Listing, Ledger!ChangesOf

\* A checkpoint may move to any position whose listing is stored.
LEMMA CheckpointMoves ==
    ASSUME LedgerInv, NEW s \in Streams, NEW w \in 0..Len(history),
           checkpoint' = [checkpoint EXCEPT ![s] = w],
           Ledger!Listing(s, w) \subseteq observed',
           history' = history, observed \subseteq observed'
    PROVE  LedgerInv'
<1>1. LedgerTypeOK /\ Ledger!CheckpointCovered
  BY DEF LedgerInv
<1>2. LedgerTypeOK'
  BY <1>1 DEF LedgerTypeOK
<1>3. ASSUME NEW t \in Streams PROVE (Ledger!Listing(t, checkpoint[t]) \subseteq observed)'
  <2>1. Ledger!Listing(t, checkpoint[t])' = Ledger!Listing(t, checkpoint'[t])
    BY DEF Ledger!Listing, Ledger!ChangesOf, Ledger!Newest
  <2>2. checkpoint'[t] = IF t = s THEN w ELSE checkpoint[t]
    BY <1>1 DEF LedgerTypeOK
  <2> QED BY <1>1, <2>1, <2>2 DEF Ledger!CheckpointCovered
<1> QED BY <1>2, <1>3 DEF LedgerInv, Ledger!CheckpointCovered

-----------------------------------------------------------------------------
LEMMA LedgerInitial == Ledger!LedgerInit => LedgerInv
<1> SUFFICES ASSUME Ledger!LedgerInit PROVE LedgerInv
  OBVIOUS
<1>1. LedgerTypeOK
  BY DEF Ledger!LedgerInit, LedgerTypeOK
<1>2. Ledger!CheckpointCovered
  BY ListingEmpty DEF Ledger!LedgerInit, Ledger!CheckpointCovered
<1> QED BY <1>1, <1>2 DEF LedgerInv

LEMMA LedgerInductive == LedgerInv /\ [Ledger!LedgerNext]_(Ledger!ledgerVars) => LedgerInv'
<1> SUFFICES ASSUME LedgerInv, [Ledger!LedgerNext]_(Ledger!ledgerVars) PROVE LedgerInv'
  OBVIOUS
<1> USE DEF LedgerInv
<1>0. LedgerTypeOK /\ Ledger!CheckpointCovered
  OBVIOUS
<1>1. CASE UNCHANGED Ledger!ledgerVars
  <2>1. \A s \in Streams : Ledger!Listing(s, checkpoint[s])' = Ledger!Listing(s, checkpoint[s])
    BY <1>1 DEF Ledger!ledgerVars, Ledger!Listing, Ledger!ChangesOf, Ledger!Newest
  <2> QED BY <1>0, <1>1, <2>1 DEF Ledger!ledgerVars, LedgerTypeOK, Ledger!CheckpointCovered
<1>2. CASE Ledger!Occur
  <2>1. PICK c \in Ledger!Change : history' = Append(history, c)
    BY <1>2 DEF Ledger!Occur
  <2>2. LedgerTypeOK'
    <3>1. history' \in Seq(Ledger!Change) /\ Len(history') = Len(history) + 1
      BY <1>0, <2>1 DEF LedgerTypeOK
    <3>2. checkpoint' = checkpoint
      BY <1>2 DEF Ledger!Occur
    <3> QED BY <1>0, <3>1, <3>2 DEF LedgerTypeOK
  <2>3. \A s \in Streams : Ledger!Listing(s, checkpoint[s])' = Ledger!Listing(s, checkpoint[s])
    <3> SUFFICES ASSUME NEW s \in Streams PROVE Ledger!Listing(s, checkpoint[s])' = Ledger!Listing(s, checkpoint[s])
      OBVIOUS
    <3>1. checkpoint' = checkpoint /\ checkpoint[s] \in 0..Len(history) /\ history \in Seq(Ledger!Change)
      BY <1>0, <1>2 DEF Ledger!Occur, LedgerTypeOK
    <3>2. \A v \in 0..Len(history) : Ledger!Listing(s, v)' = Ledger!Listing(s, v)
      BY <2>1, <3>1, ListingStable
    <3> QED BY <3>1, <3>2
  <2> QED BY <1>0, <1>2, <2>2, <2>3 DEF Ledger!Occur, Ledger!CheckpointCovered
<1>3. CASE Ledger!Replay
  <2>1. UNCHANGED <<history, checkpoint>> /\ observed \subseteq observed'
    BY <1>3 DEF Ledger!Replay
  <2>2. \A s \in Streams : Ledger!Listing(s, checkpoint[s])' = Ledger!Listing(s, checkpoint[s])
    BY <2>1 DEF Ledger!Listing, Ledger!ChangesOf, Ledger!Newest
  <2> QED BY <1>0, <2>1, <2>2 DEF LedgerTypeOK, Ledger!CheckpointCovered
<1>4. ASSUME NEW s \in Streams, Ledger!Forget(s) \/ Ledger!Rebase(s) \/ Ledger!Ingest(s) \/ Ledger!Bookmark(s)
      PROVE  LedgerInv'
  <2>1. history \in Seq(Ledger!Change) /\ Len(history) \in Nat /\ checkpoint[s] \in 0..Len(history)
    BY <1>0 DEF LedgerTypeOK
  <2>2. Ledger!Listing(s, checkpoint[s]) \subseteq observed
    BY <1>0 DEF Ledger!CheckpointCovered
  <2>3. CASE Ledger!Forget(s)
    <3>1. 0 \in 0..Len(history) /\ Ledger!Listing(s, 0) \subseteq observed'
      BY <2>1, ListingEmpty
    <3>2. checkpoint' = [checkpoint EXCEPT ![s] = 0] /\ history' = history /\ observed \subseteq observed'
      BY <2>3 DEF Ledger!Forget
    <3> QED BY <3>1, <3>2, CheckpointMoves
  <2>4. CASE Ledger!Rebase(s)
    <3>1. PICK w \in Ledger!Revisions : /\ checkpoint' = [checkpoint EXCEPT ![s] = w]
                                 /\ observed' = observed \cup Ledger!Listing(s, w)
      BY <2>4 DEF Ledger!Rebase
    <3>2. w \in 0..Len(history)
      BY <2>1 DEF Ledger!Revisions
    <3> QED BY <2>4, <3>1, <3>2, CheckpointMoves DEF Ledger!Rebase
  <2>5. CASE Ledger!Ingest(s)
    <3>1. PICK w \in Ledger!Revisions : /\ Ledger!NextChange(s, checkpoint[s], w)
                                 /\ checkpoint' = [checkpoint EXCEPT ![s] = w]
                                 /\ observed' = observed \cup {w}
      BY <2>5 DEF Ledger!Ingest
    <3>2. w \in 0..Len(history)
      BY <2>1 DEF Ledger!Revisions
    <3>3. Ledger!Listing(s, w) \subseteq Ledger!Listing(s, checkpoint[s]) \cup {w}
      BY <2>1, <3>1, ListingIngest
    <3> QED BY <2>2, <2>5, <3>1, <3>2, <3>3, CheckpointMoves DEF Ledger!Ingest
  <2>6. CASE Ledger!Bookmark(s)
    <3>1. PICK w \in Ledger!Revisions : /\ w > checkpoint[s]
                                 /\ Ledger!ChangesOf(s, (checkpoint[s] + 1)..w) = {}
                                 /\ checkpoint' = [checkpoint EXCEPT ![s] = w]
      BY <2>6 DEF Ledger!Bookmark
    <3>2. w \in 0..Len(history) /\ w \in (checkpoint[s] + 1)..Len(history)
      BY <2>1, <3>1 DEF Ledger!Revisions
    <3>3. Ledger!Listing(s, w) \subseteq Ledger!Listing(s, checkpoint[s])
      BY <2>1, <3>1, <3>2, ListingBookmark
    <3> QED BY <2>2, <2>6, <3>1, <3>2, <3>3, CheckpointMoves DEF Ledger!Bookmark
  <2> QED BY <1>4, <2>3, <2>4, <2>5, <2>6
<1> QED BY <1>1, <1>2, <1>3, <1>4 DEF Ledger!LedgerNext

LEMMA LedgerInvariant == Ledger!LedgerSpec => []LedgerInv
  BY LedgerInitial, LedgerInductive, PTL DEF Ledger!LedgerSpec

-----------------------------------------------------------------------------
\* Whatever the Streams, the Objects and the length of the history, a ledger
\* never has a checkpoint ahead of what it stored.
THEOREM LedgerCovered == Ledger!LedgerSpec => []Ledger!CheckpointCovered
<1>1. LedgerInv => Ledger!CheckpointCovered
  BY DEF LedgerInv
<1> QED BY <1>1, LedgerInvariant, PTL

\* A step of the ledger that moves a checkpoint forward from a position stores
\* everything it moves over.
LEMMA StepSkipsNothing ==
    ASSUME LedgerInv, Ledger!LedgerNext
    PROVE  \A s \in Streams :
             checkpoint[s] # 0 /\ checkpoint'[s] > checkpoint[s]
             => Ledger!ChangesOf(s, (checkpoint[s] + 1)..checkpoint'[s]) \subseteq observed'
<1> SUFFICES ASSUME NEW s \in Streams, checkpoint[s] # 0, checkpoint'[s] > checkpoint[s]
             PROVE  Ledger!ChangesOf(s, (checkpoint[s] + 1)..checkpoint'[s]) \subseteq observed'
  OBVIOUS
<1>1. checkpoint \in [Streams -> 0..Len(history)]
  BY DEF LedgerInv, LedgerTypeOK
<1>2. Ledger!Ingest(s) \/ Ledger!Bookmark(s)
  <2>1. ASSUME NEW t \in Streams, Ledger!Forget(t) \/ Ledger!Rebase(t) \/ Ledger!Ingest(t) \/ Ledger!Bookmark(t)
        PROVE  t = s /\ (Ledger!Ingest(s) \/ Ledger!Bookmark(s))
    <3>1. t = s
      BY <1>1, <2>1 DEF Ledger!Forget, Ledger!Rebase, Ledger!Ingest, Ledger!Bookmark
    <3>2. ~Ledger!Forget(s)
      BY <1>1 DEF Ledger!Forget
    <3>3. ~Ledger!Rebase(s)
      BY DEF Ledger!Rebase
    <3> QED BY <2>1, <3>1, <3>2, <3>3
  <2>2. ~Ledger!Occur /\ ~Ledger!Replay
    BY <1>1 DEF Ledger!Occur, Ledger!Replay
  <2> QED BY <2>1, <2>2 DEF Ledger!LedgerNext
<1>3. CASE Ledger!Ingest(s)
  <2>1. PICK i \in Ledger!Revisions : /\ Ledger!NextChange(s, checkpoint[s], i)
                               /\ checkpoint' = [checkpoint EXCEPT ![s] = i]
                               /\ observed' = observed \cup {i}
    BY <1>3 DEF Ledger!Ingest
  <2>2. checkpoint'[s] = i
    BY <1>1, <2>1
  <2>3. \A k \in (checkpoint[s] + 1)..i : k = i \/ k \in (checkpoint[s] + 1)..(i - 1)
    BY <1>1, <2>1 DEF Ledger!Revisions
  <2> QED BY <2>1, <2>2, <2>3 DEF Ledger!NextChange, Ledger!ChangesOf
<1>4. CASE Ledger!Bookmark(s)
  <2>1. PICK w \in Ledger!Revisions : /\ Ledger!ChangesOf(s, (checkpoint[s] + 1)..w) = {}
                               /\ checkpoint' = [checkpoint EXCEPT ![s] = w]
    BY <1>4 DEF Ledger!Bookmark
  <2> QED BY <1>1, <2>1
<1> QED BY <1>2, <1>3, <1>4

\* A ledger skips no change of a stream between two positions.
THEOREM LedgerSkipsNothing == Ledger!LedgerSpec => Ledger!NothingSkipped
<1>1. LedgerInv /\ [Ledger!LedgerNext]_(Ledger!ledgerVars)
      => [\A s \in Streams :
            checkpoint[s] # 0 /\ checkpoint'[s] > checkpoint[s]
            => Ledger!ChangesOf(s, (checkpoint[s] + 1)..checkpoint'[s]) \subseteq observed']_(Ledger!ledgerVars)
  BY StepSkipsNothing
<1> QED BY <1>1, LedgerInvariant, PTL DEF Ledger!LedgerSpec, Ledger!NothingSkipped

-----------------------------------------------------------------------------
(* Type correctness.                                                        *)

LEMMA TypeInitial == Init => TypeOK
<1> SUFFICES ASSUME Init PROVE TypeOK
  OBVIOUS
<1>1. history \in Seq(Ledger!Change)
  <2>1. PICK c \in Ledger!Change : history = <<c>>
    BY DEF Init
  <2> QED BY <2>1
<1>2. approved \in SUBSET Streams
  BY CollectorAssumption DEF Init
<1>3. 0 \in 0..MaxReconnectAttempts
  BY CollectorAssumption
<1> QED BY <1>1, <1>2, <1>3 DEF Init, TypeOK, RunnerStates, Settled

\* A blank process is well typed.
LEMMA TypeBlank ==
    ASSUME TypeOK, Blank, runner' \in RunnerStates, UNCHANGED <<cluster, database>>
    PROVE  TypeOK'
<1>1. 0 \in 0..MaxReconnectAttempts
  BY CollectorAssumption
<1> QED BY <1>1 DEF TypeOK, Blank, Settled, cluster, database

LEMMA TypeEnvironment ==
    ASSUME TypeOK, ClusterChange \/ Compact \/ SaveScope
    PROVE  TypeOK'
<1>1. CASE ClusterChange
  BY <1>1 DEF ClusterChange, TypeOK, database, process, streams
<1>2. CASE Compact
  BY <1>2 DEF Compact, TypeOK, database, process, streams
<1>3. CASE SaveScope
  BY <1>3, CollectorAssumption DEF SaveScope, TypeOK, cluster, process, streams
<1> QED BY <1>1, <1>2, <1>3

LEMMA TypeRunner ==
    ASSUME TypeOK,
           \/ Boot \/ CollectList \/ CollectCommit \/ StartWithoutScope \/ StartStreams
           \/ StartFails \/ AbortIteration \/ NextIteration \/ FailWatch \/ FailExhausted \/ Stop
    PROVE  TypeOK'
<1> USE DEF TypeOK, RunnerStates, cluster, database, streams
<1>1. CASE Boot BY <1>1 DEF Boot
<1>2. CASE CollectList
  <2>1. Len(history) \in Nat
    OBVIOUS
  <2> QED BY <1>2, <2>1 DEF CollectList
<1>3. CASE CollectCommit
  <2>1. Collected \subseteq Nat
    BY DEF Collected, Ledger!Listing, Ledger!ChangesOf
  <2> QED BY <1>3, <2>1 DEF CollectCommit
<1>4. CASE StartWithoutScope BY <1>4 DEF StartWithoutScope
<1>5. CASE StartStreams
  <2>1. 0 \in 0..MaxReconnectAttempts
    BY CollectorAssumption
  <2> QED BY <1>5, <2>1 DEF StartStreams, Settled, Abortable
<1>6. CASE StartFails BY <1>6 DEF StartFails
<1>7. CASE AbortIteration BY <1>7 DEF AbortIteration
<1>8. CASE NextIteration BY <1>8 DEF NextIteration
<1>9. CASE FailWatch BY <1>9 DEF FailWatch
<1>10. CASE FailExhausted BY <1>10 DEF FailExhausted
<1>11. CASE Stop BY <1>11 DEF Stop
<1> QED BY <1>1, <1>2, <1>3, <1>4, <1>5, <1>6, <1>7, <1>8, <1>9, <1>10, <1>11

\* A transaction keeps the database well typed.
LEMMA TypeTransact ==
    ASSUME TypeOK, NEW s \in Streams, Transact(s)
    PROVE  /\ checkpoint' \in [Streams -> Nat]
           /\ observed' \in SUBSET Nat
           /\ history' \in Seq(Ledger!Change) /\ compacted' \in Nat /\ approved' \in SUBSET Streams
<1>1. \A a, b \in Nat : Larger(a, b) \in Nat
  BY DEF Larger
<1>2. Ledger!Listing(s, held[s]) \subseteq Nat
  BY DEF Ledger!Listing, Ledger!ChangesOf
<1>3. checkpoint[s] \in Nat /\ held[s] \in Nat /\ checkpoint \in [Streams -> Nat] /\ observed \subseteq Nat
  BY DEF TypeOK
<1>4. \/ \E revisions \in SUBSET Nat, v \in Nat : Record(s, revisions, v)
      \/ checkpoint' = [checkpoint EXCEPT ![s] = 0] /\ observed' = observed
  BY <1>2, <1>3 DEF Transact, Persist
<1>5. checkpoint' \in [Streams -> Nat] /\ observed' \subseteq Nat
  <2>1. CASE checkpoint' = [checkpoint EXCEPT ![s] = 0] /\ observed' = observed
    BY <1>3, <2>1
  <2>2. ASSUME NEW revisions \in SUBSET Nat, NEW v \in Nat, Record(s, revisions, v)
        PROVE  checkpoint' \in [Streams -> Nat] /\ observed' \subseteq Nat
    <3>1. Larger(checkpoint[s], v) \in Nat
      BY <1>1, <1>3
    <3> QED BY <1>3, <2>2, <3>1 DEF Record
  <2> QED BY <1>4, <2>1, <2>2
<1> QED BY <1>5 DEF TypeOK, Transact, Persist, cluster

\* Where a stream can go.
LEMMA TypeGoto ==
    ASSUME TypeOK, NEW s \in Streams, NEW place \in Settled \cup Writing \cup Abortable, Goto(s, place)
    PROVE  pc' \in [Streams -> Settled \cup Writing \cup Abortable]
  BY DEF TypeOK, Goto

LEMMA TypeReject ==
    ASSUME TypeOK, NEW s \in Streams, NEW kind \in {"scopeChanged", "fatal"}, Reject(s, kind)
    PROVE  /\ pc' \in [Streams -> Settled \cup Writing \cup Abortable]
           /\ verdict' \in {"none", "scopeChanged", "fatal"}
  BY TypeGoto DEF TypeOK, Reject, Settled

\* Every action of a stream keeps the types.
LEMMA TypeStream ==
    ASSUME TypeOK, NEW s \in Streams,
           \/ StreamStep(s) \/ DeliverBookmark(s) \/ Redeliver(s) \/ StreamBreaks(s)
           \/ ReadFails(s) \/ Malformed(s) \/ CommitFails(s)
    PROVE  TypeOK'
<1> USE DEF cluster, database, KeepStream, KeepRunner, KeepSignals
<1> DEFINE Places == Settled \cup Writing \cup Abortable
<1>1. \A place \in {"returned", "exhausted", "rejected", "loop", "list", "open", "gone", "next",
                     "gotChange", "gotBookmark", "commitList", "commitChange", "commitBookmark",
                     "broken", "timedOut", "clear", "backoff"} : place \in Places
  BY DEF Settled, Writing, Abortable
<1>2. \A place \in Places : Goto(s, place) => pc' \in [Streams -> Places]
  BY TypeGoto
<1>3. \A kind \in {"scopeChanged", "fatal"} :
        Reject(s, kind) => pc' \in [Streams -> Places] /\ verdict' \in {"none", "scopeChanged", "fatal"}
  BY TypeReject
<1> HIDE DEF Places
<1>10. CASE Abandon(s)
  BY <1>1, <1>2, <1>3, <1>10 DEF Abandon, TypeOK, Places
<1>11. CASE LoadCheckpoint(s)
  <2>1. checkpoint[s] \in Nat
    BY DEF TypeOK
  <2> QED BY <1>1, <1>2, <1>11, <2>1 DEF LoadCheckpoint, TypeOK, Places
<1>12. CASE CheckScope(s)
  BY <1>1, <1>2, <1>3, <1>12 DEF CheckScope, TypeOK, Places
<1>13. CASE List(s)
  <2>1. Len(history) \in Nat
    BY DEF TypeOK
  <2> QED BY <1>1, <1>2, <1>13, <2>1 DEF List, TypeOK, Places
<1>14. CASE OpenWatch(s)
  <2>1. version[s] \in Nat
    BY DEF TypeOK
  <2> QED BY <1>1, <1>2, <1>14, <2>1 DEF OpenWatch, TypeOK, Places
<1>15. ASSUME NEW i \in Nat, NEW place \in {"gotChange", "gotBookmark"}, Receive(s, place, i),
              cursor' \in [Streams -> Nat]
       PROVE  TypeOK'
  BY <1>1, <1>2, <1>15 DEF Receive, TypeOK, Places
<1>16. \A i \in Nat : [cursor EXCEPT ![s] = i] \in [Streams -> Nat]
  BY DEF TypeOK
<1>17. Len(history) \in Nat /\ cursor[s] \in Nat /\ cursor \in [Streams -> Nat]
  BY DEF TypeOK
<1>18. CASE DeliverChange(s)
  <2>1. PICK i \in Revisions : Receive(s, "gotChange", i) /\ cursor' = [cursor EXCEPT ![s] = i]
    BY <1>18 DEF DeliverChange
  <2>2. i \in Nat
    BY <1>17 DEF Revisions, Ledger!Revisions
  <2> QED BY <1>15, <1>16, <2>1, <2>2
<1>19. CASE DeliverBookmark(s)
  <2>1. PICK i \in (cursor[s] + 1)..Len(history) :
          Receive(s, "gotBookmark", i) /\ cursor' = [cursor EXCEPT ![s] = i]
    BY <1>19 DEF DeliverBookmark
  <2> QED BY <1>15, <1>16, <1>17, <2>1
<1>20. CASE Redeliver(s)
  <2>1. cursor' \in [Streams -> Nat]
    BY <1>17, <1>20 DEF Redeliver
  <2>2. PICK i \in 1..cursor[s] : Receive(s, "gotChange", i) \/ Receive(s, "gotBookmark", i)
    BY <1>20 DEF Redeliver, Ledger!ChangesOf
  <2> QED BY <1>15, <1>17, <2>1, <2>2
<1>21. CASE CheckEventScope(s)
  BY <1>1, <1>2, <1>3, <1>21 DEF CheckEventScope, TypeOK, Places
<1>22. CASE Commit(s)
  <2>1. /\ checkpoint' \in [Streams -> Nat] /\ observed' \in SUBSET Nat
        /\ history' \in Seq(Ledger!Change) /\ compacted' \in Nat /\ approved' \in SUBSET Streams
    BY <1>22, TypeTransact DEF Commit
  <2>2. version' \in [Streams -> Nat] /\ relist' \in [Streams -> BOOLEAN]
    BY <1>22 DEF Commit, TypeOK
  <2>3. attempts' \in [Streams -> 0..MaxReconnectAttempts]
    <3>1. 0 \in 0..MaxReconnectAttempts
      BY CollectorAssumption
    <3> QED BY <1>22, <3>1 DEF Commit, TypeOK
  <2>4. pc' \in [Streams -> Places]
    BY <1>1, <1>2, <1>22 DEF Commit
  <2>5. ready' \in BOOLEAN
    BY <1>22 DEF Commit, TypeOK
  <2>6. UNCHANGED <<runner, scope, aborted, cursor, held, verdict, failed>>
    BY <1>22 DEF Commit
  <2> QED BY <2>1, <2>2, <2>3, <2>4, <2>5, <2>6 DEF TypeOK, Places
<1>23. PersistenceError(s) => pc' \in [Streams -> Places] /\ verdict' \in {"none", "scopeChanged", "fatal"}
  BY <1>1, <1>2, <1>3 DEF PersistenceError, TypeOK
<1>24. CASE CommitRefused(s)
  BY <1>23, <1>24 DEF CommitRefused, TypeOK, Places
<1>25. CASE CommitFails(s)
  <2>1. /\ checkpoint' \in [Streams -> Nat] /\ observed' \in SUBSET Nat
        /\ history' \in Seq(Ledger!Change) /\ compacted' \in Nat /\ approved' \in SUBSET Streams
    BY <1>25, TypeTransact DEF CommitFails, TypeOK
  <2> QED BY <1>23, <1>25, <2>1 DEF CommitFails, TypeOK, Places
<1>26. CASE StreamBreaks(s)
  BY <1>1, <1>2, <1>26 DEF StreamBreaks, TypeOK, Places
<1>27. CASE ReadFails(s)
  BY <1>1, <1>2, <1>3, <1>27 DEF ReadFails, TypeOK, Places
<1>28. CASE Malformed(s)
  BY <1>3, <1>28 DEF Malformed, TypeOK, Places
<1>29. CASE Recover(s)
  <2>1. attempts' \in [Streams -> 0..MaxReconnectAttempts]
    <3>1. attempts[s] + 1 \in 0..MaxReconnectAttempts
      BY <1>29, CollectorAssumption DEF Recover, TypeOK
    <3> QED BY <1>29, <3>1 DEF Recover, TypeOK
  <2>2. version' \in [Streams -> Nat] /\ relist' \in [Streams -> BOOLEAN]
    BY <1>29 DEF Recover, TypeOK
  <2>3. pc' \in [Streams -> Places]
    BY <1>1, <1>2, <1>29 DEF Recover
  <2>4. UNCHANGED <<cursor, held, verdict, history, compacted, approved, checkpoint, observed,
                     runner, scope, aborted, ready, failed>>
    BY <1>29 DEF Recover
  <2> QED BY <2>1, <2>2, <2>3, <2>4 DEF TypeOK, Places
<1>30. CASE RecoverScopeChanged(s)
  BY <1>3, <1>30 DEF RecoverScopeChanged, TypeOK, Places
<1>31. CASE Exhaust(s)
  BY <1>1, <1>2, <1>31 DEF Exhaust, TypeOK, Places
<1>32. CASE WakeUp(s)
  BY <1>1, <1>2, <1>32 DEF WakeUp, TypeOK, Places
<1> QED BY <1>10, <1>11, <1>12, <1>13, <1>14, <1>18, <1>19, <1>20, <1>21, <1>22, <1>24, <1>25,
           <1>26, <1>27, <1>28, <1>29, <1>30, <1>31, <1>32 DEF StreamStep

\* The three kinds of step, and the stutter.
LEMMA StepCases ==
    ASSUME [Next]_vars
    PROVE  \/ UNCHANGED vars
           \/ ClusterChange \/ Compact \/ SaveScope
           \/ /\ runner' = "down"
              /\ Blank
              /\ UNCHANGED <<cluster, database>>
           \/ Boot \/ CollectList \/ CollectCommit \/ StartWithoutScope \/ StartStreams
           \/ StartFails \/ AbortIteration \/ NextIteration \/ FailWatch \/ FailExhausted \/ Stop
           \/ \E s \in Streams :
                \/ StreamStep(s) \/ DeliverBookmark(s) \/ Redeliver(s) \/ StreamBreaks(s)
                \/ ReadFails(s) \/ Malformed(s) \/ CommitFails(s)
<1>1. CollectFails \/ Exit \/ Crash
      => runner' = "down" /\ Blank /\ UNCHANGED <<cluster, database>>
  BY DEF CollectFails, Exit, Crash
<1>2. CASE RunnerStep
  BY <1>1, <1>2 DEF RunnerStep
<1>3. CASE Environment
  BY <1>1, <1>3 DEF Environment
<1> QED BY <1>2, <1>3 DEF Next

LEMMA TypeStep == TypeOK /\ [Next]_vars => TypeOK'
<1> SUFFICES ASSUME TypeOK, [Next]_vars PROVE TypeOK'
  OBVIOUS
<1>1. CASE UNCHANGED vars
  BY <1>1 DEF vars, cluster, database, process, streams, TypeOK
<1>2. CASE runner' = "down" /\ Blank /\ UNCHANGED <<cluster, database>>
  BY <1>2, TypeBlank DEF RunnerStates
<1> QED BY <1>1, <1>2, StepCases, TypeEnvironment, TypeRunner, TypeStream

-----------------------------------------------------------------------------
(* The inductive invariant.                                                 *)

\* What WatchInv says of one stream.
StreamInv(s) ==
    /\ pc[s] \in (Abortable \cup Writing) \ {"load", "clear"} => version[s] = checkpoint[s]
    /\ pc[s] \in {"list", "commitList", "clear"} => relist[s] /\ version[s] = 0
    /\ pc[s] \in {"open", "next", "gotChange", "gotBookmark", "commitChange", "commitBookmark"}
       => ~relist[s] /\ version[s] # 0
    /\ pc[s] \in {"loop", "backoff", "broken", "timedOut", "gone"}
       => (relist[s] <=> version[s] = 0)
    /\ pc[s] = "next" => cursor[s] = version[s]
    /\ pc[s] \in {"gotChange", "commitChange"}
       => /\ held[s] \in Ledger!ChangesOf(s, Revisions)
          /\ held[s] > version[s] => Ledger!ChangesOf(s, (version[s] + 1)..(held[s] - 1)) = {}
    /\ pc[s] \in {"gotBookmark", "commitBookmark"}
       => /\ held[s] \in Revisions
          /\ Ledger!ChangesOf(s, (version[s] + 1)..held[s]) = {}
    /\ pc[s] \in {"gotChange", "gotBookmark", "commitChange", "commitBookmark"}
       => cursor[s] = Larger(version[s], held[s])
    /\ pc[s] = "commitBookmark" => held[s] > version[s]
    /\ checkpoint[s] <= Len(history)
    /\ pc[s] = "commitList" => held[s] \in Revisions

\* What WatchInv says of the process.
ProcessInv ==
    /\ Revisions # {}
    /\ runner = "collectCommit" => \A s \in Streams : held[s] <= Len(history)
    /\ QuietBetweenIterations

LEMMA WatchInvParts == WatchInv <=> ProcessInv /\ \A s \in Streams : StreamInv(s)
  BY DEF WatchInv, ProcessInv, StreamInv, PositionIsDurable, RelistHasNoPosition, EventIsNext, PositionsExist

LEMMA WatchInvPrimed == WatchInv' <=> ProcessInv' /\ \A s \in Streams : StreamInv(s)'
  BY DEF WatchInv, ProcessInv, StreamInv, PositionIsDurable, RelistHasNoPosition, EventIsNext, PositionsExist

\* The variables of a stream.
SameStream(t) ==
    /\ pc'[t] = pc[t] /\ version'[t] = version[t] /\ relist'[t] = relist[t]
    /\ cursor'[t] = cursor[t] /\ held'[t] = held[t] /\ checkpoint'[t] = checkpoint[t]

LEMMA StreamFrame ==
    ASSUME NEW t \in Streams, StreamInv(t), SameStream(t), history' = history
    PROVE  StreamInv(t)'
  BY DEF StreamInv, SameStream, Ledger!ChangesOf, Revisions, Ledger!Revisions

\* A stream that is not working only owes its checkpoint.
LEMMA StreamIdle ==
    ASSUME NEW t \in Streams, pc'[t] \in Settled \cup {"load"}, checkpoint'[t] <= Len(history')
    PROVE  StreamInv(t)'
  BY DEF StreamInv, Settled, Abortable, Writing

\* A longer history keeps what a stream knows.
LEMMA StreamHistory ==
    ASSUME TypeOK, NEW t \in Streams, StreamInv(t), SameStream(t),
           NEW c \in Ledger!Change, history' = Append(history, c)
    PROVE  StreamInv(t)'
<1>1. Len(history) \in Nat /\ Len(history') = Len(history) + 1
  BY DEF TypeOK
<1>2. \A i \in 1..Len(history) : history'[i] = history[i]
  BY <1>1 DEF TypeOK
<1>3. version[t] \in Nat /\ held[t] \in Nat /\ checkpoint[t] \in Nat
  BY DEF TypeOK
<1>4. Revisions \subseteq Revisions'
  BY <1>1 DEF Revisions, Ledger!Revisions
<1>5. \A from \in Nat \ {0}, to \in 0..Len(history) :
        {i \in from..to : history'[i].stream = t} = {i \in from..to : history[i].stream = t}
  <2>1. SUFFICES ASSUME NEW from \in Nat \ {0}, NEW to \in 0..Len(history)
                 PROVE  \A i \in from..to : history'[i] = history[i]
    OBVIOUS
  <2>2. \A i \in from..to : i \in 1..Len(history)
    BY <1>1
  <2> QED BY <1>2, <2>2
<1>6. held[t] \in Ledger!ChangesOf(t, Revisions) => (held[t] \in Ledger!ChangesOf(t, Revisions))'
  BY <1>1, <1>2 DEF Ledger!ChangesOf, Revisions, Ledger!Revisions, SameStream
<1>7. CASE pc[t] \in {"gotChange", "commitChange"}
  <2>1. held[t] \in 1..Len(history)
    BY <1>7 DEF StreamInv, Ledger!ChangesOf, Revisions, Ledger!Revisions
  <2>2. Ledger!ChangesOf(t, (version[t] + 1)..(held[t] - 1))' = Ledger!ChangesOf(t, (version[t] + 1)..(held[t] - 1))
    <3>1. version[t] + 1 \in Nat \ {0} /\ held[t] - 1 \in 0..Len(history)
      BY <1>1, <1>3, <2>1
    <3> QED BY <1>5, <3>1 DEF SameStream, Ledger!ChangesOf
  <2> QED BY <1>1, <1>3, <1>6, <1>7, <2>2 DEF StreamInv, SameStream, Larger
<1>8. CASE pc[t] \in {"gotBookmark", "commitBookmark"}
  <2>1. held[t] \in 1..Len(history)
    BY <1>8 DEF StreamInv, Revisions, Ledger!Revisions
  <2>2. Ledger!ChangesOf(t, (version[t] + 1)..held[t])' = Ledger!ChangesOf(t, (version[t] + 1)..held[t])
    <3>1. version[t] + 1 \in Nat \ {0} /\ held[t] \in 0..Len(history)
      BY <1>1, <1>3, <2>1
    <3> QED BY <1>5, <3>1 DEF SameStream, Ledger!ChangesOf
  <2> QED BY <1>1, <1>3, <1>4, <1>8, <2>2 DEF StreamInv, SameStream, Larger
<1>9. CASE pc[t] \notin {"gotChange", "commitChange", "gotBookmark", "commitBookmark"}
  BY <1>1, <1>3, <1>4, <1>9 DEF StreamInv, SameStream
<1> QED BY <1>7, <1>8, <1>9

LEMMA WatchInitial == Init => WatchInv
<1> SUFFICES ASSUME Init PROVE ProcessInv /\ \A s \in Streams : StreamInv(s)
  BY WatchInvParts
<1>1. Len(history) = 1
  <2>1. PICK c \in Ledger!Change : history = <<c>>
    BY DEF Init
  <2> QED BY <2>1
<1>2. ProcessInv
  BY <1>1 DEF Init, ProcessInv, Revisions, Ledger!Revisions, QuietBetweenIterations, AllSettled, Settled
<1>3. ASSUME NEW s \in Streams PROVE StreamInv(s)
  BY <1>1 DEF Init, StreamInv, Settled, Abortable, Writing
<1> QED BY <1>2, <1>3

LEMMA WatchEnvironment ==
    ASSUME TypeOK, WatchInv, UNCHANGED vars \/ ClusterChange \/ Compact \/ SaveScope
    PROVE  WatchInv'
<1>1. ProcessInv /\ \A t \in Streams : StreamInv(t)
  BY WatchInvParts
<1>2. runner' = runner /\ UNCHANGED streams /\ checkpoint' = checkpoint
  BY DEF vars, ClusterChange, Compact, SaveScope, database, process
<1>3. \A t \in Streams : SameStream(t)
  BY <1>2 DEF SameStream, streams
<1>4. history' = history \/ \E c \in Ledger!Change : history' = Append(history, c)
  BY DEF vars, cluster, ClusterChange, Compact, SaveScope
<1>5. \A t \in Streams : StreamInv(t)'
  BY <1>1, <1>3, <1>4, StreamFrame, StreamHistory
<1>6. ProcessInv'
  <2>1. Len(history) \in Nat /\ Len(history') \in Nat /\ Len(history') >= Len(history)
    BY <1>4 DEF TypeOK
  <2>2. \A t \in Streams : held[t] \in Nat
    BY DEF TypeOK
  <2> QED BY <1>1, <1>2, <2>1, <2>2
          DEF ProcessInv, Revisions, Ledger!Revisions, QuietBetweenIterations, AllSettled, streams
<1> QED BY <1>5, <1>6, WatchInvPrimed

LEMMA WatchBlank ==
    ASSUME TypeOK, WatchInv, runner' = "down", Blank, UNCHANGED <<cluster, database>>
    PROVE  WatchInv'
<1>1. ProcessInv /\ \A t \in Streams : StreamInv(t)
  BY WatchInvParts
<1>2. history' = history /\ checkpoint' = checkpoint
  BY DEF cluster, database
<1>3. \A t \in Streams : pc'[t] \in Settled /\ checkpoint'[t] <= Len(history')
  BY <1>1, <1>2 DEF Blank, Settled, StreamInv
<1>4. ProcessInv'
  BY <1>1, <1>2, <1>3 DEF ProcessInv, Revisions, Ledger!Revisions, QuietBetweenIterations, AllSettled
<1> QED BY <1>3, <1>4, StreamIdle, WatchInvPrimed

LEMMA WatchRunner ==
    ASSUME TypeOK, WatchInv,
           \/ Boot \/ CollectList \/ CollectCommit \/ StartWithoutScope \/ StartStreams
           \/ StartFails \/ AbortIteration \/ NextIteration \/ FailWatch \/ FailExhausted \/ Stop
    PROVE  WatchInv'
<1>1. ProcessInv /\ \A t \in Streams : StreamInv(t)
  BY WatchInvParts
<1> SUFFICES ProcessInv' /\ \A t \in Streams : StreamInv(t)'
  BY WatchInvPrimed
<1>2. history' = history /\ checkpoint' = checkpoint
  BY DEF Boot, CollectList, CollectCommit, StartWithoutScope, StartStreams, StartFails, AbortIteration,
         NextIteration, FailWatch, FailExhausted, Stop, cluster, database
<1>3. (Revisions # {})'
  BY <1>1, <1>2 DEF ProcessInv, Revisions, Ledger!Revisions
<1>4. CASE StartStreams
  <2>1. \A t \in Streams : pc'[t] \in Settled \cup {"load"} /\ checkpoint'[t] <= Len(history')
    BY <1>1, <1>2, <1>4 DEF StartStreams, StreamInv, Settled
  <2>2. ProcessInv'
    BY <1>3, <1>4 DEF StartStreams, ProcessInv, QuietBetweenIterations
  <2> QED BY <2>1, <2>2, StreamIdle
<1>5. CASE CollectList
  <2>1. AllSettled /\ pc' = pc
    BY <1>1, <1>5 DEF CollectList, ProcessInv, QuietBetweenIterations
  <2>2. \A t \in Streams : pc'[t] \in Settled /\ checkpoint'[t] <= Len(history')
    BY <1>1, <1>2, <2>1 DEF StreamInv, AllSettled
  <2>3. \A t \in Streams : held'[t] <= Len(history')
    <3>1. Len(history) \in Nat
      BY DEF TypeOK
    <3> QED BY <1>2, <1>5, <3>1 DEF CollectList
  <2>4. ProcessInv'
    BY <1>3, <2>2, <2>3 DEF ProcessInv, QuietBetweenIterations, AllSettled
  <2> QED BY <2>2, <2>4, StreamIdle
<1>6. CASE ~StartStreams /\ ~CollectList
  <2>1. UNCHANGED streams
    BY <1>6 DEF Boot, CollectCommit, StartWithoutScope, StartFails, AbortIteration, NextIteration,
                FailWatch, FailExhausted, Stop
  <2>2. \A t \in Streams : SameStream(t)
    BY <1>2, <2>1 DEF SameStream, streams
  <2>3. /\ runner' # "collectCommit"
        /\ runner' \in {"collect", "start", "done"} => AllSettled
        /\ runner' # "down"
    BY <1>1, <1>6 DEF Boot, CollectCommit, StartWithoutScope, StartFails, AbortIteration, NextIteration,
                FailWatch, FailExhausted, Stop, ProcessInv, QuietBetweenIterations
  <2>4. ProcessInv'
    BY <1>3, <2>1, <2>3 DEF ProcessInv, QuietBetweenIterations, AllSettled, streams
  <2> QED BY <1>1, <1>2, <2>2, <2>4, StreamFrame
<1> QED BY <1>4, <1>5, <1>6

\* A step of one working stream only has to keep that stream's part.
LEMMA StreamMoves ==
    ASSUME WatchInv, NEW s \in Streams, pc[s] \notin Settled, runner' = runner, history' = history,
           \A t \in Streams \ {s} : SameStream(t), StreamInv(s)'
    PROVE  WatchInv'
<1>1. ProcessInv /\ \A t \in Streams : StreamInv(t)
  BY WatchInvParts
<1>2. \A t \in Streams : StreamInv(t)'
  BY <1>1, StreamFrame
<1>3. runner \notin {"down", "collect", "collectCommit", "start", "done"}
  BY <1>1 DEF ProcessInv, QuietBetweenIterations, AllSettled
<1>4. ProcessInv'
  BY <1>1, <1>3 DEF ProcessInv, QuietBetweenIterations, Revisions, Ledger!Revisions
<1> QED BY <1>2, <1>4, WatchInvPrimed

\* What a transaction does to its stream, and that it is a step of the ledger.
LEMMA TransactFacts ==
    ASSUME TypeOK, WatchInv, NEW s \in Streams, Transact(s)
    PROVE  /\ pc[s] \in Writing
           /\ history' = history
           /\ \A t \in Streams \ {s} : checkpoint'[t] = checkpoint[t]
           /\ checkpoint'[s] <= Len(history)
           /\ pc[s] = "clear" => checkpoint'[s] = 0
           /\ pc[s] # "clear" => checkpoint'[s] = IF Advances(s) THEN held[s] ELSE version[s]
           /\ Ledger!Forget(s) \/ Ledger!Rebase(s) \/ Ledger!Ingest(s) \/ Ledger!Bookmark(s) \/ Ledger!Replay
<1>1. StreamInv(s)
  BY WatchInvParts
<1>2. /\ checkpoint[s] \in Nat /\ version[s] \in Nat /\ held[s] \in Nat
      /\ checkpoint \in [Streams -> Nat] /\ Len(history) \in Nat
  BY DEF TypeOK
<1>3. history' = history
  BY DEF Transact, Persist, cluster
<1>4. \A a, b \in Nat : /\ Larger(a, b) = IF a > b THEN a ELSE b
                        /\ Larger(a, 0) = a
  BY DEF Larger
<1>5. checkpoint[s] <= Len(history) /\ (pc[s] \in Writing \ {"clear"} => version[s] = checkpoint[s])
  BY <1>1 DEF StreamInv, Writing
<1>6. CASE pc[s] = "clear"
  BY <1>2, <1>3, <1>6 DEF Transact, Persist, Ledger!Forget, Writing
<1>7. CASE pc[s] = "commitList"
  <2>1. version[s] = 0 /\ checkpoint[s] = 0 /\ held[s] \in Revisions
    BY <1>1, <1>5, <1>7 DEF StreamInv, Writing
  <2>2. Record(s, Ledger!Listing(s, held[s]), held[s])
    BY <1>7 DEF Transact, Persist
  <2>3. held[s] > 0 /\ held[s] <= Len(history)
    BY <1>2, <2>1 DEF Revisions, Ledger!Revisions
  <2>4. checkpoint' = [checkpoint EXCEPT ![s] = held[s]]
    <3>1. Larger(checkpoint[s], held[s]) = held[s]
      BY <1>2, <2>1, <2>2, <2>3 DEF Larger
    <3> QED BY <3>1, <2>1, <2>2, <2>3 DEF Record
  <2>5. Ledger!Rebase(s)
    BY <1>3, <2>1, <2>2, <2>4 DEF Ledger!Rebase, Record, Revisions
  <2>6. Advances(s)
    BY <1>7, <2>1, <2>3 DEF Advances
  <2> QED BY <1>2, <1>3, <1>7, <2>3, <2>4, <2>5, <2>6 DEF Writing
<1>8. CASE pc[s] = "commitChange" /\ held[s] > version[s]
  <2>1. /\ version[s] = checkpoint[s] /\ version[s] # 0
        /\ held[s] \in Ledger!ChangesOf(s, Revisions)
        /\ Ledger!ChangesOf(s, (version[s] + 1)..(held[s] - 1)) = {}
    BY <1>1, <1>5, <1>8 DEF StreamInv, Writing
  <2>2. held[s] \in Revisions
    BY <2>1 DEF Ledger!ChangesOf
  <2>3. held[s] <= Len(history)
    BY <1>2, <2>2 DEF Revisions, Ledger!Revisions
  <2>4. Record(s, {held[s]}, held[s])
    BY <1>2, <1>8 DEF Transact, Persist
  <2>5. checkpoint' = [checkpoint EXCEPT ![s] = held[s]] /\ observed' = observed \cup {held[s]}
    <3>1. Larger(checkpoint[s], held[s]) = held[s]
      BY <1>2, <1>8, <2>1, <2>4 DEF Larger
    <3> QED BY <3>1, <2>1, <2>4 DEF Record
  <2>6. Ledger!NextChange(s, checkpoint[s], held[s])
    <3>1. held[s] \in (checkpoint[s] + 1)..Len(history)
      BY <1>2, <1>8, <2>1, <2>3
    <3> QED BY <2>1, <3>1 DEF Ledger!NextChange, Ledger!ChangesOf
  <2>7. Ledger!Ingest(s)
    BY <1>3, <2>1, <2>2, <2>5, <2>6 DEF Ledger!Ingest, Revisions
  <2>8. Advances(s)
    BY <1>8 DEF Advances
  <2> QED BY <1>2, <1>3, <1>8, <2>3, <2>5, <2>7, <2>8 DEF Writing
<1>9. CASE pc[s] = "commitChange" /\ ~(held[s] > version[s])
  <2>1. version[s] = checkpoint[s] /\ held[s] \in Revisions
    BY <1>1, <1>5, <1>9 DEF StreamInv, Writing, Ledger!ChangesOf
  <2>2. Record(s, {held[s]}, 0)
    BY <1>2, <1>9 DEF Transact, Persist
  <2>3. checkpoint' = checkpoint /\ observed' = observed \cup {held[s]}
    BY <1>2, <1>4, <2>2 DEF Record
  <2>4. Ledger!Replay
    BY <1>3, <2>1, <2>3 DEF Ledger!Replay, Revisions
  <2>5. ~Advances(s)
    BY <1>9 DEF Advances
  <2> QED BY <1>3, <1>5, <1>9, <2>1, <2>3, <2>4, <2>5 DEF Writing
<1>10. CASE pc[s] = "commitBookmark"
  <2>1. /\ version[s] = checkpoint[s] /\ version[s] # 0 /\ held[s] \in Revisions
        /\ Ledger!ChangesOf(s, (version[s] + 1)..held[s]) = {} /\ held[s] > version[s]
    BY <1>1, <1>5, <1>10 DEF StreamInv, Writing
  <2>2. Record(s, {}, held[s]) /\ held[s] <= Len(history)
    BY <1>2, <1>10, <2>1 DEF Transact, Persist, Revisions, Ledger!Revisions
  <2>3. checkpoint' = [checkpoint EXCEPT ![s] = held[s]] /\ observed' = observed
    <3>1. Larger(checkpoint[s], held[s]) = held[s]
      BY <1>2, <2>1, <2>2 DEF Larger
    <3> QED BY <3>1, <2>1, <2>2 DEF Record
  <2>4. Ledger!Bookmark(s)
    BY <1>3, <2>1, <2>3 DEF Ledger!Bookmark, Revisions
  <2>5. Advances(s)
    BY <1>10, <2>1 DEF Advances
  <2> QED BY <1>2, <1>3, <1>10, <2>2, <2>3, <2>4, <2>5 DEF Writing
<1> QED BY <1>6, <1>7, <1>8, <1>9, <1>10 DEF Transact, Persist

\* A stream that settles without touching the database keeps the invariant.
LEMMA StreamSettles ==
    ASSUME TypeOK, WatchInv, NEW s \in Streams, pc[s] \notin Settled, runner' = runner, history' = history,
           \A t \in Streams \ {s} : checkpoint'[t] = checkpoint[t], checkpoint'[s] <= Len(history),
           KeepStream, \E place \in Settled : Goto(s, place)
    PROVE  WatchInv'
<1>1. \A t \in Streams \ {s} : SameStream(t)
  BY DEF SameStream, KeepStream, Goto, TypeOK
<1>2. pc'[s] \in Settled
  BY DEF Goto, TypeOK
<1> QED BY <1>1, <1>2, StreamIdle, StreamMoves

\* A stream that only moves on, from one await to another.
LEMMA StreamGoesTo ==
    ASSUME TypeOK, WatchInv, NEW s \in Streams, NEW place, Goto(s, place), pc[s] \notin Settled,
           KeepStream, KeepRunner, UNCHANGED <<cluster, database>>, StreamInv(s)'
    PROVE  WatchInv'
<1>1. \A t \in Streams \ {s} : SameStream(t)
  BY DEF SameStream, KeepStream, Goto, TypeOK, database
<1> QED BY <1>1, StreamMoves DEF KeepRunner, cluster

LEMMA WatchCommit ==
    ASSUME TypeOK, WatchInv, NEW s \in Streams, Commit(s)
    PROVE  WatchInv'
<1>1. Transact(s)
  BY DEF Commit
<1>2. /\ pc[s] \in Writing /\ history' = history /\ checkpoint'[s] <= Len(history)
      /\ \A t \in Streams \ {s} : checkpoint'[t] = checkpoint[t]
      /\ pc[s] = "clear" => checkpoint'[s] = 0
      /\ pc[s] # "clear" => checkpoint'[s] = IF Advances(s) THEN held[s] ELSE version[s]
  BY <1>1, TransactFacts
<1>3. StreamInv(s)
  BY WatchInvParts
<1>4. /\ version'[s] = IF Advances(s) THEN held[s] ELSE version[s]
      /\ relist'[s] = (pc[s] = "clear")
      /\ cursor'[s] = cursor[s]
  BY DEF Commit, TypeOK
<1>5. version[s] \in Nat /\ held[s] \in Nat /\ cursor[s] \in Nat
  BY DEF TypeOK
<1>6. \A t \in Streams \ {s} : SameStream(t)
  <2>1. \A t \in Streams \ {s} : pc'[t] = pc[t]
    BY DEF Commit, Goto, TypeOK
  <2> QED BY <1>2, <2>1 DEF Commit, SameStream, TypeOK
<1>7. StreamInv(s)'
  <2>1. CASE pc[s] = "clear"
    <3>1. pc'[s] = "loop"
      BY <2>1 DEF Commit, Goto, TypeOK
    <3>2. version'[s] = 0 /\ relist'[s]
      BY <1>3, <1>4, <2>1 DEF StreamInv, Advances
    <3> QED BY <1>2, <2>1, <3>1, <3>2 DEF StreamInv
  <2>2. CASE pc[s] = "commitList"
    <3>1. pc'[s] = "open"
      BY <2>2 DEF Commit, Goto, TypeOK
    <3>2. version[s] = 0 /\ held[s] \in Revisions
      BY <1>3, <2>2 DEF StreamInv
    <3>3. Advances(s) /\ held[s] # 0
      BY <1>5, <2>2, <3>2 DEF Advances, Revisions, Ledger!Revisions
    <3> QED BY <1>2, <1>4, <2>2, <3>1, <3>3 DEF StreamInv
  <2>3. CASE pc[s] \in {"commitChange", "commitBookmark"}
    <3>1. pc'[s] = "next"
      BY <2>3 DEF Commit, Goto, TypeOK
    <3>2. version[s] # 0 /\ cursor[s] = Larger(version[s], held[s])
      BY <1>3, <2>3 DEF StreamInv
    <3>3. version'[s] = Larger(version[s], held[s]) /\ version'[s] # 0
      BY <1>4, <1>5, <2>3, <3>2 DEF Advances, Larger
    <3> QED BY <1>2, <1>4, <2>3, <3>1, <3>2, <3>3 DEF StreamInv
  <2> QED BY <1>2, <2>1, <2>2, <2>3 DEF Writing
<1>8. runner' = runner /\ pc[s] \notin Settled
  BY <1>2 DEF Commit, KeepRunner, Writing, Settled
<1> QED BY <1>2, <1>6, <1>7, <1>8, StreamMoves

\* An event is taken from the open watch.
LEMMA WatchReceive ==
    ASSUME TypeOK, WatchInv, NEW s \in Streams, NEW i \in Revisions,
           NEW place \in {"gotChange", "gotBookmark"}, Receive(s, place, i),
           \/ cursor' = cursor /\ i <= cursor[s]
           \/ cursor' = [cursor EXCEPT ![s] = i] /\ i > cursor[s],
           place = "gotChange"
           => history[i].stream = s /\ Ledger!ChangesOf(s, (cursor[s] + 1)..(i - 1)) = {},
           place = "gotBookmark" => Ledger!ChangesOf(s, (cursor[s] + 1)..i) = {}
    PROVE  WatchInv'
<1>1. StreamInv(s) /\ pc[s] = "next"
  BY WatchInvParts DEF Receive
<1>2. /\ history' = history /\ checkpoint' = checkpoint /\ version' = version /\ relist' = relist
      /\ runner' = runner /\ pc[s] \notin Settled
  BY <1>1 DEF Receive, KeepRunner, cluster, database, Settled
<1>3. pc'[s] = place /\ held'[s] = i /\ \A t \in Streams \ {s} : pc'[t] = pc[t] /\ held'[t] = held[t] /\ cursor'[t] = cursor[t]
  BY DEF Receive, Goto, TypeOK
<1>4. \A t \in Streams \ {s} : SameStream(t)
  BY <1>2, <1>3 DEF SameStream
<1>5. /\ version[s] = checkpoint[s] /\ ~relist[s] /\ version[s] # 0 /\ cursor[s] = version[s]
      /\ checkpoint[s] <= Len(history)
  BY <1>1 DEF StreamInv, Abortable
<1>6. i \in Nat /\ version[s] \in Nat /\ cursor'[s] = Larger(version[s], i)
  <2>1. Len(history) \in Nat /\ i \in Nat /\ version[s] \in Nat /\ cursor[s] \in Nat /\ cursor \in [Streams -> Nat]
    BY DEF TypeOK, Revisions, Ledger!Revisions
  <2> QED BY <1>5, <2>1 DEF Larger
<1>7. StreamInv(s)'
  <2>1. CASE place = "gotChange"
    BY <1>2, <1>3, <1>5, <1>6, <2>1 DEF StreamInv, Ledger!ChangesOf, Revisions, Ledger!Revisions
  <2>2. CASE place = "gotBookmark"
    BY <1>2, <1>3, <1>5, <1>6, <2>2 DEF StreamInv, Ledger!ChangesOf, Revisions, Ledger!Revisions
  <2> QED BY <2>1, <2>2
<1> QED BY <1>2, <1>4, <1>7, StreamMoves

LEMMA WatchStream ==
    ASSUME TypeOK, WatchInv, NEW s \in Streams,
           \/ StreamStep(s) \/ DeliverBookmark(s) \/ Redeliver(s) \/ StreamBreaks(s)
           \/ ReadFails(s) \/ Malformed(s) \/ CommitFails(s)
    PROVE  WatchInv'
<1>1. StreamInv(s)
  BY WatchInvParts
<1>2. /\ version[s] \in Nat /\ held[s] \in Nat /\ cursor[s] \in Nat /\ checkpoint[s] \in Nat
      /\ Len(history) \in Nat /\ checkpoint[s] <= Len(history)
  BY <1>1 DEF TypeOK, StreamInv
<1>3. \A place : Goto(s, place) => pc'[s] = place
  BY DEF Goto, TypeOK
<1>4. \A kind : Reject(s, kind) => \E place \in Settled : Goto(s, place)
  BY DEF Reject, Settled
<1>5. ASSUME pc[s] \notin Settled, KeepStream, KeepRunner, UNCHANGED <<cluster, database>>,
             \E place \in Settled : Goto(s, place)
      PROVE  WatchInv'
  BY <1>2, <1>5, StreamSettles DEF KeepRunner, cluster, database
<1>6. pc[s] \in Abortable \cup Writing => pc[s] \notin Settled
  BY DEF Abortable, Writing, Settled
<1>7. CASE Abandon(s)
  BY <1>4, <1>5, <1>6, <1>7 DEF Abandon, Settled
<1>8. CASE LoadCheckpoint(s)
  <2>1. /\ pc[s] = "load" /\ pc'[s] = "loop" /\ history' = history /\ checkpoint' = checkpoint /\ runner' = runner
        /\ version'[s] = checkpoint[s] /\ (relist'[s] <=> checkpoint[s] = 0)
    BY <1>3, <1>8 DEF LoadCheckpoint, KeepRunner, cluster, database, TypeOK
  <2>2. \A t \in Streams \ {s} : SameStream(t)
    BY <1>8 DEF LoadCheckpoint, Goto, SameStream, database, TypeOK
  <2>3. StreamInv(s)'
    BY <1>2, <2>1 DEF StreamInv
  <2> QED BY <1>6, <2>1, <2>2, <2>3, StreamMoves DEF Abortable
<1>9. CASE CheckScope(s)
  <2>1. /\ pc[s] = "loop" /\ KeepStream /\ KeepRunner /\ UNCHANGED <<cluster, database>>
    BY <1>9 DEF CheckScope
  <2>2. CASE approved # scope
    BY <1>4, <1>5, <1>6, <1>9, <2>1, <2>2 DEF CheckScope, Abortable
  <2>3. CASE approved = scope
    <3>1. PICK place \in {"list", "open"} : Goto(s, place) /\ (place = "list" <=> relist[s])
      BY <1>9, <2>3 DEF CheckScope, TypeOK
    <3>2. StreamInv(s)'
      <4>1. relist' = relist /\ version' = version /\ checkpoint' = checkpoint /\ history' = history
        BY <2>1 DEF KeepStream, cluster, database
      <4>2. version[s] = checkpoint[s] /\ (relist[s] <=> version[s] = 0)
        BY <1>1, <2>1 DEF StreamInv, Abortable
      <4> QED BY <1>2, <1>3, <3>1, <4>1, <4>2 DEF StreamInv
    <3> QED BY <1>6, <2>1, <3>1, <3>2, StreamGoesTo DEF Abortable
  <2> QED BY <2>2, <2>3
<1>10. CASE List(s)
  <2>1. /\ pc[s] = "list" /\ pc'[s] = "commitList" /\ held'[s] = Len(history)
        /\ history' = history /\ checkpoint' = checkpoint /\ runner' = runner /\ version' = version /\ relist' = relist
    BY <1>3, <1>10 DEF List, KeepRunner, cluster, database, TypeOK
  <2>2. \A t \in Streams \ {s} : SameStream(t)
    BY <1>10 DEF List, Goto, SameStream, database, TypeOK
  <2>3. Len(history) \in Revisions
    BY <1>2, WatchInvParts DEF ProcessInv, Revisions, Ledger!Revisions
  <2>4. StreamInv(s)'
    BY <1>1, <1>2, <2>1, <2>3 DEF StreamInv, Abortable, Revisions, Ledger!Revisions
  <2> QED BY <1>6, <2>1, <2>2, <2>4, StreamMoves DEF Abortable
<1>11. CASE OpenWatch(s)
  <2>1. /\ pc[s] = "open" /\ pc'[s] \in {"gone", "next"} /\ (pc'[s] = "next" => cursor'[s] = version[s])
        /\ history' = history /\ checkpoint' = checkpoint /\ runner' = runner /\ version' = version /\ relist' = relist
    BY <1>3, <1>11 DEF OpenWatch, KeepRunner, cluster, database, TypeOK
  <2>2. \A t \in Streams \ {s} : SameStream(t)
    BY <1>11 DEF OpenWatch, Goto, SameStream, database, TypeOK
  <2>3. StreamInv(s)'
    BY <1>1, <1>2, <2>1 DEF StreamInv, Abortable
  <2> QED BY <1>6, <2>1, <2>2, <2>3, StreamMoves DEF Abortable
<1>12. CASE DeliverChange(s)
  <2>1. PICK i \in Revisions : /\ Ledger!NextChange(s, cursor[s], i)
                               /\ Receive(s, "gotChange", i)
                               /\ cursor' = [cursor EXCEPT ![s] = i]
    BY <1>12 DEF DeliverChange
  <2>2. /\ i > cursor[s] /\ history[i].stream = s
        /\ Ledger!ChangesOf(s, (cursor[s] + 1)..(i - 1)) = {}
    BY <1>2, <2>1 DEF Ledger!NextChange, Ledger!ChangesOf
  <2> QED BY <2>1, <2>2, WatchReceive
<1>13. CASE DeliverBookmark(s)
  <2>1. PICK i \in (cursor[s] + 1)..Len(history) : /\ Ledger!ChangesOf(s, (cursor[s] + 1)..i) = {}
                                                  /\ Receive(s, "gotBookmark", i)
                                                  /\ cursor' = [cursor EXCEPT ![s] = i]
    BY <1>13 DEF DeliverBookmark
  <2>2. i \in Revisions /\ i > cursor[s]
    BY <1>2, <2>1 DEF Revisions, Ledger!Revisions
  <2> QED BY <2>1, <2>2, WatchReceive
<1>14. CASE Redeliver(s)
  <2>1. cursor[s] <= Len(history)
    BY <1>1, <1>2, <1>14 DEF Redeliver, Receive, StreamInv, Abortable
  <2>2. CASE \E i \in Ledger!ChangesOf(s, 1..cursor[s]) : Receive(s, "gotChange", i)
    <3>1. PICK i \in Ledger!ChangesOf(s, 1..cursor[s]) : Receive(s, "gotChange", i)
      BY <2>2
    <3>2. i \in Revisions /\ i <= cursor[s] /\ history[i].stream = s
      BY <1>2, <2>1, <3>1 DEF Revisions, Ledger!Revisions, Ledger!ChangesOf
    <3>3. Ledger!ChangesOf(s, (cursor[s] + 1)..(i - 1)) = {}
      BY <1>2, <3>2 DEF Revisions, Ledger!Revisions, Ledger!ChangesOf
    <3> QED BY <1>14, <3>1, <3>2, <3>3, WatchReceive DEF Redeliver
  <2>3. CASE \E i \in 1..cursor[s] : Receive(s, "gotBookmark", i)
    <3>1. PICK i \in 1..cursor[s] : Receive(s, "gotBookmark", i)
      BY <2>3
    <3>2. i \in Revisions /\ i <= cursor[s] /\ Ledger!ChangesOf(s, (cursor[s] + 1)..i) = {}
      BY <1>2, <2>1, <3>1 DEF Revisions, Ledger!Revisions, Ledger!ChangesOf
    <3> QED BY <1>14, <3>1, <3>2, WatchReceive DEF Redeliver
  <2> QED BY <1>14, <2>2, <2>3 DEF Redeliver
<1>15. CASE CheckEventScope(s)
  <2>1. /\ pc[s] \in {"gotChange", "gotBookmark"} /\ KeepStream /\ KeepRunner /\ UNCHANGED <<cluster, database>>
    BY <1>15 DEF CheckEventScope
  <2>2. CASE approved # scope
    BY <1>4, <1>5, <1>6, <1>15, <2>1, <2>2 DEF CheckEventScope, Abortable
  <2>3. CASE approved = scope
    <3>1. PICK place \in {"commitChange", "commitBookmark", "next"} :
             /\ Goto(s, place)
             /\ place = "commitChange" => pc[s] = "gotChange"
             /\ place = "commitBookmark" => pc[s] = "gotBookmark" /\ held[s] > version[s]
             /\ place = "next" => pc[s] = "gotBookmark" /\ held[s] <= version[s]
      BY <1>15, <2>3 DEF CheckEventScope
    <3>2. StreamInv(s)'
      <4>1. /\ relist' = relist /\ version' = version /\ checkpoint' = checkpoint /\ history' = history
            /\ held' = held /\ cursor' = cursor
        BY <2>1 DEF KeepStream, cluster, database
      <4>2. /\ version[s] = checkpoint[s] /\ ~relist[s] /\ version[s] # 0
            /\ cursor[s] = Larger(version[s], held[s])
        BY <1>1, <2>1 DEF StreamInv, Abortable
      <4>3. held[s] <= version[s] => cursor[s] = version[s]
        BY <1>2, <4>2 DEF Larger
      <4> QED BY <1>1, <1>2, <1>3, <3>1, <4>1, <4>2, <4>3
              DEF StreamInv, Ledger!ChangesOf, Revisions, Ledger!Revisions
    <3> QED BY <1>6, <2>1, <3>1, <3>2, StreamGoesTo DEF Abortable
  <2> QED BY <2>2, <2>3
<1>16. CASE Commit(s)
  BY <1>16, WatchCommit
<1>17. PersistenceError(s) => \E place \in Settled : Goto(s, place)
  BY <1>4 DEF PersistenceError, Settled
<1>18. CASE CommitRefused(s)
  BY <1>5, <1>6, <1>17, <1>18 DEF CommitRefused
<1>19. CASE CommitFails(s)
  <2>1. /\ history' = history /\ checkpoint'[s] <= Len(history)
        /\ \A t \in Streams \ {s} : checkpoint'[t] = checkpoint[t]
    BY <1>2, <1>19, TransactFacts DEF CommitFails, cluster, database
  <2> QED BY <1>6, <1>17, <1>19, <2>1, StreamSettles DEF CommitFails, KeepRunner
<1>20. ASSUME pc[s] \in {"loop", "list", "open", "next", "gotChange", "gotBookmark", "backoff"},
              NEW place \in {"broken", "gone", "timedOut", "loop"}, Goto(s, place),
              KeepStream, KeepRunner, UNCHANGED <<cluster, database>>
       PROVE  WatchInv'
  <2>1. relist' = relist /\ version' = version /\ checkpoint' = checkpoint /\ history' = history
    BY <1>20 DEF KeepStream, cluster, database
  <2>2. version[s] = checkpoint[s] /\ (relist[s] <=> version[s] = 0)
    BY <1>1, <1>20 DEF StreamInv, Abortable
  <2>3. StreamInv(s)'
    BY <1>2, <1>3, <1>20, <2>1, <2>2 DEF StreamInv
  <2> QED BY <1>6, <1>20, <2>3, StreamGoesTo DEF Abortable
<1>21. CASE StreamBreaks(s)
  BY <1>20, <1>21 DEF StreamBreaks
<1>22. CASE ReadFails(s)
  BY <1>4, <1>5, <1>6, <1>20, <1>22 DEF ReadFails, Abortable
<1>23. CASE Malformed(s)
  BY <1>4, <1>5, <1>6, <1>23 DEF Malformed, Abortable
<1>24. CASE Recover(s)
  <2>1. /\ pc[s] \in {"gone", "broken", "timedOut"} /\ history' = history /\ checkpoint' = checkpoint
        /\ runner' = runner
    BY <1>24 DEF Recover, KeepRunner, cluster, database
  <2>2. \A t \in Streams \ {s} : SameStream(t)
    BY <1>24 DEF Recover, Goto, SameStream, database, TypeOK
  <2>3. CASE pc[s] = "gone"
    <3>1. pc'[s] = "clear" /\ version'[s] = 0 /\ relist'[s]
      BY <1>3, <1>24, <2>3 DEF Recover, TypeOK
    <3>2. StreamInv(s)'
      BY <1>2, <2>1, <3>1 DEF StreamInv
    <3> QED BY <1>6, <2>1, <2>2, <3>2, StreamMoves DEF Abortable
  <2>4. CASE pc[s] # "gone"
    <3>1. pc'[s] = "backoff" /\ version'[s] = version[s] /\ relist'[s] = relist[s]
      BY <1>3, <1>24, <2>4 DEF Recover, TypeOK
    <3>2. version[s] = checkpoint[s] /\ (relist[s] <=> version[s] = 0)
      BY <1>1, <2>1 DEF StreamInv, Abortable
    <3>3. StreamInv(s)'
      BY <1>2, <2>1, <3>1, <3>2 DEF StreamInv
    <3> QED BY <1>6, <2>1, <2>2, <3>3, StreamMoves DEF Abortable
  <2> QED BY <2>3, <2>4
<1>25. CASE RecoverScopeChanged(s)
  BY <1>4, <1>5, <1>6, <1>25 DEF RecoverScopeChanged, Abortable
<1>26. CASE Exhaust(s)
  BY <1>5, <1>6, <1>26 DEF Exhaust, Abortable, Settled
<1>27. CASE WakeUp(s)
  BY <1>20, <1>27 DEF WakeUp
<1> QED BY <1>7, <1>8, <1>9, <1>10, <1>11, <1>12, <1>13, <1>14, <1>15, <1>16, <1>18, <1>19, <1>21,
           <1>22, <1>23, <1>24, <1>25, <1>26, <1>27 DEF StreamStep

LEMMA WatchStep == TypeOK /\ WatchInv /\ [Next]_vars => WatchInv'
<1> SUFFICES ASSUME TypeOK, WatchInv, [Next]_vars PROVE WatchInv'
  OBVIOUS
<1> QED BY StepCases, WatchEnvironment, WatchBlank, WatchRunner, WatchStream

\* The types and the inductive invariant hold in every reachable state, for
\* every instance of the constants.
THEOREM TypeCorrect == Spec => []TypeOK
  BY TypeInitial, TypeStep, PTL DEF Spec

\* A stream's position is the durable one, it lists only without a position, and
\* the event it holds is the next one, through crashes, aborts and retries.
THEOREM WatchInvariant == Spec => []WatchInv
  BY TypeCorrect, WatchInitial, WatchStep, PTL DEF Spec

-----------------------------------------------------------------------------
(* The collector implements the ledger.                                     *)

LEMMA LedgerInitially == Init => Ledger!LedgerInit
<1> SUFFICES ASSUME Init PROVE Ledger!LedgerInit
  OBVIOUS
<1>1. history \in Seq(Ledger!Change)
  BY TypeInitial DEF TypeOK
<1> QED BY <1>1 DEF Init, Ledger!LedgerInit

\* What a one-off collection stores exists in the history.
LEMMA CollectedExists ==
    ASSUME TypeOK, WatchInv, runner = "collectCommit"
    PROVE  Collected \subseteq Revisions
<1>1. scope \subseteq Streams /\ Len(history) \in Nat /\ held \in [Streams -> Nat]
  BY DEF TypeOK
<1>2. \A s \in Streams : held[s] <= Len(history)
  BY WatchInvParts DEF ProcessInv
<1>3. \A s \in Streams : Ledger!Listing(s, held[s]) \subseteq Revisions
  BY <1>1, <1>2 DEF Ledger!Listing, Ledger!ChangesOf, Revisions, Ledger!Revisions
<1> QED BY <1>1, <1>3 DEF Collected

LEMMA LedgerStep == TypeOK /\ WatchInv /\ [Next]_vars => [Ledger!LedgerNext]_(Ledger!ledgerVars)
<1> SUFFICES ASSUME TypeOK, WatchInv, [Next]_vars
             PROVE  Ledger!LedgerNext \/ UNCHANGED <<history, checkpoint, observed>>
  BY DEF Ledger!ledgerVars
<1>1. ASSUME NEW s \in Streams, Transact(s) PROVE Ledger!LedgerNext
  BY <1>1, TransactFacts DEF Ledger!LedgerNext
<1>2. CASE UNCHANGED vars \/ Compact \/ SaveScope \/ UNCHANGED <<cluster, database>>
  BY <1>2 DEF vars, Compact, SaveScope, cluster, database
<1>3. CASE ClusterChange
  BY <1>3 DEF ClusterChange, database, Ledger!LedgerNext, Ledger!Occur
<1>4. CASE CollectCommit
  <2>1. Collected \subseteq Revisions
    BY <1>4, CollectedExists DEF CollectCommit
  <2> QED BY <1>4, <2>1 DEF CollectCommit, cluster, Ledger!LedgerNext, Ledger!Replay, Revisions
<1>5. CASE Boot \/ CollectList \/ StartWithoutScope \/ StartStreams \/ StartFails
           \/ AbortIteration \/ NextIteration \/ FailWatch \/ FailExhausted \/ Stop
  BY <1>2, <1>5 DEF Boot, CollectList, StartWithoutScope, StartStreams, StartFails, AbortIteration,
                    NextIteration, FailWatch, FailExhausted, Stop
<1>6. ASSUME NEW s \in Streams, Commit(s) \/ CommitFails(s)
      PROVE  Ledger!LedgerNext \/ UNCHANGED <<history, checkpoint, observed>>
  BY <1>1, <1>2, <1>6 DEF Commit, CommitFails
<1>7. ASSUME NEW s \in Streams, ~Commit(s), ~CommitFails(s),
             \/ StreamStep(s) \/ DeliverBookmark(s) \/ Redeliver(s) \/ StreamBreaks(s)
             \/ ReadFails(s) \/ Malformed(s)
      PROVE  UNCHANGED <<cluster, database>>
  BY <1>7 DEF StreamStep, Abandon, LoadCheckpoint, CheckScope, List, OpenWatch, DeliverChange,
              CheckEventScope, CommitRefused, Recover, RecoverScopeChanged, Exhaust, WakeUp,
              DeliverBookmark, Redeliver, Receive, StreamBreaks, ReadFails, Malformed
<1> QED BY <1>2, <1>3, <1>4, <1>5, <1>6, <1>7, StepCases

\* Every behaviour of the collector, with whatever scope edits, crashes, lost
\* acknowledgements, relists and redeliveries, is a behaviour of the ledger.
THEOREM CollectorImplementsLedger == Spec => ImplementsLedger
  BY TypeCorrect, WatchInvariant, LedgerInitially, LedgerStep, PTL
     DEF Spec, ImplementsLedger, Ledger!LedgerSpec

\* No checkpoint is ever ahead of the stored Observations.
THEOREM CollectorCovered == Spec => []CheckpointCovered
<1>1. CheckpointCovered <=> Ledger!CheckpointCovered
  BY DEF CheckpointCovered
<1> QED BY <1>1, CollectorImplementsLedger, LedgerCovered, PTL DEF ImplementsLedger

\* No change of a stream is skipped between two positions of its checkpoint.
THEOREM CollectorSkipsNothing == Spec => NothingSkipped
  BY CollectorImplementsLedger, LedgerSkipsNothing, PTL DEF ImplementsLedger, NothingSkipped

\* Observations enter the database only while their stream is approved.
LEMMA StoredStep ==
    ASSUME TypeOK, WatchInv, [Next]_vars
    PROVE  \A i \in observed' \ observed : history[i].stream \in approved
<1>1. ASSUME NEW s \in Streams, Transact(s)
      PROVE  \A i \in observed' \ observed : history[i].stream \in approved
  <2>1. s \in approved /\ StreamInv(s)
    BY <1>1, WatchInvParts DEF Transact, Persist
  <2>2. \A i \in Ledger!Listing(s, held[s]) : history[i].stream = s
    BY DEF Ledger!Listing, Ledger!ChangesOf
  <2>3. pc[s] = "commitChange" => history[held[s]].stream = s
    BY <2>1 DEF StreamInv, Ledger!ChangesOf
  <2> QED BY <1>1, <2>1, <2>2, <2>3 DEF Transact, Persist, Record
<1>2. CASE CollectCommit
  BY <1>2 DEF CollectCommit
<1>3. CASE observed' = observed
  BY <1>3
<1>4. (ClusterChange \/ Compact \/ SaveScope \/ UNCHANGED <<cluster, database>> \/ UNCHANGED vars)
      => observed' = observed
  BY DEF ClusterChange, Compact, SaveScope, cluster, database, vars
<1>5. CASE Boot \/ CollectList \/ StartWithoutScope \/ StartStreams \/ StartFails
           \/ AbortIteration \/ NextIteration \/ FailWatch \/ FailExhausted \/ Stop
  BY <1>3, <1>4, <1>5 DEF Boot, CollectList, StartWithoutScope, StartStreams, StartFails, AbortIteration,
                    NextIteration, FailWatch, FailExhausted, Stop
<1>6. ASSUME NEW s \in Streams, Commit(s) \/ CommitFails(s)
      PROVE  \A i \in observed' \ observed : history[i].stream \in approved
  BY <1>1, <1>3, <1>4, <1>6 DEF Commit, CommitFails
<1>7. ASSUME NEW s \in Streams, ~Commit(s), ~CommitFails(s),
             \/ StreamStep(s) \/ DeliverBookmark(s) \/ Redeliver(s) \/ StreamBreaks(s)
             \/ ReadFails(s) \/ Malformed(s)
      PROVE  observed' = observed
  BY <1>4, <1>7 DEF StreamStep, Abandon, LoadCheckpoint, CheckScope, List, OpenWatch, DeliverChange,
              CheckEventScope, CommitRefused, Recover, RecoverScopeChanged, Exhaust, WakeUp,
              DeliverBookmark, Redeliver, Receive, StreamBreaks, ReadFails, Malformed
<1> QED BY <1>2, <1>3, <1>4, <1>5, <1>6, <1>7, StepCases

\* No interleaving of a scope edit with a stream stores an unapproved change.
THEOREM CollectorStoresApproved == Spec => StoredWhenApproved
<1>1. TypeOK /\ WatchInv /\ [Next]_vars
      => [\A i \in observed' \ observed : history[i].stream \in approved]_vars
  BY StoredStep
<1> QED BY <1>1, TypeCorrect, WatchInvariant, PTL DEF Spec, StoredWhenApproved

\* A new iteration never starts over a stream that is still at work.
THEOREM CollectorHasOneLoop == Spec => OneLoopPerStream
<1>1. TypeOK /\ WatchInv /\ [Next]_vars
      => [\A s \in Streams : pc'[s] = "load" => pc[s] \in Settled \cup {"load"}]_vars
  <2> SUFFICES ASSUME TypeOK, WatchInv, Next, NEW s \in Streams, pc'[s] = "load"
               PROVE  pc[s] \in Settled \cup {"load"}
    OBVIOUS
  <2>1. CASE StartStreams
    BY <2>1, WatchInvParts DEF StartStreams, ProcessInv, QuietBetweenIterations, AllSettled
  <2>2. CASE UNCHANGED streams
    BY <2>2 DEF streams
  <2>3. ~Blank
    BY DEF Blank
  <2>4. ASSUME NEW t \in Streams, NEW place, Goto(t, place), place # "load"
        PROVE  pc[s] = "load"
    BY <2>4 DEF Goto, TypeOK
  <2>5. (ClusterChange \/ Compact \/ SaveScope \/ Boot \/ CollectCommit \/ StartWithoutScope \/ StartFails
         \/ AbortIteration \/ NextIteration \/ FailWatch \/ FailExhausted \/ Stop) => UNCHANGED streams
    BY DEF ClusterChange, Compact, SaveScope, Boot, CollectCommit, StartWithoutScope, StartFails,
           AbortIteration, NextIteration, FailWatch, FailExhausted, Stop
  <2>6. CASE CollectList
    BY <2>6 DEF CollectList
  <2>7. ASSUME NEW t \in Streams,
               \/ StreamStep(t) \/ DeliverBookmark(t) \/ Redeliver(t) \/ StreamBreaks(t)
               \/ ReadFails(t) \/ Malformed(t) \/ CommitFails(t)
        PROVE  \E place : Goto(t, place) /\ place # "load"
    <3>1. \A kind : Reject(t, kind) => \E place : Goto(t, place) /\ place # "load"
      BY DEF Reject
    <3>2. PersistenceError(t) => \E place : Goto(t, place) /\ place # "load"
      BY <3>1 DEF PersistenceError
    <3>3. \A place \in {"gotChange", "gotBookmark"} : \A i : Receive(t, place, i) => \E p : Goto(t, p) /\ p # "load"
      BY DEF Receive
    <3>4. CASE Abandon(t) \/ CheckScope(t) \/ CheckEventScope(t) \/ ReadFails(t) \/ Malformed(t)
               \/ RecoverScopeChanged(t)
      BY <3>1, <3>4 DEF Abandon, CheckScope, CheckEventScope, ReadFails, Malformed, RecoverScopeChanged
    <3>5. CASE CommitRefused(t) \/ CommitFails(t)
      BY <3>2, <3>5 DEF CommitRefused, CommitFails
    <3>6. CASE DeliverChange(t) \/ DeliverBookmark(t) \/ Redeliver(t)
      BY <3>3, <3>6 DEF DeliverChange, DeliverBookmark, Redeliver
    <3>7. CASE LoadCheckpoint(t) \/ List(t) \/ Exhaust(t) \/ WakeUp(t) \/ Commit(t)
      BY <3>7 DEF LoadCheckpoint, List, Exhaust, WakeUp, Commit
    <3>8. CASE OpenWatch(t) \/ Recover(t) \/ StreamBreaks(t)
      <4>1. PICK place \in {"gone", "next", "clear", "backoff", "broken"} : Goto(t, place)
        BY <3>8 DEF OpenWatch, Recover, StreamBreaks
      <4> QED BY <4>1
    <3> QED BY <2>7, <3>4, <3>5, <3>6, <3>7, <3>8 DEF StreamStep
  <2> QED BY <2>1, <2>2, <2>3, <2>4, <2>5, <2>6, <2>7, StepCases DEF vars
<1> QED BY <1>1, TypeCorrect, WatchInvariant, PTL DEF Spec, OneLoopPerStream
=============================================================================
