--------------------------- MODULE Attention_proofs ---------------------------
(***************************************************************************)
(* Proofs about Attention, for any bounds, versions, Members and requests:  *)
(* recoveries follow what they recover from, one request makes a review,    *)
(* and unread counts agree with what they are shown with.                   *)
(***************************************************************************)
EXTENDS Attention, SequenceTheorems, FiniteSetTheorems, WellFoundedInduction, TLAPS

EntryRecord == [version : Versions, recoveryOf : 0..MaxVersion, kept : BOOLEAN]

\* What is stored is not newer than the checkpoint, unless a collection at
\* startup has overtaken the watch.
Behind ==
    \A e \in Kept :
        /\ entry[e].version <= newest
        /\ position # 0 => entry[e].version <= position \/ entry[e].version <= overtaken

\* A transaction that has inserted a review holds its key and its item.
Holding ==
    \A r \in Requests : tx[r].mine =>
        /\ tx[r].at \in {"count", "commit"}
        /\ tx[r].entry \in item \ doomed
        /\ <<tx[r].entry, tx[r].member>> \notin review
        /\ \A q \in Requests :
            tx[q].mine /\ tx[q].entry = tx[r].entry /\ tx[q].member = tx[r].member => q = r

\* A review that was answered as made is there, or its entry is deleted.
Credited ==
    \A p \in Entries \X Members :
        credited[p] # 0 => credited[p] = 1 /\ (p \in review \/ p[1] \in DOMAIN entry \ Kept)

\* What a request knows while it runs, with t its record.
Sound(t) ==
    /\ t.at \in {"insert", "count", "commit"} => t.member \in Members /\ t.entry \in DOMAIN entry
    /\ t.at = "count" /\ ~t.mine => <<t.entry, t.member>> \in review \/ t.entry \notin item
    /\ t.at = "commit" => t.entry \notin t.unread
    /\ t.at = "counting" => /\ t.flagged \subseteq t.snapshot
                            /\ t.more \/ t.flagged = t.snapshot
    /\ t.at = "paged" => /\ t.flagged \subseteq t.unread
                         /\ t.more \/ t.flagged = t.unread

AttentionInv ==
    /\ Behind
    /\ RecoveryIsLater
    /\ Holding
    /\ Credited
    /\ \A r \in Requests : Sound(tx[r])

IInv == TypeOK /\ AttentionInv

-----------------------------------------------------------------------------
(* Entries.                                                                 *)

\* A nonempty set of numbers up to n has a largest one.
LEMMA Largest ==
    ASSUME NEW n \in Nat, NEW S \in SUBSET (0..n), S # {}
    PROVE  \E m \in S : \A k \in S : k <= m
<1> DEFINE T == {n - m : m \in S}
<1>1. T \in SUBSET Nat /\ T # {}
  <2>1. \A m \in S : n - m \in Nat
    OBVIOUS
  <2>2. PICK m \in S : TRUE
    OBVIOUS
  <2>3. n - m \in T
    OBVIOUS
  <2>4. T \in SUBSET Nat
    BY <2>1
  <2> QED BY <2>3, <2>4
<1>2. \E x \in T : \A y \in T : ~ (y < x)
  <2> HIDE DEF T
  <2>1. \E x \in T : \A y \in T : ~ (<<y, x>> \in OpToRel(<, Nat))
    BY <1>1, NatLessThanWellFounded, WFMin
  <2> QED BY <1>1, <2>1 DEF OpToRel
<1>3. PICK x \in T : \A y \in T : ~ (y < x)
  BY <1>2
<1>4. PICK m \in S : x = n - m
  BY <1>3
<1>5. \A k \in S : ~ (n - k < n - m)
  BY <1>3, <1>4
<1> QED BY <1>5

\* The entries are numbered from 1.
LEMMA EntryFacts ==
    ASSUME AttentionAssumption, TypeOK
    PROVE  /\ DOMAIN entry = 1..Len(entry)
           /\ Len(entry) \in 0..MaxEntries
           /\ DOMAIN entry \subseteq Entries
           /\ \A e \in DOMAIN entry : entry[e] \in EntryRecord
           /\ Kept \subseteq DOMAIN entry /\ item \subseteq Kept
<1>1. entry \in Seq(EntryRecord)
  BY DEF TypeOK, EntryRecord
<1>2. Len(entry) \in Nat /\ entry \in [1..Len(entry) -> EntryRecord] /\ DOMAIN entry = 1..Len(entry)
  BY <1>1, LenProperties
<1>3. Len(entry) \in 0..MaxEntries
  BY <1>2 DEF TypeOK, AttentionAssumption
<1> QED BY <1>2, <1>3 DEF TypeOK, References, Kept, Entries, AttentionAssumption

\* There is a previous state as soon as one is stored.
LEMMA PreviousFacts ==
    ASSUME AttentionAssumption, TypeOK
    PROVE  /\ Previous \in Kept \cup {0}
           /\ Previous # 0 => entry[Previous] \in EntryRecord
<1>1. Kept \cup {0} \in SUBSET (0..Len(entry)) /\ Len(entry) \in Nat
  BY EntryFacts
<1>2. \E e \in Kept \cup {0} : \A f \in Kept \cup {0} : f <= e
  BY <1>1, Largest
<1>3. \E e \in Kept \cup {0} : \A f \in Kept : f <= e
  BY <1>2
<1> HIDE DEF Kept
<1>4. Previous \in Kept \cup {0}
  BY <1>3 DEF Previous
<1> QED BY <1>4, EntryFacts

-----------------------------------------------------------------------------
(* Steps.                                                                   *)

LEMMA InitInv ==
    ASSUME AttentionAssumption, Init
    PROVE  IInv
<1>1. entry \in Seq(EntryRecord) /\ Len(entry) = 0 /\ DOMAIN entry = {} /\ Kept = {}
  BY DEF Init, Kept
<1>2. Idle \in Tx /\ Idle.at = "idle" /\ ~Idle.mine
  BY DEF Idle, Tx
<1>3. TypeOK
  BY <1>1, <1>2 DEF Init, TypeOK, References, EntryRecord, Versions, AttentionAssumption
<1>4. AttentionInv
  BY <1>1, <1>2 DEF Init, AttentionInv, Behind, RecoveryIsLater, Holding, Credited, Sound
<1> QED BY <1>3, <1>4 DEF IInv

\* A step of one request that changes nothing else keeps the invariant if the
\* new record is sound and its locks are free.
LEMMA LocalStep ==
    ASSUME AttentionAssumption, IInv, NEW r \in Requests, NEW t \in Tx, tx' = [tx EXCEPT ![r] = t],
           UNCHANGED <<collector, timeline, review, credited, doomed>>,
           Sound(t),
           t.mine => /\ t.at \in {"count", "commit"}
                     /\ t.entry \in item \ doomed
                     /\ <<t.entry, t.member>> \notin review
                     /\ \A q \in Requests \ {r} :
                            ~(tx[q].mine /\ tx[q].entry = t.entry /\ tx[q].member = t.member)
    PROVE  IInv'
<1>1. tx \in [Requests -> Tx] /\ tx' \in [Requests -> Tx] /\ tx'[r] = t
      /\ \A q \in Requests \ {r} : tx'[q] = tx[q]
  BY DEF IInv, TypeOK
<1>2. TypeOK'
  BY <1>1 DEF IInv, TypeOK, References, Kept, collector, timeline
<1>3. Behind' /\ RecoveryIsLater' /\ Credited'
  BY DEF IInv, AttentionInv, Behind, RecoveryIsLater, Credited, Kept, collector, timeline
<1>4. Holding'
  <2> SUFFICES ASSUME NEW p \in Requests, tx'[p].mine
               PROVE  /\ tx'[p].at \in {"count", "commit"}
                      /\ tx'[p].entry \in item \ doomed
                      /\ <<tx'[p].entry, tx'[p].member>> \notin review
                      /\ \A q \in Requests :
                            tx'[q].mine /\ tx'[q].entry = tx'[p].entry /\ tx'[q].member = tx'[p].member => q = p
    BY DEF Holding, timeline
  <2> USE DEF IInv, AttentionInv, Holding
  <2>1. CASE p = r
    BY <1>1, <2>1
  <2>2. CASE p # r
    BY <1>1, <2>2
  <2> QED BY <2>1, <2>2
<1>5. \A q \in Requests : Sound(tx'[q])
  BY <1>1 DEF IInv, AttentionInv
<1> QED BY <1>2, <1>3, <1>4, <1>5 DEF IInv, AttentionInv, Sound, timeline

\* A request that ends leaves nothing behind.
LEMMA IdleSound ==
    /\ Idle \in Tx /\ Sound(Idle) /\ ~Idle.mine
    /\ Idle.member = NoMember /\ Idle.entry = 0 /\ Idle.unread = {}
BY DEF Idle, Tx, Sound

LEMMA SelectItemStep ==
    ASSUME AttentionAssumption, IInv, NEW r \in Requests, SelectItem(r)
    PROVE  IInv'
<1>1. PICK m \in Members, e \in item :
        tx' = [tx EXCEPT ![r] = [Idle EXCEPT !.at = "insert", !.member = m, !.entry = e]]
  BY DEF SelectItem
<1> DEFINE t == [Idle EXCEPT !.at = "insert", !.member = m, !.entry = e]
<1>2. e \in Entries /\ e \in DOMAIN entry
  BY EntryFacts DEF IInv
<1>3. t \in Tx /\ t.at = "insert" /\ ~t.mine /\ t.member = m /\ t.entry = e
  BY <1>2 DEF Idle, Tx
<1>4. Sound(t)
  BY <1>2, <1>3 DEF Sound
<1> HIDE DEF t
<1> QED BY <1>1, <1>3, <1>4, LocalStep DEF t, SelectItem, KeepTimeline

LEMMA InsertReviewStep ==
    ASSUME AttentionAssumption, IInv, NEW r \in Requests, InsertReview(r)
    PROVE  IInv'
<1> DEFINE old == tx[r]
           t   == IF <<old.entry, old.member>> \in review THEN [old EXCEPT !.at = "count"]
                  ELSE IF old.entry \in item THEN [old EXCEPT !.at = "count", !.mine = TRUE]
                  ELSE Idle
<1>1. old \in Tx /\ old.at = "insert" /\ Sound(old) /\ ~Waits(r) /\ ~old.mine
  BY DEF IInv, TypeOK, AttentionInv, Holding, InsertReview, At
<1>2. tx' = [tx EXCEPT ![r] = t]
  BY DEF InsertReview, IInv, TypeOK
<1>3. CASE <<old.entry, old.member>> \in review
  <2>1. t = [old EXCEPT !.at = "count"]
    BY <1>3
  <2>2. t \in Tx /\ t.at = "count" /\ ~t.mine /\ t.member = old.member /\ t.entry = old.entry
    BY <1>1, <2>1 DEF Tx
  <2>3. Sound(t)
    BY <1>1, <1>3, <2>2 DEF Sound
  <2> HIDE DEF t, old
  <2> QED BY <1>2, <2>2, <2>3, LocalStep DEF InsertReview, KeepTimeline
<1>4. CASE <<old.entry, old.member>> \notin review /\ old.entry \in item
  <2>1. t = [old EXCEPT !.at = "count", !.mine = TRUE]
    BY <1>4
  <2>2. t \in Tx /\ t.at = "count" /\ t.mine /\ t.member = old.member /\ t.entry = old.entry
    BY <1>1, <2>1 DEF Tx
  <2>3. Sound(t)
    BY <1>1, <2>2 DEF Sound
  <2>4. /\ t.entry \in item \ doomed /\ <<t.entry, t.member>> \notin review
        /\ \A q \in Requests \ {r} : ~(tx[q].mine /\ tx[q].entry = t.entry /\ tx[q].member = t.member)
    BY <1>1, <1>4, <2>2 DEF Waits
  <2> HIDE DEF t, old
  <2> QED BY <1>2, <2>2, <2>3, <2>4, LocalStep DEF InsertReview, KeepTimeline
<1>5. CASE <<old.entry, old.member>> \notin review /\ old.entry \notin item
  <2>1. t = Idle
    BY <1>5
  <2> HIDE DEF t, old
  <2> QED BY <1>2, <2>1, IdleSound, LocalStep DEF InsertReview, KeepTimeline
<1> QED BY <1>3, <1>4, <1>5

LEMMA CountUnreadStep ==
    ASSUME AttentionAssumption, IInv, NEW r \in Requests, CountUnread(r)
    PROVE  IInv'
<1> DEFINE old == tx[r]
           unread == Unread(old.member) \ (IF old.mine THEN {old.entry} ELSE {})
           t == [old EXCEPT !.at = "commit", !.unread = unread]
<1>1. old \in Tx /\ old.at = "count" /\ Sound(old)
  BY DEF IInv, TypeOK, AttentionInv, CountUnread, At
<1>2. unread \subseteq Entries
  BY EntryFacts DEF IInv, Unread
<1>3. t \in Tx /\ t.at = "commit" /\ t.mine = old.mine /\ t.member = old.member /\ t.entry = old.entry
      /\ t.unread = unread
  BY <1>1, <1>2 DEF Tx
<1>4. old.entry \notin unread
  BY <1>1 DEF Sound, Unread
<1>5. Sound(t)
  BY <1>1, <1>3, <1>4 DEF Sound
<1>6. tx' = [tx EXCEPT ![r] = t]
  BY DEF CountUnread, IInv, TypeOK
<1>7. t.mine => /\ t.entry \in item \ doomed
                /\ <<t.entry, t.member>> \notin review
                /\ \A q \in Requests \ {r} :
                        ~(tx[q].mine /\ tx[q].entry = t.entry /\ tx[q].member = t.member)
  BY <1>3 DEF IInv, AttentionInv, Holding
<1> HIDE DEF t, old
<1> QED BY <1>3, <1>5, <1>6, <1>7, LocalStep DEF CountUnread, KeepTimeline

LEMMA EndStep ==
    ASSUME AttentionAssumption, IInv, NEW r \in Requests, End(r)
    PROVE  IInv'
BY IdleSound, LocalStep DEF End, KeepTimeline

LEMMA ReadCountStep ==
    ASSUME AttentionAssumption, IInv, NEW r \in Requests, ReadCount(r)
    PROVE  IInv'
<1> DEFINE old == tx[r]
           t == [old EXCEPT !.at = "paged", !.unread = old.snapshot, !.snapshot = {}]
<1>1. old \in Tx /\ old.at = "counting" /\ Sound(old) /\ ~old.mine
  BY DEF IInv, TypeOK, AttentionInv, Holding, ReadCount, At
<1>2. t \in Tx /\ t.at = "paged" /\ t.mine = old.mine /\ t.unread = old.snapshot
      /\ t.flagged = old.flagged /\ t.more = old.more
  BY <1>1 DEF Tx
<1>3. Sound(t)
  BY <1>1, <1>2 DEF Sound
<1>4. tx' = [tx EXCEPT ![r] = t]
  BY DEF ReadCount, IInv, TypeOK
<1> HIDE DEF t
<1> QED BY <1>1, <1>2, <1>3, <1>4, LocalStep DEF ReadCount, KeepTimeline

\* A page without a next cursor shows all that matches.
LEMMA LastPage ==
    ASSUME AttentionAssumption, TypeOK, NEW S \in SUBSET Kept, ~(Cardinality(S) > PageLimit)
    PROVE  FirstOf(S) = S
<1>1. IsFiniteSet(S) /\ S \subseteq 1..Len(entry) /\ Len(entry) \in Nat
  <2>1. S \subseteq 1..Len(entry) /\ Len(entry) \in Nat
    BY EntryFacts
  <2>2. IsFiniteSet(1..Len(entry))
    BY <2>1, FS_Interval
  <2> QED BY <2>1, <2>2, FS_Subset
<1>2. SUFFICES ASSUME NEW e \in S
               PROVE  Cardinality({f \in S : f < e}) < PageLimit
  BY DEF FirstOf
<1>3. {f \in S : f < e} \in SUBSET (S \ {e})
  BY <1>1
<1>4. IsFiniteSet(S \ {e}) /\ Cardinality(S \ {e}) = Cardinality(S) - 1
  BY <1>1, FS_RemoveElement
<1>5. /\ Cardinality({f \in S : f < e}) \in Nat
      /\ Cardinality({f \in S : f < e}) <= Cardinality(S \ {e})
  BY <1>3, <1>4, FS_Subset, FS_CardinalityType
<1>6. Cardinality(S) \in Nat
  BY <1>1, FS_CardinalityType
<1> QED BY <1>4, <1>5, <1>6 DEF AttentionAssumption

LEMMA ReadEntriesStep ==
    ASSUME AttentionAssumption, IInv, NEW r \in Requests, ReadEntries(r)
    PROVE  IInv'
<1>1. PICK m \in Members, filter \in Filters :
        tx' = [tx EXCEPT ![r] = [Idle EXCEPT !.at = "counting", !.member = m, !.snapshot = Unread(m),
                                    !.flagged = FirstOf(Matching(filter, Unread(m))) \cap Unread(m),
                                    !.more = Cardinality(Matching(filter, Unread(m))) > PageLimit]]
  BY DEF ReadEntries
<1> DEFINE unread  == Unread(m)
           matches == Matching(filter, unread)
           t == [Idle EXCEPT !.at = "counting", !.member = m, !.snapshot = unread,
                             !.flagged = FirstOf(matches) \cap unread,
                             !.more = Cardinality(matches) > PageLimit]
<1>2. unread \subseteq matches /\ matches \subseteq Kept /\ unread \subseteq Entries
  BY EntryFacts DEF IInv, Matching, Unread, Filters
<1>3. Cardinality(matches) > PageLimit \/ FirstOf(matches) = matches
  BY <1>2, LastPage DEF IInv
<1>4. (Cardinality(matches) > PageLimit) \in BOOLEAN
  OBVIOUS
<1> HIDE DEF matches, unread
<1>5. t \in Tx /\ t.at = "counting" /\ ~t.mine /\ t.snapshot = unread
      /\ t.flagged = FirstOf(matches) \cap unread /\ t.more = (Cardinality(matches) > PageLimit)
  BY <1>2, <1>4 DEF Idle, Tx
<1>6. Sound(t)
  BY <1>2, <1>3, <1>5 DEF Sound
<1>7. tx' = [tx EXCEPT ![r] = t]
  BY <1>1 DEF matches, unread
<1> HIDE DEF t
<1> QED BY <1>5, <1>6, <1>7, LocalStep DEF ReadEntries, KeepTimeline

\* The one transaction that holds a review's key makes it.
LEMMA CommitReviewStep ==
    ASSUME AttentionAssumption, IInv, NEW r \in Requests, CommitReview(r), tx[r].mine
    PROVE  IInv'
<1> DEFINE e == tx[r].entry
           m == tx[r].member
<1>1. /\ tx[r] \in Tx /\ tx[r].at = "commit"
      /\ review' = review \cup {<<e, m>>}
      /\ credited' = [credited EXCEPT ![<<e, m>>] = @ + 1]
      /\ UNCHANGED <<collector, timeline, doomed>>
  BY DEF CommitReview, At, KeepTimeline, IInv, TypeOK
<1>2. m \in Members /\ e \in DOMAIN entry /\ e \in Entries /\ e \in item /\ e \in Kept
  BY <1>1, EntryFacts DEF IInv, AttentionInv, Sound, Holding
<1>3. tx \in [Requests -> Tx] /\ tx' \in [Requests -> Tx] /\ ~tx'[r].mine /\ Sound(tx'[r]) /\ tx'[r] = Idle
      /\ \A q \in Requests \ {r} : tx'[q] = tx[q]
  BY IdleSound DEF IInv, TypeOK, CommitReview
<1>4. <<e, m>> \notin review /\ credited[<<e, m>>] = 0
  BY <1>2 DEF IInv, AttentionInv, Holding, Credited
<1>5. credited' \in [Entries \X Members -> Nat] /\ credited'[<<e, m>>] = 1
      /\ \A p \in Entries \X Members : p # <<e, m>> => credited'[p] = credited[p]
  BY <1>1, <1>2, <1>4 DEF IInv, TypeOK
<1>6. TypeOK'
  BY <1>1, <1>2, <1>3, <1>5 DEF IInv, TypeOK, References, Kept, collector, timeline
<1>7. Behind' /\ RecoveryIsLater'
  BY <1>1 DEF IInv, AttentionInv, Behind, RecoveryIsLater, Kept, collector, timeline
<1>8. Credited'
  <2> SUFFICES ASSUME NEW p \in Entries \X Members, credited'[p] # 0
               PROVE  credited'[p] = 1 /\ (p \in review' \/ p[1] \in DOMAIN entry \ Kept)
    BY <1>1 DEF Credited, Kept, timeline
  <2>1. CASE p = <<e, m>>
    BY <1>1, <1>5, <2>1
  <2>2. CASE p # <<e, m>>
    BY <1>1, <1>5, <2>2 DEF IInv, AttentionInv, Credited
  <2> QED BY <2>1, <2>2
<1>9. Holding'
  <2> SUFFICES ASSUME NEW q \in Requests, tx'[q].mine
               PROVE  /\ tx'[q].at \in {"count", "commit"}
                      /\ tx'[q].entry \in item \ doomed
                      /\ <<tx'[q].entry, tx'[q].member>> \notin review'
                      /\ \A w \in Requests :
                            tx'[w].mine /\ tx'[w].entry = tx'[q].entry /\ tx'[w].member = tx'[q].member => w = q
    BY <1>1 DEF Holding, timeline
  <2>1. q # r /\ tx'[q] = tx[q] /\ tx[q].mine
    BY <1>3
  <2>2. ~(tx[q].entry = e /\ tx[q].member = m)
    BY <2>1 DEF IInv, AttentionInv, Holding
  <2> QED BY <1>1, <1>3, <2>1, <2>2 DEF IInv, AttentionInv, Holding
<1>10. (\A q \in Requests : Sound(tx[q]))'
  <2> SUFFICES ASSUME NEW q \in Requests
               PROVE  Sound(tx[q])'
    OBVIOUS
  <2>1. CASE q = r
    BY <1>3, <2>1 DEF Idle, Sound
  <2>2. CASE q # r
    BY <1>1, <1>3, <2>2 DEF IInv, AttentionInv, Sound, timeline
  <2> QED BY <2>1, <2>2
<1> QED BY <1>6, <1>7, <1>8, <1>9, <1>10 DEF IInv, AttentionInv

LEMMA RequestStep ==
    ASSUME AttentionAssumption, IInv, NEW r \in Requests, Request(r)
    PROVE  IInv'
<1>1. CASE CommitReview(r) /\ ~tx[r].mine
  BY <1>1, IdleSound, LocalStep DEF CommitReview, KeepTimeline
<1>2. CASE CommitReview(r) /\ tx[r].mine
  BY <1>2, CommitReviewStep
<1> QED
  BY <1>1, <1>2, SelectItemStep, InsertReviewStep, CountUnreadStep, ReadEntriesStep, ReadCountStep, EndStep
  DEF Request

\* A cleanup marks entries that no open review holds.
LEMMA CleanUpStep ==
    ASSUME AttentionAssumption, IInv, CleanUp \/ FailCleanUp
    PROVE  IInv'
<1>1. doomed' \subseteq Kept \ Locked /\ UNCHANGED <<collector, timeline, review, credited, tx>>
  BY DEF CleanUp, FailCleanUp
<1>2. TypeOK' /\ Behind' /\ RecoveryIsLater' /\ Credited' /\ (\A r \in Requests : Sound(tx[r]))'
  BY <1>1 DEF IInv, TypeOK, References, AttentionInv, Behind, RecoveryIsLater, Credited, Sound, Kept,
              collector, timeline
<1>3. Holding'
  BY <1>1 DEF IInv, AttentionInv, Holding, Locked, timeline
<1> QED BY <1>2, <1>3 DEF IInv, AttentionInv

\* A cleanup deletes entries with their items and reviews.
LEMMA CommitCleanUpStep ==
    ASSUME AttentionAssumption, IInv, CommitCleanUp
    PROVE  IInv'
<1>1. /\ entry' = [e \in DOMAIN entry |-> [entry[e] EXCEPT !.kept = @ /\ e \notin doomed]]
      /\ item' = item \ doomed
      /\ review' = {p \in review : p[1] \notin doomed}
      /\ doomed' = {}
      /\ UNCHANGED <<collector, credited, tx>>
  BY DEF CommitCleanUp
<1>2. DOMAIN entry = 1..Len(entry) /\ Len(entry) \in Nat /\ Len(entry) <= MaxEntries
      /\ (\A e \in DOMAIN entry : entry[e] \in EntryRecord) /\ Kept \subseteq DOMAIN entry
  BY EntryFacts DEF IInv, AttentionAssumption
<1>3. /\ DOMAIN entry' = DOMAIN entry
      /\ \A e \in DOMAIN entry : /\ entry'[e] \in EntryRecord
                                  /\ entry'[e].version = entry[e].version
                                  /\ entry'[e].recoveryOf = entry[e].recoveryOf
                                  /\ entry'[e].kept = (entry[e].kept /\ e \notin doomed)
  BY <1>1, <1>2 DEF EntryRecord
<1>4. entry' \in Seq(EntryRecord) /\ Len(entry') = Len(entry)
  <2>1. entry' \in [1..Len(entry) -> EntryRecord]
    BY <1>1, <1>2, <1>3
  <2>2. entry' \in Seq(EntryRecord)
    BY <1>2, <2>1, SeqDef
  <2> QED BY <1>2, <1>3, <2>2, LenProperties
<1>5. Kept' = Kept \ doomed
  BY <1>3 DEF Kept
<1>6. TypeOK'
  <2>1. References'
    BY <1>1, <1>2, <1>3, <1>5 DEF IInv, TypeOK, References
  <2> QED BY <1>1, <1>2, <1>4, <1>5, <2>1 DEF IInv, TypeOK, EntryRecord, collector
<1>7. Behind' /\ RecoveryIsLater'
  BY <1>1, <1>2, <1>3, <1>5 DEF IInv, AttentionInv, Behind, RecoveryIsLater, collector
<1>8. Holding'
  BY <1>1 DEF IInv, AttentionInv, Holding
<1>9. Credited'
  <2> SUFFICES ASSUME NEW p \in Entries \X Members, credited[p] # 0
               PROVE  credited[p] = 1 /\ (p \in review' \/ p[1] \in DOMAIN entry \ (Kept \ doomed))
    BY <1>1, <1>3, <1>5 DEF Credited
  <2>1. doomed \subseteq DOMAIN entry
    BY <1>2 DEF IInv, TypeOK
  <2> QED BY <1>1, <2>1 DEF IInv, AttentionInv, Credited
<1>10. (\A r \in Requests : Sound(tx[r]))'
  BY <1>1, <1>3 DEF IInv, AttentionInv, Sound
<1> QED BY <1>6, <1>7, <1>8, <1>9, <1>10 DEF IInv, AttentionInv

-----------------------------------------------------------------------------
(* The collector.                                                           *)

\* Storing a version keeps the invariant, where the checkpoint moves so that
\* nothing stored is ahead of it, and what is ahead of the version overtook it.
LEMMA StoreStep ==
    ASSUME AttentionAssumption, IInv, NEW v \in Versions, Store(v), v <= newest,
           position' \in 0..newest, overtaken' \in 0..newest, overtaken <= overtaken',
           \A e \in Kept : entry[e].version <= v \/ v < overtaken',
           position' # 0 => /\ v <= position' \/ v <= overtaken'
                            /\ \A e \in Kept : entry[e].version <= position' \/ entry[e].version <= overtaken'
    PROVE  IInv'
<1> USE DEF IInv, AttentionInv
<1>1. newest \in Versions /\ overtaken \in 0..newest /\ newest \in Nat /\ overtaken' \in Nat
      /\ UNCHANGED <<newest, review, credited, doomed, tx>> /\ doomed = {}
  BY DEF TypeOK, Store, Versions, AttentionAssumption
<1>2. CASE UNCHANGED timeline
  <2>1. TypeOK' /\ Holding' /\ Credited' /\ (\A r \in Requests : Sound(tx[r]))'
    BY <1>1, <1>2 DEF TypeOK, References, Holding, Credited, Sound, Kept, timeline
  <2>2. RecoveryIsLater'
    <3>1. \A e \in DOMAIN entry : entry[e].version \in Nat
      BY EntryFacts DEF EntryRecord, Versions
    <3> QED BY <1>1, <1>2, <3>1 DEF RecoveryIsLater, timeline
  <2>3. Behind'
    BY <1>1, <1>2 DEF Behind, Kept, timeline
  <2> QED BY <2>1, <2>2, <2>3
<1>3. CASE ~UNCHANGED timeline
  <2> DEFINE n == Len(entry) + 1
             new == [version |-> v, recoveryOf |-> MarkRecovery(v), kept |-> TRUE]
  <2>1. /\ \A e \in Kept : entry[e].version # v
        /\ Len(entry) < MaxEntries
        /\ entry' = Append(entry, new)
        /\ item' = IF NeedsAttention(v) THEN item \cup {n} ELSE item
    BY <1>3 DEF Store
  <2>2. /\ DOMAIN entry = 1..Len(entry) /\ Len(entry) \in Nat /\ n \in Entries
        /\ \A e \in DOMAIN entry : entry[e] \in EntryRecord /\ entry[e].version \in Nat /\ entry[e].recoveryOf \in Nat
        /\ Kept \subseteq DOMAIN entry /\ item \subseteq Kept /\ n \notin DOMAIN entry
        /\ entry \in Seq(EntryRecord)
    BY <2>1, EntryFacts DEF TypeOK, Entries, EntryRecord, Versions, AttentionAssumption
  <2>3. /\ MarkRecovery(v) \in 0..MaxVersion
        /\ MarkRecovery(v) < v \/ v < overtaken'
    <3>1. CASE MarkRecovery(v) = 0
      BY <3>1 DEF AttentionAssumption, Versions
    <3>2. CASE MarkRecovery(v) # 0
      <4>1. Previous # 0 /\ MarkRecovery(v) = entry[Previous].version
        BY <3>2 DEF MarkRecovery
      <4>2. Previous \in Kept /\ entry[Previous] \in EntryRecord
        BY <4>1, PreviousFacts
      <4> HIDE DEF Previous
      <4> QED BY <2>1, <4>1, <4>2 DEF EntryRecord, Versions, AttentionAssumption
    <3> QED BY <3>1, <3>2
  <2>4. new \in EntryRecord /\ new.version = v /\ new.recoveryOf = MarkRecovery(v) /\ new.kept
    BY <2>3 DEF EntryRecord
  <2> HIDE DEF new
  <2>5. /\ entry' \in Seq(EntryRecord) /\ Len(entry') = n /\ DOMAIN entry' = DOMAIN entry \cup {n}
        /\ entry'[n] = new /\ \A e \in DOMAIN entry : entry'[e] = entry[e]
    BY <2>1, <2>2, <2>4
  <2>6. Kept' = Kept \cup {n}
    BY <2>2, <2>4, <2>5 DEF Kept
  <2>7. TypeOK'
    <3>1. References'
      BY <1>1, <2>1, <2>2, <2>4, <2>5, <2>6 DEF TypeOK, References, NeedsAttention
    <3> QED BY <1>1, <2>1, <2>2, <2>5, <2>6, <3>1 DEF TypeOK, EntryRecord, AttentionAssumption
  <2>8. Behind'
    BY <1>1, <2>2, <2>4, <2>5, <2>6 DEF Behind
  <2>9. RecoveryIsLater'
    BY <1>1, <2>2, <2>3, <2>4, <2>5 DEF RecoveryIsLater
  <2>10. Holding'
    BY <1>1, <2>1 DEF Holding
  <2>11. Credited'
    BY <1>1, <2>2, <2>5, <2>6 DEF Credited
  <2>12. (\A r \in Requests : Sound(tx[r]))'
    BY <1>1, <2>1, <2>2, <2>5 DEF Sound
  <2> QED BY <2>7, <2>8, <2>9, <2>10, <2>11, <2>12
<1> QED BY <1>2, <1>3

\* The collector stores what it lists or is told next, or loses its position.
LEMMA CollectorStep ==
    ASSUME AttentionAssumption, IInv, Collector
    PROVE  IInv'
<1> USE DEF IInv, AttentionInv
<1>1. /\ newest \in Versions /\ newest \in Nat /\ MaxVersion \in Nat /\ Versions = 1..MaxVersion
      /\ position \in 0..newest /\ overtaken \in 0..newest
      /\ \A e \in Kept :
            /\ entry[e].version \in Nat /\ entry[e].version <= newest
            /\ position # 0 => entry[e].version <= position \/ entry[e].version <= overtaken
  BY EntryFacts DEF TypeOK, Behind, EntryRecord, Versions, AttentionAssumption
<1>2. CASE Modify
  <2>1. /\ newest < MaxVersion /\ newest' = newest + 1
        /\ UNCHANGED <<position, overtaken, timeline, review, credited, doomed, tx>>
    BY <1>2 DEF Modify
  <2>2. TypeOK'
    BY <1>1, <2>1 DEF TypeOK, References, Kept, timeline
  <2>3. Behind'
    BY <1>1, <2>1 DEF Behind, Kept, timeline
  <2>4. RecoveryIsLater' /\ Holding' /\ Credited' /\ (\A r \in Requests : Sound(tx[r]))'
    BY <2>1 DEF RecoveryIsLater, Holding, Credited, Sound, Kept, timeline
  <2> QED BY <2>2, <2>3, <2>4
<1>3. CASE CollectOnStart
  BY <1>1, <1>3, StoreStep DEF CollectOnStart
<1>4. CASE SynchronizeList
  BY <1>1, <1>4, StoreStep DEF SynchronizeList
<1>5. CASE WatchEvent
  <2>1. position + 1 \in Versions /\ position + 1 <= newest
    BY <1>1, <1>5 DEF WatchEvent
  <2>2. Store(position + 1) /\ position' = position + 1 /\ overtaken' = overtaken /\ position # 0
    BY <1>1, <1>5 DEF WatchEvent
  <2>3. \A e \in Kept : entry[e].version <= position + 1 \/ position + 1 < overtaken'
    BY <1>1, <2>2
  <2>4. \A e \in Kept : entry[e].version <= position' \/ entry[e].version <= overtaken'
    BY <1>1, <2>2
  <2> QED BY <1>1, <2>1, <2>2, <2>3, <2>4, StoreStep
<1>6. CASE ClearCheckpoint
  <2>1. position' = 0 /\ UNCHANGED <<newest, overtaken, timeline, review, credited, doomed, tx>>
    BY <1>6 DEF ClearCheckpoint
  <2> QED BY <1>1, <2>1 DEF TypeOK, References, Behind, RecoveryIsLater, Holding, Credited, Sound, Kept, timeline
<1> QED BY <1>2, <1>3, <1>4, <1>5, <1>6 DEF Collector

\* The inductive invariant of Attention.
THEOREM Invariance == Spec => []IInv
<1>1. Init => IInv
  BY InitInv, AttentionAssumption
<1>2. IInv /\ [Next]_vars => IInv'
  <2> SUFFICES ASSUME IInv, [Next]_vars
               PROVE  IInv'
    OBVIOUS
  <2>1. CASE Collector
    BY <2>1, CollectorStep, AttentionAssumption
  <2>2. CASE Retention
    BY <2>2, CleanUpStep, CommitCleanUpStep, AttentionAssumption DEF Retention
  <2>3. ASSUME NEW r \in Requests, Request(r)
        PROVE  IInv'
    BY <2>3, RequestStep, AttentionAssumption
  <2>4. CASE UNCHANGED vars
    BY <2>4 DEF vars, IInv, TypeOK, References, AttentionInv, Behind, RecoveryIsLater, Holding, Credited,
                Sound, Kept
  <2> QED BY <2>1, <2>2, <2>3, <2>4 DEF Next
<1> QED BY <1>1, <1>2, PTL DEF Spec

\* Entries, items, reviews and requests keep their types; only items are reviewed.
THEOREM TypesKept == Spec => []TypeOK
<1>1. IInv => TypeOK
  BY DEF IInv
<1> QED BY <1>1, Invariance, PTL

\* An entry is the recovery of an earlier state, whatever is listed again,
\* expires or is deleted, unless an initial collection has overtaken it.
THEOREM RecoveriesFollow == Spec => []RecoveryIsLater
<1>1. IInv => RecoveryIsLater
  BY DEF IInv, AttentionInv
<1> QED BY <1>1, Invariance, PTL

\* Of the requests of a Member to review an item, one is told that it made it.
THEOREM OneReview == Spec => []ReviewedOnce
<1>1. IInv => ReviewedOnce
  BY DEF IInv, TypeOK, AttentionInv, Credited, ReviewedOnce
<1> QED BY <1>1, Invariance, PTL

\* Unread counts agree with the marks and the review they are shown with.
THEOREM CountsAgree == Spec => []UnreadAgrees
<1>1. IInv => UnreadAgrees
  BY DEF IInv, AttentionInv, Sound, UnreadAgrees, At
<1> QED BY <1>1, Invariance, PTL
=============================================================================
