--------------------------- MODULE Correlation_proofs ---------------------------
(***************************************************************************)
(* Proofs about Correlation, for any entries, periods and requests.  The    *)
(* argument: the writer lock keeps transactions apart from their read to    *)
(* their commit, so what a refresh, a decision or a cleanup has read still  *)
(* holds when it writes; a pair has a link exactly when its suggestion is   *)
(* confirmed; and no cleanup dooms an entry with a link, so links stay.     *)
(***************************************************************************)
EXTENDS Correlation, FiniteSetTheorems, FunctionTheorems, TLAPS

Serialized == \A r, q \in Requests : tx[r].at \in Writing /\ tx[q].at \in Writing => r = q

LinkInv == \A p \in Pairs : link[p] <=> suggestion[p].status = "confirmed"

Used(p) == entry[p[1]].kind # "none" /\ entry[p[2]].kind # "none"

DecidedInv ==
    \A p \in Pairs :
        /\ <<p, "confirmed">> \in decided => link[p]
        /\ <<p, "rejected">> \in decided => Used(p) /\ (Intact(p) => suggestion[p].status = "rejected")

Unlinked(e) == \A p \in Pairs : link[p] => e \notin {p[1], p[2]}

\* What a request has read and still relies on.
Knows(r) ==
    LET t == tx[r] IN
    /\ t.day <= today
    /\ t.then # "idle" \/ t.at \in {"show", "links", "shown", "decide", "deciding"} => t.pair \in Pairs
    /\ t.at = "record" => t.source \in Sources
    /\ t.at \in {"create", "update"} => t.subject \in Subjects
    /\ t.at = "update" => t.entry \in Entries
    /\ t.at = "refreshing" => \A p \in t.pairs : Intact(p)
    /\ t.at = "deciding" => suggestion[t.pair].status = "pending"
    /\ t.at = "cleaning" => \A e \in t.doomed :
            entry[e].kind = "observation" /\ entry[e].at + retention < t.day /\ Unlinked(e)
    /\ t.at = "links" /\ t.status = "confirmed" => link[t.pair]
    /\ t.at = "shown" /\ t.status = "confirmed" => t.linked

CorrelationInv ==
    /\ Serialized
    /\ LinkInv
    /\ DecidedInv
    /\ \A r \in Requests : Knows(r)

IInv == TypeOK /\ CorrelationInv

-----------------------------------------------------------------------------
(* Constants, pairs and rows.                                               *)

LEMMA PairEnds ==
    ASSUME NEW p \in Pairs
    PROVE  p[1] \in Entries /\ p[2] \in Entries
BY DEF Pairs

LEMMA Constants ==
    ASSUME CorrelationAssumption
    PROVE  /\ Idle \in Tx /\ Idle.at = "idle" /\ Idle.then = "idle" /\ Idle.day = 0
           /\ 0 \in Rows /\ 0 \in Days /\ 1 \in Periods /\ MaxDays \in Periods
<1>1. Cardinality(Requests) \in Nat
  BY FS_CardinalityType DEF CorrelationAssumption
<1>2. 0 \in Rows /\ 0 \in Days /\ 1 \in Periods /\ MaxDays \in Periods
  BY <1>1 DEF Rows, Days, Periods, CorrelationAssumption
<1>3. Idle \in Tx
  BY <1>2 DEF Idle, Tx, Places
<1> QED BY <1>2, <1>3 DEF Idle

\* There is an identifier for a new row that no request refers to.
LEMMA FreshRow ==
    ASSUME CorrelationAssumption, IInv, NEW p \in Pairs
    PROVE  NewRow(p) \in Rows
<1> DEFINE f == [q \in Requests |-> tx[q].row]
           n == Cardinality(Requests)
<1>1. IsFiniteSet(Requests) /\ n \in Nat
  BY FS_CardinalityType DEF CorrelationAssumption
<1>2. f \in Surjection(Requests, Range(f))
  <2>1. f \in [Requests -> Rows]
    BY DEF IInv, TypeOK, Tx
  <2> QED BY <2>1, Fun_RangeProperties
<1>3. IsFiniteSet(Range(f)) /\ Cardinality(Range(f)) <= n
  BY <1>1, <1>2, FS_Surjection
<1>4. IsFiniteSet(Rows) /\ Cardinality(Rows) = n + 1
  BY <1>1, FS_Interval DEF Rows
<1>5. PICK i \in Rows : i \notin Range(f)
  <2>1. SUFFICES ASSUME Rows \subseteq Range(f) PROVE FALSE
    OBVIOUS
  <2>2. Cardinality(Rows) <= Cardinality(Range(f))
    BY <1>3, <2>1, FS_Subset
  <2>3. Cardinality(Range(f)) \in Nat
    BY <1>3, FS_CardinalityType
  <2> QED BY <1>1, <1>3, <1>4, <2>2, <2>3
<1>6. \A q \in Requests : tx[q].row # i
  BY <1>5 DEF Range
<1> QED BY <1>6 DEF NewRow

\* What a refresh makes of a suggestion.
LEMMA Upserted ==
    ASSUME CorrelationAssumption, IInv, NEW p \in Pairs, NEW candidates
    PROVE  /\ Upsert(p, candidates) \in [status : {"none", "pending", "confirmed", "rejected"}, row : Rows]
           /\ Upsert(p, candidates).status = "confirmed" <=> suggestion[p].status = "confirmed"
           /\ Upsert(p, candidates).status = "rejected" <=> suggestion[p].status = "rejected"
           /\ suggestion[p].status = "none" /\ p \notin candidates => Upsert(p, candidates).status = "none"
<1>1. suggestion[p] \in [status : {"none", "pending", "confirmed", "rejected"}, row : Rows]
  BY DEF IInv, TypeOK
<1>2. [status |-> "pending", row |-> NewRow(p)] \in [status : {"none", "pending", "confirmed", "rejected"}, row : Rows]
  BY FreshRow
<1>3. NoRow \in [status : {"none", "pending", "confirmed", "rejected"}, row : Rows] /\ NoRow.status = "none"
  BY Constants DEF NoRow
<1>4. CASE suggestion[p].status = "pending" /\ p \notin candidates
  BY <1>3, <1>4 DEF Upsert
<1>5. CASE suggestion[p].status = "none" /\ p \in candidates
  BY <1>2, <1>5 DEF Upsert
<1>6. CASE ~ (suggestion[p].status = "pending" /\ p \notin candidates) /\ ~ (suggestion[p].status = "none" /\ p \in candidates)
  BY <1>1, <1>6 DEF Upsert
<1> QED BY <1>4, <1>5, <1>6

-----------------------------------------------------------------------------
LEMMA InitInv ==
    ASSUME CorrelationAssumption, Init
    PROVE  IInv
<1>1. \A e \in Entries : entry[e].kind = "none"
  BY DEF Init
<1>2. \A p \in Pairs : suggestion[p].status = "none" /\ ~ link[p]
  BY DEF Init, NoRow
<1>3. \A r \in Requests : tx[r] = Idle
  BY DEF Init
<1>4. TypeOK
  <2>1. entry \in [Entries -> Entry]
    <3>1. (CHOOSE s \in Subjects : TRUE) \in Subjects
      BY DEF CorrelationAssumption
    <3> QED BY <3>1, Constants DEF Init, Entry
  <2>2. suggestion \in [Pairs -> [status : {"none", "pending", "confirmed", "rejected"}, row : Rows]]
    BY Constants DEF Init, NoRow
  <2>3. References
    BY <1>2 DEF References
  <2> QED BY <2>1, <2>2, <2>3, Constants DEF Init, TypeOK
<1>5. Serialized /\ LinkInv /\ DecidedInv
  BY <1>2, <1>3, Constants DEF Init, Serialized, Writing, LinkInv, DecidedInv
<1>6. \A r \in Requests : Knows(r)
  BY <1>3, Constants DEF Init, Knows
<1> QED BY <1>4, <1>5, <1>6 DEF IInv, CorrelationInv

-----------------------------------------------------------------------------
(* Steps that change one request.                                           *)

LEMMA LocalStep ==
    ASSUME IInv, NEW r \in Requests, NEW t \in Tx, tx' = [tx EXCEPT ![r] = t],
           UNCHANGED <<today, retention, entry, suggestion, link>>,
           decided' \subseteq Pairs \X {"confirmed", "rejected"}, DecidedInv',
           t.at \in Writing => LockFree(r),
           Knows(r)'
    PROVE  IInv'
<1>1. tx' \in [Requests -> Tx] /\ tx'[r] = t /\ \A q \in Requests \ {r} : tx'[q] = tx[q]
  BY DEF IInv, TypeOK
<1>2. TypeOK'
  BY <1>1 DEF IInv, TypeOK, References, Intact, Kept
<1>3. Serialized'
  BY <1>1 DEF IInv, CorrelationInv, Serialized, LockFree
<1>4. \A q \in Requests : Knows(q)'
  BY <1>1 DEF IInv, CorrelationInv, Knows, Intact, Kept, Unlinked
<1>5. LinkInv'
  BY DEF IInv, CorrelationInv, LinkInv
<1> QED BY <1>2, <1>3, <1>4, <1>5 DEF IInv, CorrelationInv

\* The same when no decision is answered.
LEMMA QuietStep ==
    ASSUME IInv, NEW r \in Requests, NEW t \in Tx, tx' = [tx EXCEPT ![r] = t],
           UNCHANGED <<today, retention, entry, suggestion, link, decided>>,
           t.at \in Writing => LockFree(r),
           Knows(r)'
    PROVE  IInv'
<1>1. DecidedInv' /\ decided' \subseteq Pairs \X {"confirmed", "rejected"}
  BY DEF IInv, TypeOK, CorrelationInv, DecidedInv, Used, Intact, Kept
<1> QED BY <1>1, LocalStep

\* What a request is at.
LEMMA RequestTypes ==
    ASSUME IInv, NEW r \in Requests
    PROVE  tx[r] \in Tx /\ Knows(r) /\ tx \in [Requests -> Tx]
BY DEF IInv, TypeOK, CorrelationInv

LEMMA EndStep ==
    ASSUME CorrelationAssumption, IInv, NEW r \in Requests, End(r),
           UNCHANGED <<today, retention, entry, suggestion, link, decided>>
    PROVE  IInv'
<1>1. tx' = [tx EXCEPT ![r] = Idle] /\ tx'[r] = Idle
  BY RequestTypes DEF End
<1>2. today \in Nat
  BY DEF IInv, TypeOK, Days
<1>3. Knows(r)'
  BY <1>1, <1>2, Constants DEF Knows
<1> QED BY <1>1, <1>3, Constants, QuietStep DEF Writing

\* A request that begins knows what it was given.
LEMMA BeginStep ==
    ASSUME CorrelationAssumption, IInv, NEW r \in Requests, NEW request \in Tx, Begin(r, request),
           request.at \in {"record", "create", "update", "policy", "refresh", "clean"},
           request.then # "idle" => request.pair \in Pairs,
           request.at = "record" => request.source \in Sources,
           request.at \in {"create", "update"} => request.subject \in Subjects,
           request.at = "update" => request.entry \in Entries
    PROVE  IInv'
<1> DEFINE t == [request EXCEPT !.day = today]
<1>1. today \in Days /\ today \in Nat
  BY DEF IInv, TypeOK, Days
<1>2. /\ t \in Tx /\ t.at = request.at /\ t.then = request.then /\ t.pair = request.pair /\ t.source = request.source
      /\ t.subject = request.subject /\ t.entry = request.entry /\ t.day = today
  BY <1>1 DEF Tx
<1>3. tx' = [tx EXCEPT ![r] = t] /\ tx'[r] = t /\ UNCHANGED <<today, retention, entry, suggestion, link, decided>>
  BY RequestTypes DEF Begin
<1> HIDE DEF t
<1>4. Knows(r)'
  BY <1>1, <1>2, <1>3 DEF Knows
<1> QED BY <1>2, <1>3, <1>4, QuietStep DEF Writing

LEMMA BeginSteps ==
    ASSUME CorrelationAssumption, IInv, NEW r \in Requests,
           \/ BeginRecord(r) \/ BeginCreate(r) \/ BeginUpdate(r) \/ BeginList(r)
           \/ BeginShow(r) \/ BeginDecide(r) \/ BeginPolicy(r) \/ BeginClean(r)
    PROVE  IInv'
<1>1. CASE BeginRecord(r)
  <2>1. PICK s \in Sources : Begin(r, [Idle EXCEPT !.at = "record", !.source = s])
    BY <1>1 DEF BeginRecord
  <2> DEFINE q == [Idle EXCEPT !.at = "record", !.source = s]
  <2>2. q \in Tx /\ q.at = "record" /\ q.then = "idle" /\ q.source = s
    BY Constants DEF Tx, Places
  <2> QED BY <2>1, <2>2, BeginStep
<1>2. CASE BeginCreate(r)
  <2>1. PICK s \in Subjects : Begin(r, [Idle EXCEPT !.at = "create", !.subject = s])
    BY <1>2 DEF BeginCreate
  <2> DEFINE q == [Idle EXCEPT !.at = "create", !.subject = s]
  <2>2. q \in Tx /\ q.at = "create" /\ q.then = "idle" /\ q.subject = s
    BY Constants DEF Tx, Places
  <2> QED BY <2>1, <2>2, BeginStep
<1>3. CASE BeginUpdate(r)
  <2>1. PICK e \in Entries, s \in Subjects : Begin(r, [Idle EXCEPT !.at = "update", !.entry = e, !.subject = s])
    BY <1>3 DEF BeginUpdate
  <2> DEFINE q == [Idle EXCEPT !.at = "update", !.entry = e, !.subject = s]
  <2>2. q \in Tx /\ q.at = "update" /\ q.then = "idle" /\ q.subject = s /\ q.entry = e
    BY Constants DEF Tx, Places
  <2> QED BY <2>1, <2>2, BeginStep
<1>4. CASE BeginList(r)
  <2> DEFINE q == [Idle EXCEPT !.at = "refresh"]
  <2>1. q \in Tx /\ q.at = "refresh" /\ q.then = "idle"
    BY Constants DEF Tx, Places
  <2> QED BY <1>4, <2>1, BeginStep DEF BeginList
<1>5. ASSUME NEW then \in {"show", "decide"}, Follow(r, then) PROVE IInv'
  <2>1. PICK p \in Pairs, d \in {"confirmed", "rejected"} :
          Begin(r, [Idle EXCEPT !.at = "refresh", !.then = then, !.pair = p,
                                !.row = suggestion[p].row, !.decision = d])
    BY <1>5 DEF Follow
  <2> DEFINE q == [Idle EXCEPT !.at = "refresh", !.then = then, !.pair = p,
                               !.row = suggestion[p].row, !.decision = d]
  <2>2. suggestion[p].row \in Rows
    BY DEF IInv, TypeOK
  <2>3. q \in Tx /\ q.at = "refresh" /\ q.pair = p
    BY <2>2, Constants DEF Tx, Places
  <2> QED BY <2>1, <2>3, BeginStep
<1>6. CASE BeginPolicy(r)
  <2>1. PICK n \in Periods : Begin(r, [Idle EXCEPT !.at = "policy", !.period = n])
    BY <1>6 DEF BeginPolicy
  <2> DEFINE q == [Idle EXCEPT !.at = "policy", !.period = n]
  <2>2. q \in Tx /\ q.at = "policy" /\ q.then = "idle"
    BY Constants DEF Tx, Places
  <2> QED BY <2>1, <2>2, BeginStep
<1>7. CASE BeginClean(r)
  <2> DEFINE q == [Idle EXCEPT !.at = "clean"]
  <2>1. q \in Tx /\ q.at = "clean" /\ q.then = "idle"
    BY Constants DEF Tx, Places
  <2> QED BY <1>7, <2>1, BeginStep DEF BeginClean
<1> QED BY <1>1, <1>2, <1>3, <1>4, <1>5, <1>6, <1>7 DEF BeginShow, BeginDecide

LEMMA RefreshStep ==
    ASSUME CorrelationAssumption, IInv, NEW r \in Requests, Refresh(r)
    PROVE  IInv'
<1> DEFINE t == [tx[r] EXCEPT !.at = "refreshing", !.pairs = Candidates]
<1>1. Candidates \subseteq Pairs /\ \A p \in Candidates : Intact(p)
  BY DEF Candidates
<1>2. /\ t \in Tx /\ t.at = "refreshing" /\ t.pairs = Candidates /\ t.day = tx[r].day /\ t.then = tx[r].then
      /\ t.pair = tx[r].pair
  <2>1. tx[r] \in Tx
    BY RequestTypes
  <2>2. Candidates \in SUBSET Pairs
    BY <1>1
  <2> QED BY <2>1, <2>2 DEF Tx, Places
<1>3. tx' = [tx EXCEPT ![r] = t] /\ tx'[r] = t /\ UNCHANGED <<today, retention, entry, suggestion, link, decided>>
  BY RequestTypes DEF Refresh
<1> HIDE DEF t
<1>4. Knows(r)'
  BY <1>1, <1>2, <1>3, RequestTypes DEF Knows, Intact, Kept
<1> QED BY <1>2, <1>3, <1>4, QuietStep DEF Refresh

LEMMA ShowStep ==
    ASSUME CorrelationAssumption, IInv, NEW r \in Requests, Show(r)
    PROVE  IInv'
<1> DEFINE p == tx[r].pair
           t == [tx[r] EXCEPT !.at = "links", !.status = suggestion[p].status]
<1>1. UNCHANGED <<today, retention, entry, suggestion, link, decided>> /\ tx[r].at = "show" /\ p \in Pairs
  BY RequestTypes DEF Show, Knows
<1>2. CASE HasRow(r)
  <2>1. suggestion[p].status \in {"none", "pending", "confirmed", "rejected"}
    BY <1>1 DEF IInv, TypeOK
  <2>2. t \in Tx /\ t.at = "links" /\ t.status = suggestion[p].status /\ t.day = tx[r].day /\ t.then = tx[r].then /\ t.pair = p
    <3>1. tx[r] \in Tx
      BY RequestTypes
    <3> QED BY <3>1, <2>1 DEF Tx, Places
  <2>3. tx' = [tx EXCEPT ![r] = t] /\ tx'[r] = t
    BY <1>2, RequestTypes DEF Show
  <2>4. suggestion[p].status = "confirmed" => link[p]
    BY <1>1 DEF IInv, CorrelationInv, LinkInv
  <2> HIDE DEF t
  <2>5. Knows(r)'
    BY <1>1, <2>2, <2>3, <2>4, RequestTypes DEF Knows
  <2> QED BY <1>1, <2>2, <2>3, <2>5, QuietStep DEF Writing
<1>3. CASE ~ HasRow(r)
  BY <1>1, <1>3, EndStep DEF Show
<1> QED BY <1>2, <1>3

LEMMA ShowLinksStep ==
    ASSUME CorrelationAssumption, IInv, NEW r \in Requests, ShowLinks(r)
    PROVE  IInv'
<1> DEFINE t == [tx[r] EXCEPT !.at = "shown", !.linked = link[tx[r].pair]]
<1>1. UNCHANGED <<today, retention, entry, suggestion, link, decided>> /\ tx[r].at = "links" /\ tx[r].pair \in Pairs
  BY RequestTypes DEF ShowLinks, Knows
<1>2. link[tx[r].pair] \in BOOLEAN
  BY <1>1 DEF IInv, TypeOK
<1>3. /\ t \in Tx /\ t.at = "shown" /\ t.linked = link[tx[r].pair] /\ t.day = tx[r].day /\ t.then = tx[r].then
      /\ t.pair = tx[r].pair /\ t.status = tx[r].status
  <2>1. tx[r] \in Tx
    BY RequestTypes
  <2> QED BY <2>1, <1>2 DEF Tx, Places
<1>4. tx' = [tx EXCEPT ![r] = t] /\ tx'[r] = t
  BY RequestTypes DEF ShowLinks
<1> HIDE DEF t
<1>5. Knows(r)'
  BY <1>1, <1>3, <1>4, RequestTypes DEF Knows
<1> QED BY <1>1, <1>3, <1>4, <1>5, QuietStep DEF Writing

\* A row that is read with a decision stays what it is until its lock is free.
LEMMA DecideStep ==
    ASSUME CorrelationAssumption, IInv, NEW r \in Requests, Decide(r)
    PROVE  IInv'
<1> DEFINE p == tx[r].pair
           d == tx[r].decision
           t == [tx[r] EXCEPT !.at = "deciding"]
<1>1. /\ UNCHANGED <<today, retention, entry, suggestion, link>> /\ tx[r].at = "decide" /\ p \in Pairs /\ LockFree(r)
      /\ d \in {"confirmed", "rejected"}
  BY RequestTypes DEF Decide, Knows, Tx
<1>2. /\ decided' \subseteq Pairs \X {"confirmed", "rejected"}
      /\ \A x \in decided' : x \in decided \/ (x = <<p, d>> /\ suggestion[p].status = d)
  <2>1. CASE HasRow(r) /\ suggestion[p].status = d
    BY <1>1, <2>1 DEF Decide, IInv, TypeOK
  <2>2. CASE ~ (HasRow(r) /\ suggestion[p].status = d)
    BY <2>2 DEF Decide, IInv, TypeOK
  <2> QED BY <2>1, <2>2
<1>3. DecidedInv'
  <2>1. ASSUME NEW q \in Pairs
        PROVE  /\ <<q, "confirmed">> \in decided' => link[q]
               /\ <<q, "rejected">> \in decided' => Used(q) /\ (Intact(q) => suggestion[q].status = "rejected")
    <3>1. suggestion[q].status = "confirmed" => link[q]
      BY DEF IInv, CorrelationInv, LinkInv
    <3>2. suggestion[q].status = "rejected" => Used(q)
      BY DEF IInv, TypeOK, References, Intact, Kept, Used
    <3>3. /\ <<q, "confirmed">> \in decided => link[q]
          /\ <<q, "rejected">> \in decided => Used(q) /\ (Intact(q) => suggestion[q].status = "rejected")
      BY DEF IInv, CorrelationInv, DecidedInv
    <3>4. \A k : <<q, k>> = <<p, d>> => q = p /\ k = d
      OBVIOUS
    <3> QED BY <1>2, <3>1, <3>2, <3>3, <3>4
  <2> QED BY <1>1, <2>1 DEF DecidedInv, Used, Intact, Kept
<1>4. CASE HasRow(r) /\ suggestion[p].status = "pending"
  <2>1. t \in Tx /\ t.at = "deciding" /\ t.day = tx[r].day /\ t.then = tx[r].then /\ t.pair = p
    BY RequestTypes DEF Tx, Places
  <2>2. tx' = [tx EXCEPT ![r] = t] /\ tx'[r] = t
    BY <1>4, RequestTypes DEF Decide, Goto
  <2> HIDE DEF t
  <2>3. Knows(r)'
    BY <1>1, <1>4, <2>1, <2>2, RequestTypes DEF Knows
  <2> QED BY <1>1, <1>2, <1>3, <2>1, <2>2, <2>3, LocalStep
<1>5. CASE ~ (HasRow(r) /\ suggestion[p].status = "pending")
  <2>1. tx' = [tx EXCEPT ![r] = Idle] /\ tx'[r] = Idle
    BY <1>5, RequestTypes DEF Decide, End
  <2>2. today \in Nat
    BY DEF IInv, TypeOK, Days
  <2>3. Knows(r)'
    BY <1>1, <2>1, <2>2, Constants DEF Knows
  <2> QED BY <1>1, <1>2, <1>3, <2>1, <2>3, Constants, LocalStep DEF Writing
<1> QED BY <1>4, <1>5

LEMMA CleanStep ==
    ASSUME CorrelationAssumption, IInv, NEW r \in Requests, Clean(r)
    PROVE  IInv'
<1> DEFINE t == [tx[r] EXCEPT !.at = "cleaning", !.doomed = Eligible(tx[r].day)]
<1>1. /\ Eligible(tx[r].day) \subseteq Entries
      /\ \A e \in Eligible(tx[r].day) :
            entry[e].kind = "observation" /\ entry[e].at + retention < tx[r].day /\ Unlinked(e)
  BY DEF Eligible, Unlinked
<1>2. /\ t \in Tx /\ t.at = "cleaning" /\ t.doomed = Eligible(tx[r].day) /\ t.day = tx[r].day /\ t.then = tx[r].then
      /\ t.pair = tx[r].pair
  <2>1. tx[r] \in Tx
    BY RequestTypes
  <2>2. Eligible(tx[r].day) \in SUBSET Entries
    BY <1>1
  <2> QED BY <2>1, <2>2 DEF Tx, Places
<1>3. tx' = [tx EXCEPT ![r] = t] /\ tx'[r] = t /\ UNCHANGED <<today, retention, entry, suggestion, link, decided>>
  BY RequestTypes DEF Clean
<1> HIDE DEF t
<1>4. Knows(r)'
  BY <1>1, <1>2, <1>3, RequestTypes DEF Knows, Unlinked
<1> QED BY <1>2, <1>3, <1>4, QuietStep DEF Clean

-----------------------------------------------------------------------------
(* Steps that write.                                                        *)

\* A request whose write is committed goes on with a refresh.
LEMMA Refreshing ==
    ASSUME CorrelationAssumption, IInv, NEW r \in Requests, RefreshAfter(r), today' = today
    PROVE  /\ tx' \in [Requests -> Tx] /\ tx'[r].at = "refresh"
           /\ \A q \in Requests \ {r} : tx'[q] = tx[q]
           /\ Serialized' /\ Knows(r)'
<1> DEFINE t == [Idle EXCEPT !.at = "refresh"]
<1>1. t \in Tx /\ t.at = "refresh" /\ t.then = "idle" /\ t.day = 0
  BY Constants DEF Tx, Places
<1>2. tx' = [tx EXCEPT ![r] = t] /\ tx'[r] = t /\ tx' \in [Requests -> Tx] /\ \A q \in Requests \ {r} : tx'[q] = tx[q]
  BY <1>1, RequestTypes DEF RefreshAfter
<1> HIDE DEF t
<1>3. Serialized'
  BY <1>1, <1>2 DEF IInv, CorrelationInv, Serialized, Writing
<1>4. today \in Nat
  BY DEF IInv, TypeOK, Days
<1>5. Knows(r)'
  BY <1>1, <1>2, <1>4 DEF Knows
<1> QED BY <1>1, <1>2, <1>3, <1>5

\* Entries are added, or related to other subjects.
LEMMA EntryStep ==
    ASSUME CorrelationAssumption, IInv, NEW r \in Requests, LockFree(r), RefreshAfter(r),
           UNCHANGED <<today, retention, suggestion, link, decided>>,
           entry' \in [Entries -> Entry],
           \A e \in Entries : entry[e].kind # "none" =>
                entry'[e].kind = entry[e].kind /\ entry'[e].at = entry[e].at,
           \A e \in Entries : entry'[e].kind # "deleted" \/ entry[e].kind = "deleted"
    PROVE  IInv'
<1>1. /\ tx' \in [Requests -> Tx] /\ tx'[r].at = "refresh"
      /\ \A q \in Requests \ {r} : tx'[q] = tx[q]
      /\ Serialized' /\ Knows(r)'
  BY Refreshing
<1>2. ASSUME NEW p \in Pairs
      PROVE (Intact(p) => Intact(p)') /\ (Used(p) => Used(p)') /\ (Used(p) /\ Intact(p)' => Intact(p))
  BY PairEnds DEF Intact, Kept, Used
<1>3. TypeOK'
  <2>1. References'
    BY <1>2 DEF IInv, TypeOK, References
  <2> QED BY <1>1, <2>1 DEF IInv, TypeOK
<1>4. LinkInv' /\ DecidedInv'
  BY <1>2 DEF IInv, CorrelationInv, LinkInv, DecidedInv
<1>5. ASSUME NEW q \in Requests \ {r} PROVE Knows(q)'
  <2>1. tx'[q] = tx[q] /\ Knows(q) /\ tx[q].at \notin Writing
    BY <1>1 DEF IInv, CorrelationInv, LockFree
  <2> QED BY <2>1 DEF Knows, Writing
<1> QED BY <1>1, <1>3, <1>4, <1>5 DEF IInv, CorrelationInv

LEMMA InsertedEntry ==
    ASSUME IInv, NEW kind \in {"observation", "experiment"}, NEW source \in Sources \cup {NoSource},
           NEW subject \in Subjects, NEW day \in Days, Inserted(kind, source, subject, day)
    PROVE  /\ entry' \in [Entries -> Entry]
           /\ \A e \in Entries : entry[e].kind # "none" =>
                entry'[e].kind = entry[e].kind /\ entry'[e].at = entry[e].at
           /\ \A e \in Entries : entry'[e].kind # "deleted" \/ entry[e].kind = "deleted"
<1> DEFINE new == [kind |-> kind, source |-> source, subject |-> subject, at |-> day]
<1>1. PICK e \in Entries : /\ \A f \in Entries : entry[f].kind = "none" <=> e <= f
                           /\ entry' = [entry EXCEPT ![e] = new]
  BY DEF Inserted
<1>2. new \in Entry /\ new.kind # "deleted"
  BY DEF Entry
<1>3. entry \in [Entries -> Entry]
  BY DEF IInv, TypeOK
<1>4. entry[e].kind = "none"
  <2>1. e \in Nat /\ e <= e
    BY DEF Entries, CorrelationAssumption
  <2> QED BY <1>1, <2>1
<1> HIDE DEF new
<1> QED BY <1>1, <1>2, <1>3, <1>4

LEMMA RecordStep ==
    ASSUME CorrelationAssumption, IInv, NEW r \in Requests, Record(r) \/ Create(r) \/ Update(r)
    PROVE  IInv'
<1>1. CASE Record(r)
  <2>1. tx[r].source \in Sources /\ tx[r].day \in Days /\ SubjectOf[tx[r].source] \in Subjects
    BY <1>1, RequestTypes DEF Record, Knows, Tx, CorrelationAssumption
  <2>2. CASE UNCHANGED entry
    <3>1. entry \in [Entries -> Entry]
      BY DEF IInv, TypeOK
    <3> QED BY <1>1, <2>2, <3>1, EntryStep DEF Record
  <2>3. CASE Inserted("observation", tx[r].source, SubjectOf[tx[r].source], tx[r].day)
    BY <1>1, <2>1, <2>3, InsertedEntry, EntryStep DEF Record
  <2> QED BY <1>1, <2>2, <2>3 DEF Record
<1>2. CASE Create(r)
  <2>1. tx[r].subject \in Subjects /\ tx[r].day \in Days
    BY <1>2, RequestTypes DEF Create, Knows, Tx
  <2> QED BY <1>2, <2>1, InsertedEntry, EntryStep DEF Create
<1>3. CASE Update(r)
  <2> DEFINE e == tx[r].entry
  <2>1. e \in Entries /\ tx[r].subject \in Subjects /\ entry \in [Entries -> Entry]
    BY <1>3, RequestTypes DEF Update, Knows, IInv, TypeOK
  <2>2. entry' = [entry EXCEPT ![e].subject = tx[r].subject]
    BY <1>3 DEF Update
  <2> HIDE DEF e
  <2>3. entry' \in [Entries -> Entry] /\ \A f \in Entries : entry'[f].kind = entry[f].kind /\ entry'[f].at = entry[f].at
    BY <2>1, <2>2 DEF Entry
  <2> QED BY <1>3, <2>3, EntryStep DEF Update
<1> QED BY <1>1, <1>2, <1>3

LEMMA RefreshedStep ==
    ASSUME CorrelationAssumption, IInv, NEW r \in Requests, Refreshed(r)
    PROVE  IInv'
<1> DEFINE t == [tx[r] EXCEPT !.at = tx[r].then, !.pairs = {}]
<1>1. /\ tx[r].at = "refreshing" /\ UNCHANGED <<today, retention, entry, link, decided>>
      /\ suggestion' = [p \in Pairs |-> Upsert(p, tx[r].pairs)]
  BY DEF Refreshed
<1>2. tx[r] \in Tx /\ tx[r].then \in {"idle", "show", "decide"} /\ {} \in SUBSET Pairs
  BY RequestTypes DEF Tx
<1>3. t \in Tx /\ t.at = tx[r].then /\ t.then = tx[r].then /\ t.day = tx[r].day /\ t.pair = tx[r].pair
  BY <1>2 DEF Tx, Places
<1>4. tx' = [tx EXCEPT ![r] = t] /\ tx'[r] = t /\ tx' \in [Requests -> Tx] /\ \A q \in Requests \ {r} : tx'[q] = tx[q]
  BY <1>3, RequestTypes DEF Refreshed
<1> HIDE DEF t
<1>5. \A p \in Pairs : /\ suggestion'[p] \in [status : {"none", "pending", "confirmed", "rejected"}, row : Rows]
                       /\ suggestion'[p].status = "confirmed" <=> suggestion[p].status = "confirmed"
                       /\ suggestion'[p].status = "rejected" <=> suggestion[p].status = "rejected"
                       /\ suggestion'[p].status # "none" => Intact(p)
  <2>1. \A p \in tx[r].pairs : Intact(p)
    BY <1>1, RequestTypes DEF Knows
  <2>2. \A p \in Pairs : suggestion[p].status # "none" => Intact(p)
    BY DEF IInv, TypeOK, References
  <2> QED BY <1>1, <2>1, <2>2, Upserted
<1>6. TypeOK'
  <2>1. suggestion' \in [Pairs -> [status : {"none", "pending", "confirmed", "rejected"}, row : Rows]]
    BY <1>1, <1>5
  <2>2. References'
    BY <1>1, <1>5 DEF IInv, TypeOK, References, Intact, Kept
  <2> QED BY <1>1, <1>4, <2>1, <2>2 DEF IInv, TypeOK
<1>7. Serialized'
  BY <1>2, <1>3, <1>4 DEF IInv, CorrelationInv, Serialized, Writing
<1>8. LinkInv' /\ DecidedInv'
  BY <1>1, <1>5 DEF IInv, CorrelationInv, LinkInv, DecidedInv, Used, Intact, Kept
<1>9. ASSUME NEW q \in Requests PROVE Knows(q)'
  <2>1. CASE q = r
    BY <1>1, <1>2, <1>3, <1>4, <2>1, RequestTypes DEF Knows
  <2>2. CASE q # r
    <3>1. tx'[q] = tx[q] /\ tx[q].at \notin Writing /\ Knows(q)
      BY <1>1, <1>4, <2>2 DEF IInv, CorrelationInv, Serialized, Writing
    <3> QED BY <1>1, <3>1 DEF Knows, Writing
  <2> QED BY <2>1, <2>2
<1> QED BY <1>6, <1>7, <1>8, <1>9 DEF IInv, CorrelationInv

\* A commit that ends its request.
LEMMA Ended ==
    ASSUME CorrelationAssumption, IInv, NEW r \in Requests, End(r), today' = today
    PROVE  /\ tx' \in [Requests -> Tx] /\ tx'[r] = Idle
           /\ \A q \in Requests \ {r} : tx'[q] = tx[q]
           /\ Serialized' /\ Knows(r)'
<1>1. tx' \in [Requests -> Tx] /\ tx'[r] = Idle /\ \A q \in Requests \ {r} : tx'[q] = tx[q]
  BY Constants, RequestTypes DEF End
<1>2. Serialized'
  BY <1>1, Constants DEF IInv, CorrelationInv, Serialized, Writing
<1>3. today \in Nat
  BY DEF IInv, TypeOK, Days
<1>4. Knows(r)'
  BY <1>1, <1>3, Constants DEF Knows
<1> QED BY <1>1, <1>2, <1>4

LEMMA DecidedStep ==
    ASSUME CorrelationAssumption, IInv, NEW r \in Requests, Decided(r)
    PROVE  IInv'
<1> DEFINE p == tx[r].pair
           d == tx[r].decision
<1>1. /\ tx[r].at = "deciding" /\ p \in Pairs /\ d \in {"confirmed", "rejected"}
      /\ suggestion[p].status = "pending"
  BY RequestTypes DEF Decided, Knows, Tx
<1>2. /\ link' = [link EXCEPT ![p] = link[p] \/ d = "confirmed"]
      /\ suggestion' = [suggestion EXCEPT ![p].status = d]
      /\ decided' = decided \cup {<<p, d>>}
      /\ End(r) /\ UNCHANGED <<today, retention, entry>>
  BY DEF Decided
<1>3. /\ tx' \in [Requests -> Tx] /\ tx'[r] = Idle
      /\ \A q \in Requests \ {r} : tx'[q] = tx[q]
      /\ Serialized' /\ Knows(r)'
  BY <1>2, Ended
<1> HIDE DEF p, d
<1>4. /\ suggestion \in [Pairs -> [status : {"none", "pending", "confirmed", "rejected"}, row : Rows]]
      /\ link \in [Pairs -> BOOLEAN]
  BY DEF IInv, TypeOK
<1>5. ~ link[p]
  BY <1>1 DEF IInv, CorrelationInv, LinkInv
<1>6. link'[p] <=> d = "confirmed"
  BY <1>1, <1>2, <1>4, <1>5
<1>7. /\ suggestion' \in [Pairs -> [status : {"none", "pending", "confirmed", "rejected"}, row : Rows]]
      /\ suggestion'[p].status = d /\ \A q \in Pairs \ {p} : suggestion'[q] = suggestion[q]
  BY <1>1, <1>2, <1>4
<1>8. link' \in [Pairs -> BOOLEAN] /\ \A q \in Pairs \ {p} : link'[q] = link[q]
  BY <1>1, <1>2, <1>4
<1>9. Intact(p)
  BY <1>1 DEF IInv, TypeOK, References
<1>10. TypeOK'
  <2>1. References'
    BY <1>2, <1>7, <1>8, <1>9 DEF IInv, TypeOK, References, Intact, Kept
  <2>2. decided' \subseteq Pairs \X {"confirmed", "rejected"}
    BY <1>1, <1>2 DEF IInv, TypeOK
  <2> QED BY <1>2, <1>3, <1>7, <1>8, <2>1, <2>2 DEF IInv, TypeOK
<1>11. LinkInv'
  BY <1>6, <1>7, <1>8 DEF IInv, CorrelationInv, LinkInv
<1>12. DecidedInv'
  <2>1. ASSUME NEW q \in Pairs
        PROVE  /\ <<q, "confirmed">> \in decided' => link'[q]
               /\ <<q, "rejected">> \in decided' => Used(q) /\ (Intact(q) => suggestion'[q].status = "rejected")
    <3>1. /\ <<q, "confirmed">> \in decided => link[q]
          /\ <<q, "rejected">> \in decided => Used(q) /\ (Intact(q) => suggestion[q].status = "rejected")
      BY DEF IInv, CorrelationInv, DecidedInv
    <3>2. \A k : <<q, k>> = <<p, d>> => q = p /\ k = d
      OBVIOUS
    <3>3. CASE q = p
      <4>1. <<q, "confirmed">> \notin decided /\ <<q, "rejected">> \notin decided
        BY <1>1, <1>5, <1>9, <3>1, <3>3
      <4>2. Used(q)
        BY <1>9, <3>3 DEF Intact, Kept, Used
      <4> QED BY <1>1, <1>2, <1>6, <1>7, <3>2, <3>3, <4>1, <4>2
    <3>4. CASE q # p
      BY <1>2, <1>7, <1>8, <3>1, <3>2, <3>4
    <3> QED BY <3>3, <3>4
  <2> QED BY <1>2, <2>1 DEF DecidedInv, Used, Intact, Kept
<1>13. ASSUME NEW q \in Requests \ {r} PROVE Knows(q)'
  <2>1. tx'[q] = tx[q] /\ tx[q].at \notin Writing /\ Knows(q)
    BY <1>1, <1>3 DEF IInv, CorrelationInv, Serialized, Writing
  <2>2. \A k \in Pairs : link[k] => link'[k]
    BY <1>5, <1>8
  <2> QED BY <1>2, <2>1, <2>2 DEF Knows, Writing
<1> QED BY <1>3, <1>10, <1>11, <1>12, <1>13 DEF IInv, CorrelationInv

LEMMA SetPolicyStep ==
    ASSUME CorrelationAssumption, IInv, NEW r \in Requests, SetPolicy(r)
    PROVE  IInv'
<1>1. /\ LockFree(r) /\ retention' = tx[r].period /\ End(r)
      /\ UNCHANGED <<today, entry, suggestion, link, decided>>
  BY DEF SetPolicy
<1>2. retention' \in Periods
  BY <1>1, RequestTypes DEF Tx
<1>3. /\ tx' \in [Requests -> Tx] /\ tx'[r] = Idle
      /\ \A q \in Requests \ {r} : tx'[q] = tx[q]
      /\ Serialized' /\ Knows(r)'
  BY <1>1, Ended
<1>4. TypeOK'
  BY <1>1, <1>2, <1>3 DEF IInv, TypeOK, References, Intact, Kept
<1>5. LinkInv' /\ DecidedInv'
  BY <1>1 DEF IInv, CorrelationInv, LinkInv, DecidedInv, Used, Intact, Kept
<1>6. ASSUME NEW q \in Requests \ {r} PROVE Knows(q)'
  <2>1. tx'[q] = tx[q] /\ tx[q].at \notin Writing /\ Knows(q)
    BY <1>1, <1>3 DEF IInv, CorrelationInv, LockFree
  <2> QED BY <1>1, <2>1 DEF Knows, Writing
<1> QED BY <1>3, <1>4, <1>5, <1>6 DEF IInv, CorrelationInv

\* What a cleanup deletes when it commits.
LEMMA Doomed ==
    ASSUME IInv, NEW r \in Requests, tx[r].at = "cleaning"
    PROVE  /\ tx[r].doomed \subseteq Entries
           /\ \A e \in tx[r].doomed : /\ entry[e].kind = "observation"
                                      /\ entry[e].at + retention < today
                                      /\ Unlinked(e)
<1>1. tx[r].doomed \subseteq Entries /\ tx[r].day \in Days
  BY RequestTypes DEF Tx
<1>2. ASSUME NEW e \in tx[r].doomed PROVE entry[e].at + retention < today
  <2>1. entry[e].at \in Nat /\ retention \in Nat /\ today \in Nat /\ tx[r].day \in Nat
    BY <1>1 DEF IInv, TypeOK, Entry, Days, Periods
  <2>2. entry[e].at + retention < tx[r].day /\ tx[r].day <= today
    BY RequestTypes DEF Knows
  <2> QED BY <2>1, <2>2
<1>3. \A e \in tx[r].doomed : entry[e].kind = "observation" /\ Unlinked(e)
  BY RequestTypes DEF Knows
<1> QED BY <1>1, <1>2, <1>3

LEMMA CleanedStep ==
    ASSUME CorrelationAssumption, IInv, NEW r \in Requests, Cleaned(r)
    PROVE  IInv'
<1> DEFINE doomed == tx[r].doomed
           Gone(p) == {p[1], p[2]} \cap doomed # {}
<1>1. /\ tx[r].at = "cleaning" /\ End(r) /\ UNCHANGED <<today, retention, decided>>
      /\ entry' = [e \in Entries |-> IF e \in doomed THEN [entry[e] EXCEPT !.kind = "deleted"] ELSE entry[e]]
      /\ suggestion' = [p \in Pairs |-> IF Gone(p) THEN NoRow ELSE suggestion[p]]
      /\ link' = [p \in Pairs |-> link[p] /\ ~ Gone(p)]
  BY DEF Cleaned
<1>2. doomed \subseteq Entries /\ \A e \in doomed : entry[e].kind = "observation" /\ Unlinked(e)
  BY <1>1, Doomed
<1>3. /\ tx' \in [Requests -> Tx] /\ tx'[r] = Idle
      /\ \A q \in Requests \ {r} : tx'[q] = tx[q]
      /\ Serialized' /\ Knows(r)'
  BY <1>1, Ended
<1>4. entry \in [Entries -> Entry] /\ link \in [Pairs -> BOOLEAN]
      /\ suggestion \in [Pairs -> [status : {"none", "pending", "confirmed", "rejected"}, row : Rows]]
  BY DEF IInv, TypeOK
<1>5. ASSUME NEW e \in Entries
      PROVE  /\ entry'[e] \in Entry
             /\ entry'[e].kind = IF e \in doomed THEN "deleted" ELSE entry[e].kind
  BY <1>1, <1>4 DEF Entry
<1>6. ASSUME NEW p \in Pairs
      PROVE  /\ ~ Gone(p) => Intact(p)' = Intact(p)
             /\ Gone(p) => ~ Intact(p)' /\ ~ link[p]
             /\ Used(p) => Used(p)'
  <2>1. p[1] \in Entries /\ p[2] \in Entries
    BY PairEnds
  <2>2. ~ Gone(p) => p[1] \notin doomed /\ p[2] \notin doomed
    OBVIOUS
  <2>3. Gone(p) => p[1] \in doomed \/ p[2] \in doomed
    OBVIOUS
  <2>4. p[1] \in doomed \/ p[2] \in doomed => ~ link[p]
    BY <1>2 DEF Unlinked
  <2> HIDE DEF Gone, doomed
  <2> QED BY <1>5, <2>1, <2>2, <2>3, <2>4 DEF Intact, Kept, Used
<1>7. \A p \in Pairs : link'[p] = link[p] /\ suggestion'[p] = IF Gone(p) THEN NoRow ELSE suggestion[p]
  BY <1>1, <1>4, <1>6
<1> HIDE DEF Gone, doomed
<1>8. NoRow.status = "none" /\ NoRow \in [status : {"none", "pending", "confirmed", "rejected"}, row : Rows]
  BY Constants DEF NoRow
<1>9. TypeOK'
  <2>1. entry' \in [Entries -> Entry]
    BY <1>1, <1>5
  <2>2. suggestion' \in [Pairs -> [status : {"none", "pending", "confirmed", "rejected"}, row : Rows]]
    BY <1>1, <1>4, <1>8
  <2>3. link' \in [Pairs -> BOOLEAN]
    BY <1>1, <1>4
  <2>4. References'
    BY <1>6, <1>7, <1>8 DEF IInv, TypeOK, References
  <2> QED BY <1>1, <1>3, <2>1, <2>2, <2>3, <2>4 DEF IInv, TypeOK
<1>10. LinkInv'
  BY <1>6, <1>7, <1>8 DEF IInv, CorrelationInv, LinkInv
<1>11. DecidedInv'
  BY <1>1, <1>6, <1>7 DEF IInv, CorrelationInv, DecidedInv
<1>12. ASSUME NEW q \in Requests \ {r} PROVE Knows(q)'
  <2>1. tx'[q] = tx[q] /\ tx[q].at \notin Writing /\ Knows(q)
    BY <1>1, <1>3 DEF IInv, CorrelationInv, Serialized, Writing
  <2> QED BY <1>1, <1>7, <2>1 DEF Knows, Writing
<1> QED BY <1>3, <1>9, <1>10, <1>11, <1>12 DEF IInv, CorrelationInv

LEMMA TickStep ==
    ASSUME CorrelationAssumption, IInv, Tick
    PROVE  IInv'
<1>1. today' \in Days /\ today' \in Nat /\ today \in Nat /\ today <= today'
  BY DEF Tick, IInv, TypeOK, Days, CorrelationAssumption
<1>2. UNCHANGED <<retention, entry, suggestion, link, decided, tx>>
  BY DEF Tick
<1>3. TypeOK'
  BY <1>1, <1>2 DEF IInv, TypeOK, References, Intact, Kept
<1>4. Serialized' /\ LinkInv' /\ DecidedInv'
  BY <1>2 DEF IInv, CorrelationInv, Serialized, LinkInv, DecidedInv, Used, Intact, Kept
<1>5. ASSUME NEW r \in Requests PROVE Knows(r)'
  <2>1. tx[r].day \in Nat
    BY RequestTypes DEF Tx, Days
  <2>2. tx[r].day <= today'
    BY <1>1, <2>1, RequestTypes DEF Knows
  <2> QED BY <1>2, <2>2, RequestTypes DEF Knows, Intact, Kept, Unlinked
<1> QED BY <1>3, <1>4, <1>5 DEF IInv, CorrelationInv

LEMMA StepInv ==
    ASSUME CorrelationAssumption, IInv, [Next]_vars
    PROVE  IInv'
<1>1. CASE UNCHANGED vars
  BY <1>1 DEF vars, IInv, TypeOK, References, CorrelationInv, Serialized, LinkInv, DecidedInv, Knows,
              Used, Intact, Kept, Unlinked
<1>2. CASE Tick
  BY <1>2, TickStep
<1>3. ASSUME NEW r \in Requests, Shown(r) \/ Fail(r) PROVE IInv'
  BY <1>3, EndStep DEF Shown, Fail
<1>4. ASSUME NEW r \in Requests,
             \/ Record(r) \/ Create(r) \/ Update(r) \/ Refresh(r) \/ Refreshed(r)
             \/ Show(r) \/ ShowLinks(r) \/ Decide(r) \/ Decided(r)
             \/ SetPolicy(r) \/ Clean(r) \/ Cleaned(r)
      PROVE  IInv'
  BY <1>4, RecordStep, RefreshStep, RefreshedStep, ShowStep, ShowLinksStep, DecideStep, DecidedStep,
     SetPolicyStep, CleanStep, CleanedStep
<1> QED BY <1>1, <1>2, <1>3, <1>4, BeginSteps DEF Next

\* The inductive invariant.
THEOREM Invariance == Spec => []IInv
<1>1. Init => IInv
  BY CorrelationAssumption, InitInv
<1>2. IInv /\ [Next]_vars => IInv'
  BY CorrelationAssumption, StepInv
<1> QED BY <1>1, <1>2, PTL DEF Spec

\* Types, and that suggestions and links reference entries that are there.
THEOREM TypesKept == Spec => []TypeOK
BY Invariance, PTL DEF IInv

\* An answered decision stands through every refresh, edit and cleanup
\* (decideCorrelationSuggestion, refreshCorrelationSuggestions, cleanupRetention).
THEOREM DecisionsKept == Spec => []DecisionsStand
<1>1. IInv => DecisionsStand
  <2>1. ASSUME IInv, NEW p \in Pairs
        PROVE  /\ <<p, "confirmed">> \in decided =>
                    link[p] /\ Intact(p) /\ suggestion[p].status = "confirmed"
               /\ <<p, "rejected">> \in decided /\ Intact(p) =>
                    ~ link[p] /\ suggestion[p].status = "rejected"
    BY <2>1 DEF IInv, TypeOK, References, CorrelationInv, LinkInv, DecidedInv
  <2> QED BY <2>1 DEF DecisionsStand
<1> QED BY <1>1, Invariance, PTL

\* What is shown as confirmed is shown with its link (getCorrelationSuggestion
\* reads the two with separate statements).
THEOREM LinksShown == Spec => []ConfirmedShowsLink
<1>1. IInv => ConfirmedShowsLink
  BY DEF IInv, CorrelationInv, Knows, ConfirmedShowsLink
<1> QED BY <1>1, Invariance, PTL

\* A cleanup deletes only what the policy has expired and no link protects at
\* the moment of its commit (cleanupRetention).
THEOREM OnlyExpiredGoes == Spec => OnlyExpired
<1>1. ASSUME IInv, Next, NEW e \in Entries, Kept(e), entry'[e].kind = "deleted"
      PROVE  /\ entry[e].kind = "observation"
             /\ entry[e].at + retention < today
             /\ Unlinked(e)
  <2>1. CASE \E r \in Requests : Cleaned(r)
    <3>1. PICK r \in Requests : Cleaned(r)
      BY <2>1
    <3>2. tx[r].at = "cleaning" /\ entry'[e] = IF e \in tx[r].doomed THEN [entry[e] EXCEPT !.kind = "deleted"] ELSE entry[e]
      BY <3>1 DEF Cleaned
    <3>3. e \in tx[r].doomed
      BY <1>1, <3>2 DEF Kept
    <3> QED BY <1>1, <3>2, <3>3, Doomed
  <2>2. CASE \E r \in Requests : Record(r) \/ Create(r) \/ Update(r)
    <3>1. PICK r \in Requests : Record(r) \/ Create(r) \/ Update(r)
      BY <2>2
    <3>2. entry \in [Entries -> Entry]
      BY <1>1 DEF IInv, TypeOK
    <3>3. CASE Update(r)
      BY <1>1, <3>2, <3>3 DEF Update, Kept, Entry
    <3>4. CASE Record(r) \/ Create(r)
      BY <1>1, <3>2, <3>4 DEF Record, Create, Inserted, Kept
    <3> QED BY <3>1, <3>3, <3>4
  <2>3. CASE UNCHANGED entry
    BY <1>1, <2>3 DEF Kept
  <2>4. CASE \E r \in Requests :
                \/ Refresh(r) \/ Refreshed(r) \/ Show(r) \/ ShowLinks(r) \/ Shown(r)
                \/ Decide(r) \/ Decided(r) \/ SetPolicy(r) \/ Clean(r) \/ Fail(r)
    BY <2>3, <2>4 DEF Refresh, Refreshed, Show, ShowLinks, Shown, Decide, Decided, SetPolicy, Clean, Fail
  <2>5. CASE \E r \in Requests :
                \/ BeginRecord(r) \/ BeginCreate(r) \/ BeginUpdate(r) \/ BeginList(r)
                \/ BeginShow(r) \/ BeginDecide(r) \/ BeginPolicy(r) \/ BeginClean(r)
    BY <2>3, <2>5 DEF BeginRecord, BeginCreate, BeginUpdate, BeginList, BeginShow, BeginDecide, BeginPolicy,
                      BeginClean, Follow, Begin
  <2>6. CASE Tick
    BY <2>3, <2>6 DEF Tick
  <2> QED BY <1>1, <2>1, <2>2, <2>4, <2>5, <2>6 DEF Next
<1>2. IInv /\ [Next]_vars =>
        [\A e \in Entries : Kept(e) /\ entry'[e].kind = "deleted" =>
            /\ entry[e].kind = "observation"
            /\ entry[e].at + retention < today
            /\ \A p \in Pairs : link[p] => e \notin {p[1], p[2]}]_vars
  BY <1>1 DEF Unlinked
<1> QED BY <1>2, Invariance, PTL DEF Spec, OnlyExpired
=============================================================================
