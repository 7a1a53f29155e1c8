------------------------------ MODULE Correlation ------------------------------
(***************************************************************************)
(* What the Timeline keeps and how its entries are related: observations and *)
(* Experiments, Correlation Suggestions, the decisions of Members, Confirmed *)
(* Links and the retention of observations (packages/db, PostgresTimelineStore *)
(* and migrations 0006, 0012, 0014; packages/domain, the signals).           *)
(*                                                                         *)
(* Every transaction that writes takes the timeline writer lock first.  It   *)
(* reads in one step, which takes the lock, and commits in the next.  A      *)
(* write is followed by a refresh of the suggestions in a transaction of its *)
(* own, which may fail unnoticed; showing and deciding refresh first.        *)
(***************************************************************************)
EXTENDS Naturals, FiniteSets

CONSTANTS
    MaxEntries, \* bound: Timeline entries, deleted ones included
    MaxDay,     \* bound: the clock
    MaxDays,    \* bound: retention periods an owner chooses from
    Window,     \* days apart within which entries have the signal "time"
    Sources,    \* source keys: versions of Kubernetes objects
    Subjects,   \* what the signals ownership, label and revision compare
    SubjectOf,  \* the subject of a source
    NoSource,   \* no source
    Requests    \* requests and timers that may run at the same time

ASSUME CorrelationAssumption ==
    /\ MaxEntries \in Nat /\ MaxDay \in Nat /\ MaxDays \in Nat \ {0} /\ Window \in Nat
    /\ NoSource \notin Sources
    /\ IsFiniteSet(Requests) /\ Subjects # {}
    /\ SubjectOf \in [Sources -> Subjects]

VARIABLES
    today,      \* the clock, in days
    retention,  \* tracegarden_retention_policies: retention_days
    entry,      \* tracegarden_timeline_entries, with their observation or Experiment
    suggestion, \* tracegarden_correlation_suggestions: status and row of a pair
    link,       \* tracegarden_confirmed_links of a pair
    decided,    \* history: the decisions that were answered
    tx          \* what each request is doing

vars == <<today, retention, entry, suggestion, link, decided, tx>>

Entries == 1..MaxEntries
Pairs   == {p \in Entries \X Entries : p[1] < p[2]}
Periods == 1..MaxDays
Days    == 0..MaxDay
Rows    == 0..Cardinality(Requests)

Entry == [kind : {"none", "observation", "experiment", "deleted"},
          source : Sources \cup {NoSource}, subject : Subjects, at : Days]

Places == {"idle", "record", "create", "update", "policy",
           "refresh", "refreshing",       \* refreshCorrelationSuggestions
           "show", "links", "shown",      \* getCorrelationSuggestion
           "decide", "deciding",          \* decideCorrelationSuggestion
           "clean", "cleaning"}           \* cleanupRetention

\* then: where the refresh leads; pairs, doomed, status, linked: what was read.
Tx == [at : Places, then : {"idle", "show", "decide"}, day : Days, source : Sources \cup {NoSource},
       entry : Entries \cup {0}, subject : Subjects \cup {NoSource}, period : Periods,
       pair : Pairs \cup {<<0, 0>>}, row : Rows, decision : {"confirmed", "rejected"},
       pairs : SUBSET Pairs, doomed : SUBSET Entries,
       status : {"none", "pending", "confirmed", "rejected"}, linked : BOOLEAN]

Idle == [at |-> "idle", then |-> "idle", day |-> 0, source |-> NoSource, entry |-> 0,
         subject |-> NoSource, period |-> 1, pair |-> <<0, 0>>, row |-> 0, decision |-> "rejected",
         pairs |-> {}, doomed |-> {}, status |-> "none", linked |-> FALSE]

NoRow == [status |-> "none", row |-> 0]

Kept(e)   == entry[e].kind \in {"observation", "experiment"}
Intact(p) == Kept(p[1]) /\ Kept(p[2])

\* Suggestions and links reference the entries they connect.
References ==
    \A p \in Pairs : suggestion[p].status # "none" \/ link[p] => Intact(p)

TypeOK ==
    /\ today \in Days
    /\ retention \in Periods
    /\ entry \in [Entries -> Entry]
    /\ suggestion \in [Pairs -> [status : {"none", "pending", "confirmed", "rejected"}, row : Rows]]
    /\ link \in [Pairs -> BOOLEAN]
    /\ decided \subseteq Pairs \X {"confirmed", "rejected"}
    /\ tx \in [Requests -> Tx]
    /\ References

Init ==
    /\ today = 0
    /\ retention = MaxDays
    /\ entry = [e \in Entries |-> [kind |-> "none", source |-> NoSource,
                                   subject |-> CHOOSE s \in Subjects : TRUE, at |-> 0]]
    /\ suggestion = [p \in Pairs |-> NoRow]
    /\ link = [p \in Pairs |-> FALSE]
    /\ decided = {}
    /\ tx = [r \in Requests |-> Idle]

-----------------------------------------------------------------------------
\* The timeline writer lock is free for a request.
Writing == {"refreshing", "deciding", "cleaning"}
LockFree(r) == \A q \in Requests \ {r} : tx[q].at \notin Writing

Goto(r, place) == tx' = [tx EXCEPT ![r].at = place]
End(r)         == tx' = [tx EXCEPT ![r] = Idle]

\* A request begins; it notes the time before it waits for the lock.
Begin(r, request) ==
    /\ tx[r].at = "idle"
    /\ tx' = [tx EXCEPT ![r] = [request EXCEPT !.day = today]]
    /\ UNCHANGED <<today, retention, entry, suggestion, link, decided>>

\* After its commit, a write refreshes the suggestions.
RefreshAfter(r) == tx' = [tx EXCEPT ![r] = [Idle EXCEPT !.at = "refresh"]]

\* A row with the next identifier.
Inserted(kind, source, subject, at) ==
    \E e \in Entries :
        /\ \A f \in Entries : entry[f].kind = "none" <=> e <= f
        /\ entry' = [entry EXCEPT ![e] = [kind |-> kind, source |-> source, subject |-> subject, at |-> at]]

-----------------------------------------------------------------------------
(* Observations and Experiments.                                            *)

BeginRecord(r) == \E s \in Sources : Begin(r, [Idle EXCEPT !.at = "record", !.source = s])

\* An observation is inserted with its entry unless its source key is stored.
Record(r) ==
    LET s == tx[r].source IN
    /\ tx[r].at = "record"
    /\ LockFree(r)
    /\ IF \E e \in Entries : entry[e].kind = "observation" /\ entry[e].source = s
       THEN UNCHANGED entry
       ELSE Inserted("observation", s, SubjectOf[s], tx[r].day)
    /\ RefreshAfter(r)
    /\ UNCHANGED <<today, retention, suggestion, link, decided>>

BeginCreate(r) == \E s \in Subjects : Begin(r, [Idle EXCEPT !.at = "create", !.subject = s])

\* An Experiment is inserted with its entry.
Create(r) ==
    /\ tx[r].at = "create"
    /\ LockFree(r)
    /\ Inserted("experiment", NoSource, tx[r].subject, tx[r].day)
    /\ RefreshAfter(r)
    /\ UNCHANGED <<today, retention, suggestion, link, decided>>

BeginUpdate(r) ==
    \E e \in Entries, s \in Subjects :
        /\ entry[e].kind = "experiment"
        /\ Begin(r, [Idle EXCEPT !.at = "update", !.entry = e, !.subject = s])

\* Other workloads or another revision make an Experiment relate differently.
Update(r) ==
    /\ tx[r].at = "update"
    /\ LockFree(r)
    /\ entry' = [entry EXCEPT ![tx[r].entry].subject = tx[r].subject]
    /\ RefreshAfter(r)
    /\ UNCHANGED <<today, retention, suggestion, link, decided>>

-----------------------------------------------------------------------------
(* Suggestions.                                                             *)

Near(d, e) == d <= e + Window /\ e <= d + Window

Signals(e, f) == entry[e].subject = entry[f].subject \/ Near(entry[e].at, entry[f].at)

Candidates == {p \in Pairs : Intact(p) /\ Signals(p[1], p[2])}

\* The suggestions are listed: they are refreshed, then read.
BeginList(r) == Begin(r, [Idle EXCEPT !.at = "refresh"])

\* The candidates among the entries are computed.
Refresh(r) ==
    /\ tx[r].at = "refresh"
    /\ LockFree(r)
    /\ tx' = [tx EXCEPT ![r].at = "refreshing", ![r].pairs = Candidates]
    /\ UNCHANGED <<today, retention, entry, suggestion, link, decided>>

\* The identifier of a new row, which no request refers to.
NewRow(p) == CHOOSE n \in Rows : \A q \in Requests : tx[q].pair = p => tx[q].row # n

\* Mutant: a candidate that is there already becomes pending again.
UpsertPending(p, candidates) ==
    IF p \notin candidates
    THEN IF suggestion[p].status = "pending" THEN NoRow ELSE suggestion[p]
    ELSE IF suggestion[p].status = "none" THEN [status |-> "pending", row |-> NewRow(p)]
    ELSE [suggestion[p] EXCEPT !.status = "pending"]

\* A pending suggestion that is no candidate any more is deleted; a candidate
\* that has no row gets one.
Upsert(p, candidates) ==
    IF suggestion[p].status = "pending" /\ p \notin candidates THEN NoRow
    ELSE IF suggestion[p].status = "none" /\ p \in candidates
         THEN [status |-> "pending", row |-> NewRow(p)]
         ELSE suggestion[p]

Refreshed(r) ==
    /\ tx[r].at = "refreshing"
    /\ suggestion' = [p \in Pairs |-> Upsert(p, tx[r].pairs)]
    /\ tx' = [tx EXCEPT ![r].at = tx[r].then, ![r].pairs = {}]
    /\ UNCHANGED <<today, retention, entry, link, decided>>

\* Somebody follows a suggestion they were shown.
Follow(r, then) ==
    \E p \in Pairs, d \in {"confirmed", "rejected"} :
        /\ suggestion[p].status # "none"
        /\ then = "show" => d = "rejected"
        /\ Begin(r, [Idle EXCEPT !.at = "refresh", !.then = then, !.pair = p,
                                 !.row = suggestion[p].row, !.decision = d])

BeginShow(r) == Follow(r, "show")

HasRow(r) ==
    /\ suggestion[tx[r].pair].status # "none"
    /\ suggestion[tx[r].pair].row = tx[r].row

\* The suggestion is read; nothing is shown of one that is gone.
Show(r) ==
    /\ tx[r].at = "show"
    /\ IF HasRow(r)
       THEN tx' = [tx EXCEPT ![r].at = "links", ![r].status = suggestion[tx[r].pair].status]
       ELSE End(r)
    /\ UNCHANGED <<today, retention, entry, suggestion, link, decided>>

\* The links are read by another statement.
ShowLinks(r) ==
    /\ tx[r].at = "links"
    /\ tx' = [tx EXCEPT ![r].at = "shown", ![r].linked = link[tx[r].pair]]
    /\ UNCHANGED <<today, retention, entry, suggestion, link, decided>>

Shown(r) ==
    /\ tx[r].at = "shown"
    /\ End(r)
    /\ UNCHANGED <<today, retention, entry, suggestion, link, decided>>

-----------------------------------------------------------------------------
(* Decisions.                                                               *)

BeginDecide(r) == Follow(r, "decide")

\* Mutant: the row is read before the lock is taken.
DecideUnlocked(r) ==
    LET s == suggestion[tx[r].pair] IN
    /\ tx[r].at = "decide"
    /\ IF HasRow(r) /\ s.status = "pending" THEN Goto(r, "deciding") ELSE End(r)
    /\ decided' = IF HasRow(r) /\ s.status = tx[r].decision
                  THEN decided \cup {<<tx[r].pair, tx[r].decision>>} ELSE decided
    /\ UNCHANGED <<today, retention, entry, suggestion, link>>

\* A pending row is locked.  A decided one answers the same decision again
\* and refuses the other.
Decide(r) ==
    LET s == suggestion[tx[r].pair] IN
    /\ tx[r].at = "decide"
    /\ LockFree(r)
    /\ IF HasRow(r) /\ s.status = "pending" THEN Goto(r, "deciding") ELSE End(r)
    /\ decided' = IF HasRow(r) /\ s.status = tx[r].decision
                  THEN decided \cup {<<tx[r].pair, tx[r].decision>>} ELSE decided
    /\ UNCHANGED <<today, retention, entry, suggestion, link>>

\* A confirmation inserts the link; the decision is stored and answered.
Decided(r) ==
    LET p == tx[r].pair
        d == tx[r].decision
    IN
    /\ tx[r].at = "deciding"
    /\ link' = [link EXCEPT ![p] = @ \/ d = "confirmed"]
    /\ suggestion' = [suggestion EXCEPT ![p].status = d]
    /\ decided' = decided \cup {<<p, d>>}
    /\ End(r)
    /\ UNCHANGED <<today, retention, entry>>

-----------------------------------------------------------------------------
(* Retention.                                                               *)

BeginPolicy(r) == \E n \in Periods : Begin(r, [Idle EXCEPT !.at = "policy", !.period = n])

SetPolicy(r) ==
    /\ tx[r].at = "policy"
    /\ LockFree(r)
    /\ retention' = tx[r].period
    /\ End(r)
    /\ UNCHANGED <<today, entry, suggestion, link, decided>>

\* The timer of a Collector or an owner starts a cleanup.
BeginClean(r) == Begin(r, [Idle EXCEPT !.at = "clean"])

\* Mutant: links do not protect.
EligibleUnprotected(day) ==
    {e \in Entries : entry[e].kind = "observation" /\ entry[e].at + retention < day}

\* Observations from before the cutoff that no link protects.
Eligible(day) ==
    {e \in Entries : /\ entry[e].kind = "observation"
                     /\ entry[e].at + retention < day
                     /\ \A p \in Pairs : link[p] => e \notin {p[1], p[2]}}

\* Mutant: the policy is read before the lock is taken.
CleanUnlocked(r) ==
    /\ tx[r].at = "clean"
    /\ tx' = [tx EXCEPT ![r].at = "cleaning", ![r].doomed = Eligible(tx[r].day)]
    /\ UNCHANGED <<today, retention, entry, suggestion, link, decided>>

Clean(r) ==
    /\ tx[r].at = "clean"
    /\ LockFree(r)
    /\ tx' = [tx EXCEPT ![r].at = "cleaning", ![r].doomed = Eligible(tx[r].day)]
    /\ UNCHANGED <<today, retention, entry, suggestion, link, decided>>

\* Observations are deleted; entries, suggestions and links cascade.
Cleaned(r) ==
    LET gone(p) == {p[1], p[2]} \cap tx[r].doomed # {} IN
    /\ tx[r].at = "cleaning"
    /\ entry' = [e \in Entries |-> IF e \in tx[r].doomed THEN [entry[e] EXCEPT !.kind = "deleted"]
                                   ELSE entry[e]]
    /\ suggestion' = [p \in Pairs |-> IF gone(p) THEN NoRow ELSE suggestion[p]]
    /\ link' = [p \in Pairs |-> link[p] /\ ~gone(p)]
    /\ End(r)
    /\ UNCHANGED <<today, retention, decided>>

-----------------------------------------------------------------------------
\* A statement fails or the process dies: the transaction is rolled back.  The
\* writes of a request whose refresh fails are committed already.
Fail(r) ==
    /\ tx[r].at # "idle"
    /\ End(r)
    /\ UNCHANGED <<today, retention, entry, suggestion, link, decided>>

Tick ==
    /\ today < MaxDay
    /\ today' = today + 1
    /\ UNCHANGED <<retention, entry, suggestion, link, decided, tx>>

Next ==
    \/ Tick
    \/ \E r \in Requests :
        \/ BeginRecord(r) \/ Record(r) \/ BeginCreate(r) \/ Create(r) \/ BeginUpdate(r) \/ Update(r)
        \/ BeginList(r) \/ Refresh(r) \/ Refreshed(r)
        \/ BeginShow(r) \/ Show(r) \/ ShowLinks(r) \/ Shown(r)
        \/ BeginDecide(r) \/ Decide(r) \/ Decided(r)
        \/ BeginPolicy(r) \/ SetPolicy(r) \/ BeginClean(r) \/ Clean(r) \/ Cleaned(r)
        \/ Fail(r)

Spec == Init /\ [][Next]_vars

-----------------------------------------------------------------------------
(* Properties.                                                              *)

\* An answered decision stands: a pair is never both confirmed and rejected, a
\* confirmed one keeps its link and both entries through every cleanup, and a
\* rejected one is not proposed again while its entries are there.
DecisionsStand ==
    \A p \in Pairs :
        /\ <<p, "confirmed">> \in decided =>
                link[p] /\ Intact(p) /\ suggestion[p].status = "confirmed"
        /\ <<p, "rejected">> \in decided /\ Intact(p) =>
                ~link[p] /\ suggestion[p].status = "rejected"

\* A cleanup takes only observations that no Confirmed Link connects at the
\* moment they go and that the policy of that moment has expired.
OnlyExpired ==
    [][\A e \in Entries :
        Kept(e) /\ entry'[e].kind = "deleted" =>
            /\ entry[e].kind = "observation"
            /\ entry[e].at + retention < today
            /\ \A p \in Pairs : link[p] => e \notin {p[1], p[2]}]_vars

\* A suggestion shown as confirmed is shown with its link, though the two are
\* read by different statements.
ConfirmedShowsLink ==
    \A r \in Requests : tx[r].at = "shown" /\ tx[r].status = "confirmed" => tx[r].linked
=============================================================================
