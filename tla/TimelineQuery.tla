----------------------------- MODULE TimelineQuery -----------------------------
(***************************************************************************)
(* The Timeline query (packages/db): how the parameters of a request become  *)
(* a query, which entries it selects, how they are cut into pages and what   *)
(* a cursor is good for.  The selection and the cut are written twice in the *)
(* source, as filters and a slice (pageFromEntries) and as one SQL statement *)
(* (PostgresObservationStore); so they are here.                            *)
(*                                                                         *)
(* An entry is a record of id, sequence, time, kind, namespace, name, phase, *)
(* item (it is an Attention Item) and unread (by the Member who asks); an    *)
(* Experiment has kind Absent.  Parameters are abstracted to what is asked   *)
(* of them: "blank" trims to nothing, "long" is beyond the length allowed.   *)
(***************************************************************************)
EXTENDS Naturals, Sequences, FiniteSets, SequencesExt

CONSTANTS
    Absent,       \* undefined and null
    DefaultLimit, \* 50
    MaxLimit,     \* 100
    Kinds         \* SUPPORTED_RESOURCE_KINDS

TimelineStates == {"Pending", "Running", "Succeeded", "Failed", "Unknown"}

Or(value, default) == IF value = Absent THEN default ELSE value

-----------------------------------------------------------------------------
(* From the parameters of a request to a query.                             *)

\* timelineQueryInput: "unread" stands for the unread Attention Items, and the
\* page takes "reviewed" for its own notice.
TimelineQueryInput(p, onPage) ==
    LET dropped == p.attention \in {Absent, "empty"} \/ (onPage /\ p.attention = "reviewed")
        unread == ~dropped /\ p.attention = "unread"
    IN [p EXCEPT !.state = Or(p.state, p.phase),
                 !.attention = IF dropped THEN Absent ELSE IF unread THEN "true" ELSE p.attention,
                 !.unread = Or(p.unread, IF unread THEN "true" ELSE Absent)]

\* optionalTimelineFilter, optionalTimelineBoolean.
OptionalFilter(value) == IF value = "blank" THEN Absent ELSE value
OptionalBoolean(value) == IF value = Absent THEN Absent ELSE value = "true"

\* The parameters that parseTimelineQuery complains of.
Issues(p) ==
    LET state == OptionalFilter(p.state) IN
    {f \in {"limit", "cursor", "kind", "namespace", "name", "state", "attention", "unread"} :
        CASE f = "limit" -> Or(p.limit, DefaultLimit) \notin 1..MaxLimit
          [] f = "cursor" -> p.cursor # Absent /\ p.cursor.kind \in {"blank", "malformed"}
          [] f = "kind" -> p.kind # Absent /\ p.kind \notin Kinds
          [] f \in {"namespace", "name"} -> p[f] = "long"
          [] f = "state" -> state # Absent /\ state \notin TimelineStates
          [] f = "attention" -> p.attention \notin {Absent, "true", "false"}
          [] f = "unread" -> \/ p.unread \notin {Absent, "true", "false"}
                             \/ p.unread = "true" /\ p.attention = "false"}

\* parseTimelineQuery: a query, or Absent when it throws.
ParseTimelineQuery(p) ==
    IF Issues(p) # {} THEN Absent
    ELSE [ limit     |-> Or(p.limit, DefaultLimit),
           cursor    |-> p.cursor,
           kind      |-> p.kind,
           namespace |-> OptionalFilter(p.namespace),
           name      |-> OptionalFilter(p.name),
           state     |-> OptionalFilter(p.state),
           attention |-> OptionalBoolean(p.attention),
           unread    |-> OptionalBoolean(p.unread) ]

-----------------------------------------------------------------------------
(* Cursors.  They are signed: nobody makes one without the secret.           *)

\* timelineFilters: the limit is not part of it.
TimelineFilters(q, member) ==
    [ kind |-> q.kind, namespace |-> q.namespace, name |-> q.name, state |-> q.state,
      attention |-> q.attention, unread |-> q.unread, member |-> member ]

\* A place in the history order, and one in the order of commits.
TimelineCursor(e, q, secret, member) ==
    [ kind |-> "history", time |-> e.time, entry |-> e.id, sequence |-> 0,
      filters |-> TimelineFilters(q, member), secret |-> secret ]
LiveTimelineCursor(sequence, q, secret, member) ==
    [ kind |-> "live", time |-> 0, entry |-> 0, sequence |-> sequence,
      filters |-> TimelineFilters(q, member), secret |-> secret ]

\* decodeTimelineCursor throws nothing.
CursorValid(q, secret, member) ==
    q.cursor # Absent =>
        /\ q.cursor.kind \in {"history", "live"}
        /\ q.cursor.secret = secret
        /\ q.cursor.filters = TimelineFilters(q, member)
        /\ q.cursor.kind = "live" => q.cursor.sequence > 0

IsLive(cursor) == cursor # Absent /\ cursor.kind = "live"

-----------------------------------------------------------------------------
(* One page of a set of entries in memory.                                  *)

\* entryMatchesQuery.
EntryMatchesQuery(e, q) ==
    IF e.kind = Absent
    THEN /\ {q.kind, q.namespace, q.name, q.state} = {Absent}
         /\ q.attention # TRUE /\ q.unread # TRUE
    ELSE /\ q.kind \in {Absent, e.kind}
         /\ q.namespace \in {Absent, e.namespace}
         /\ q.name \in {Absent, e.name}
         /\ q.state \in {Absent, IF e.kind = "Pod" THEN e.phase ELSE Absent}
         /\ q.attention \in {Absent, e.item}
         /\ q.unread = TRUE => e.item /\ e.unread
         /\ q.unread = FALSE => ~e.unread

\* compareTimelinePositions.
PositionBefore(d, e) == d.time < e.time \/ (d.time = e.time /\ d.id < e.id)

Before(d, e, cursor) ==
    IF IsLive(cursor) THEN d.sequence < e.sequence ELSE PositionBefore(d, e)

AfterCursor(e, cursor) ==
    cursor # Absent =>
        IF IsLive(cursor) THEN e.sequence > cursor.sequence
        ELSE PositionBefore([time |-> cursor.time, id |-> cursor.entry], e)

\* A set of entries in the order a cursor goes through them.
InOrder(entries, cursor) ==
    [i \in 1..Cardinality(entries) |->
        CHOOSE e \in entries : Cardinality({d \in entries : Before(d, e, cursor)}) = i - 1]

Take(s, n) == SubSeq(s, 1, IF Len(s) < n THEN Len(s) ELSE n)

\* What both stores answer: a page, where the next one starts and where live
\* updates start.  Absent: the query is refused.
Answer(page, more, q, secret, member, current) ==
    [ entries |-> page,
      next    |-> IF ~more THEN Absent
                  ELSE IF IsLive(q.cursor)
                  THEN LiveTimelineCursor(Last(page).sequence, q, secret, member)
                  ELSE TimelineCursor(Last(page), q, secret, member),
      resume  |-> IF member # Absent /\ page # <<>>
                  THEN LiveTimelineCursor(current, q, secret, member) ELSE Absent ]

\* unread is a question about a Member.
Refused(q, secret, member) ==
    (q.unread # Absent /\ member = Absent) \/ ~CursorValid(q, secret, member)

\* pageFromEntries.
PageFromEntries(entries, q, secret, member, current) ==
    LET sorted == InOrder({e \in entries : EntryMatchesQuery(e, q)}, q.cursor)
        after  == SelectSeq(sorted, LAMBDA e : AfterCursor(e, q.cursor))
        page   == Take(after, q.limit)
    IN IF Refused(q, secret, member) THEN Absent
       ELSE Answer(page, Len(after) > q.limit /\ page # <<>>, q, secret, member, current)

-----------------------------------------------------------------------------
(* The same page by SQL.                                                    *)

\* The WHERE clause: a comparison with NULL does not hold.
WhereClause(e, q) ==
    /\ AfterCursor(e, q.cursor)
    /\ q.kind # Absent => e.kind = q.kind
    /\ q.namespace # Absent => e.namespace = q.namespace
    /\ q.name # Absent => e.name = q.name
    /\ q.state # Absent => e.phase = q.state
    /\ q.attention # Absent => (e.item <=> q.attention)
    /\ q.unread # Absent => (e.item /\ e.unread <=> q.unread)

\* PostgresObservationStore.listTimelineEntries: one row more than the page
\* tells whether there is another page.
SelectPage(entries, q, secret, member, current) ==
    LET rows == Take(InOrder({e \in entries : WhereClause(e, q)}, q.cursor), q.limit + 1)
        page == Take(rows, q.limit)
    IN IF Refused(q, secret, member) THEN Absent
       ELSE Answer(page, Len(rows) > q.limit /\ page # <<>>, q, secret, member, current)

-----------------------------------------------------------------------------
(* Following the cursors.                                                   *)

\* countTimelineEntriesAfterCursor: page after page, until none is next.
Walk(entries, q, secret, member, current) ==
    FoldLeft(LAMBDA w, i :
                 IF w.done THEN w
                 ELSE LET p == PageFromEntries(entries, [q EXCEPT !.cursor = w.cursor],
                                               secret, member, current)
                      IN IF p = Absent THEN [w EXCEPT !.done = TRUE, !.refused = TRUE]
                         ELSE [w EXCEPT !.cursor = p.next, !.done = p.next = Absent,
                                        !.seen = @ \o p.entries],
             [cursor |-> q.cursor, done |-> FALSE, refused |-> FALSE, seen |-> <<>>],
             [i \in 1..(Cardinality(entries) + 1) |-> i])

CountTimelineEntriesAfterCursor(entries, q, secret, member, current) ==
    Len(Walk(entries, [q EXCEPT !.limit = MaxLimit], secret, member, current).seen)

-----------------------------------------------------------------------------
(* What is asked of it.                                                     *)

\* What is selected after the cursor, in its order.
Selected(entries, q) ==
    InOrder({e \in entries : EntryMatchesQuery(e, q) /\ AfterCursor(e, q.cursor)}, q.cursor)

\* Following the cursors shows every selected entry exactly once, in order; no
\* page is refused on the way.
WalkIsComplete(entries, q, secret, member, current) ==
    LET w == Walk(entries, q, secret, member, current) IN
    w.done /\ ~w.refused /\ w.seen = Selected(entries, q)

\* Both ways give the same page.
PagesAgree(entries, q, secret, member, current) ==
    PageFromEntries(entries, q, secret, member, current) = SelectPage(entries, q, secret, member, current)
=============================================================================
