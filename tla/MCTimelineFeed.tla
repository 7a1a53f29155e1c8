---------------------------- MODULE MCTimelineFeed ----------------------------
(***************************************************************************)
(* An instance of TimelineFeed for TLC, and the Timeline query on small sets *)
(* of entries.                                                              *)
(***************************************************************************)
EXTENDS TimelineFeed, TLC

CONSTANTS Absent, m1, m2

MCRanks == 1..MaxEntries

Query == INSTANCE TimelineQuery WITH
    DefaultLimit <- 2, MaxLimit <- 3, Kinds <- {"Pod", "Job"}

Experiment == [kind |-> Absent, namespace |-> Absent, name |-> Absent, phase |-> Absent,
               item |-> FALSE, unread |-> FALSE]

Contents ==
    {Experiment}
    \cup {[kind |-> "Pod", namespace |-> "a", name |-> "x", phase |-> f, item |-> i, unread |-> u] :
             f \in {"Running", "Failed"}, i \in BOOLEAN, u \in BOOLEAN}
    \cup {[kind |-> "Job", namespace |-> "b", name |-> "x", phase |-> Absent, item |-> i, unread |-> FALSE] :
             i \in BOOLEAN}

\* An entry has unread to a Member only if it is an Attention Item.
Proper == {c \in Contents : c.unread => c.item}

\* Three entries with these contents: the second was committed first, and the
\* first two occurred at the same time.
Samples ==
    {{[id |-> i, sequence |-> <<2, 1, 3>>[i], time |-> <<1, 1, 2>>[i]] @@ s[i] : i \in 1..3} :
        s \in [1..3 -> Proper]}

NoFilter == [limit |-> 2, cursor |-> Absent, kind |-> Absent, namespace |-> Absent, name |-> Absent,
             state |-> Absent, attention |-> Absent, unread |-> Absent]

Filters ==
    {NoFilter}
    \cup {[NoFilter EXCEPT !.kind = k, !.state = f] : k \in {Absent, "Pod", "Job"}, f \in {Absent, "Failed"}}
    \cup {[NoFilter EXCEPT !.namespace = n, !.name = x] : n \in {Absent, "b"}, x \in {Absent, "x"}}
    \cup {[NoFilter EXCEPT !.attention = i, !.unread = u] : i, u \in {Absent, TRUE, FALSE}}

\* From the start, after an entry in the history, or after a commit.
Starts(kept, q) ==
    {q} \cup {[q EXCEPT !.cursor = Query!TimelineCursor(e, q, "secret", m1)] : e \in kept}
        \cup {[q EXCEPT !.cursor = Query!LiveTimelineCursor(n, q, "secret", m1)] : n \in 1..3}

\* Following nextCursor shows every entry that matches exactly once and in
\* order, whatever the size of a page, from any cursor that was handed out
\* (pageFromEntries, decodeTimelineCursor).
ASSUME PagesComplete ==
    \A kept \in Samples, f \in Filters, n \in 1..2 :
        \A q \in Starts(kept, [f EXCEPT !.limit = n]) :
            Query!WalkIsComplete(kept, q, "secret", m1, 3)

\* The in-memory store and the SQL statement give the same page, the same next
\* and resume cursor, and refuse the same queries: unread without a Member, and
\* a cursor that another Member, other filters or another secret was given.
ASSUME StoresPageAlike ==
    \A kept \in Samples, f \in Filters :
        \A q \in Starts(kept, f), member \in {m1, m2, Absent} :
            Query!PagesAgree(kept, q, "secret", member, 3)

\* The lag that a stream reports counts what a page that follows the cursors
\* would still show (countTimelineEntriesAfterCursor).
ASSUME LagIsRemainder ==
    \A kept \in Samples, f \in Filters :
        \A q \in Starts(kept, f) :
            Query!CountTimelineEntriesAfterCursor(kept, q, "secret", m1, 3)
                = Len(Query!Selected(kept, q))

Parameters ==
    [limit : {Absent, 0, 1, 3, 4}, cursor : {Absent}, kind : {Absent, "Pod", "Secret"},
     namespace : {Absent, "a", "long"}, name : {Absent, "blank"}, state : {Absent, "Failed", "Lost"},
     phase : {Absent, "Running"}, attention : {Absent, "empty", "reviewed", "unread", "true", "false"},
     unread : {Absent, "true", "false"}]

\* Of the parameters a browser may send, those that are accepted give a query
\* with a limit a page may have, and the entries asked for as unread are the
\* Member's unread Attention Items (timelineQueryInput, parseTimelineQuery).
ASSUME QueriesAreSound ==
    \A p \in Parameters, onPage \in BOOLEAN :
        LET q == Query!ParseTimelineQuery(Query!TimelineQueryInput(p, onPage)) IN
        q # Absent =>
            /\ q.limit \in 1..3
            /\ p.attention = "unread" /\ p.unread = Absent =>
                   \A c \in Proper : Query!EntryMatchesQuery(c, q) => c.item /\ c.unread
            /\ p.attention = "reviewed" => onPage
=============================================================================
