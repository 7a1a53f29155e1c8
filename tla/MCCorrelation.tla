----------------------------- MODULE MCCorrelation -----------------------------
(***************************************************************************)
(* An instance of Correlation for TLC: one observed object version.  And the *)
(* two stores behind it, given the same calls one after another.            *)
(***************************************************************************)
EXTENDS Correlation, Sequences, TLC

CONSTANTS s1, a, b, r1, r2, m1, m2, Absent, opaque

MCSources   == {s1}
MCSubjects  == {a, b}
MCSubjectOf == [s \in MCSources |-> a]
MCRequests  == {r1, r2}
MCSymmetry  == Permutations(MCRequests)

-----------------------------------------------------------------------------
Stores == INSTANCE TimelineStores WITH
    DefaultLimit <- 2, MaxLimit <- 3, Kinds <- {"Pod"}, DefaultDays <- 2, Window <- 0,
    Approved <- {"a"}, Configured <- {a, b}, Secret <- "secret"

\* A resource fails, recovers and stays well; another one fails.
Failed    == [namespace |-> "a", identity |-> "x", attention |-> TRUE, subject |-> a, version |-> 1]
Recovered == [namespace |-> "a", identity |-> "x", attention |-> FALSE, subject |-> b, version |-> 2]
Well      == [namespace |-> "a", identity |-> "x", attention |-> FALSE, subject |-> a, version |-> 4]
Other     == [namespace |-> "a", identity |-> "y", attention |-> TRUE, subject |-> a, version |-> 3]
\* Outside the approved scope, and another Cluster.
Stray     == [Other EXCEPT !.namespace = "b"]
Elsewhere == opaque

Calls ==
    {[do |-> "record", sources |-> <<Failed>>, checkpoint |-> Absent],
     [do |-> "record", sources |-> <<Recovered>>, checkpoint |-> 5],
     [do |-> "record", sources |-> <<Failed, Other>>, checkpoint |-> 3],
     [do |-> "record", sources |-> <<Recovered, Well>>, checkpoint |-> opaque],
     [do |-> "advance", checkpoint |-> 4],
     [do |-> "clear"],
     [do |-> "record", sources |-> <<Other, Stray>>, checkpoint |-> 6],
     [do |-> "create", subject |-> a],
     [do |-> "create", subject |-> Elsewhere],
     [do |-> "decide", pair |-> <<1, 2>>, decision |-> "confirmed"],
     [do |-> "decide", pair |-> <<1, 2>>, decision |-> "rejected"],
     [do |-> "review", entry |-> 1, member |-> m1],
     [do |-> "review", entry |-> 2, member |-> m1],
     [do |-> "policy", days |-> 1],
     [do |-> "clean"]}
    \cup {[do |-> "update", entry |-> 1, subject |-> s] : s \in {b, Elsewhere}}

\* The n-th call runs at time n.
At(calls) == [n \in DOMAIN calls |-> calls[n] @@ [at |-> n]]

\* Calls that fill the stores first.
Filled ==
    {<<>>,
     <<[do |-> "record", sources |-> <<Failed, Other>>, checkpoint |-> Absent], [do |-> "create", subject |-> a]>>,
     <<[do |-> "create", subject |-> a], [do |-> "record", sources |-> <<Failed>>, checkpoint |-> 4],
       [do |-> "decide", pair |-> <<1, 2>>, decision |-> "confirmed"], [do |-> "policy", days |-> 1]>>}

EveryEntry == [limit |-> 2, cursor |-> Absent, kind |-> Absent, namespace |-> Absent, name |-> Absent,
               state |-> Absent, attention |-> Absent, unread |-> Absent]

\* The in-memory store, which the tests use, and the database answer a sequence
\* of calls alike: duplicates, recoveries, checkpoints, decisions, reviews,
\* cleanups, and afterwards the pages, counts, suggestions and links
\* (MemoryObservationStore, PostgresObservationStore).
ASSUME StoresAnswerAlike ==
    \A first \in Filled, calls \in [1..3 -> Calls] :
        Stores!StoresAgree(At(first \o calls),
                           {EveryEntry, [EveryEntry EXCEPT !.unread = TRUE]}, {m1, m2})
=============================================================================
