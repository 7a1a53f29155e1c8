----------------------------- MODULE TimelineFeed -----------------------------
(***************************************************************************)
(* How a committed Timeline entry reaches an open Timeline page.  Writers   *)
(* number their entry from a sequence and commit (packages/db); PostgreSQL  *)
(* notifies the web process, which sends the page a hint without content    *)
(* over its event stream (apps/web/src/server.ts, timelineStream); the page *)
(* fetches what is after its cursor until nothing is left                   *)
(* (apps/web/src/views/timeline.tsx, recover).  The stream may break, the   *)
(* LISTEN connection may fail and a fetch may fail at any point.            *)
(*                                                                         *)
(* One Workspace, one page.  An entry is its sequence number and its rank   *)
(* in the history order (occurredAt, id), which writers do not commit in.   *)
(* Retention removes nothing a page waits for: the shortest policy keeps an *)
(* Observation for a day.                                                   *)
(***************************************************************************)
EXTENDS Naturals, Sequences, FiniteSets

CONSTANTS
    Limit,      \* entries in one answer of the Timeline API
    Ranks,      \* positions in the history order
    MaxEntries, \* bound: sequence numbers handed out
    MaxFaults,  \* bound: faults in one behaviour
    Faults      \* faults and starts this instance lets happen

AllFaults == {"disconnect", "listen", "refused", "fetch", "database", "emptyPage"}

ASSUME FeedAssumption ==
    /\ Limit \in Nat \ {0}
    /\ Ranks \subseteq Nat
    /\ MaxEntries \in Nat
    /\ MaxFaults \in Nat
    /\ Faults \subseteq AllFaults

VARIABLES
    sequence,   \* database: tracegarden_timeline_sequence_seq
    writing,    \* database: entries inserted by transactions that still run
    entries,    \* database: committed Timeline entries
    listening,  \* web: LISTEN is active and healthy
    notified,   \* notifications on their way to the web process
    stream,     \* the page's event stream, as the web process sees it
    pending,    \* client.pendingNotification, 0 for null
    check,      \* sendAuthorizedHint: "idle", or the await it is suspended at
    looking,    \* the entry it looks up
    queued,     \* client.hintQueued
    wire,       \* events written to the stream and not handled by the page
    shown,      \* page: the entries it shows
    cursor,     \* page: its cursor
    base,       \* the resume cursor the page was rendered with, 0 if none
    identified, \* page: clientId is that of the current stream
    recovering, \* page: recover() runs
    again,      \* page: recoverAgain
    request,    \* page: its GET /api/timeline
    faults      \* faults so far

database == <<sequence, writing, entries>>
listener == <<listening, notified>>
client   == <<stream, pending, check, looking, queued, wire>>
page     == <<shown, cursor, base, identified, recovering, again, request>>
vars     == <<database, listener, client, page, faults>>

Entry    == [seq : Nat, rank : Ranks]
Cursor   == [kind : {"none", "history", "live"}, at : Nat]
NoCursor == [kind |-> "none", at |-> 0]
Live(v)  == [kind |-> "live", at |-> v]

\* A request is on its way, answered by the database (the handler has not
\* resumed), or answered to the page.
Stages  == {"none", "sent", "read", "answered"}
Request == [stage : Stages, named : BOOLEAN, entries : SUBSET Entry, next : Cursor, resume : Cursor]

NoRequest   == [stage |-> "none", named |-> FALSE, entries |-> {}, next |-> NoCursor, resume |-> NoCursor]
Fetch(name) == [NoRequest EXCEPT !.stage = "sent", !.named = name]

\* The web process holds a subscription for the stream.
Subscribed == {"subscribed", "readying", "open"}

TypeOK ==
    /\ sequence \in 0..MaxEntries
    /\ writing \in SUBSET Entry /\ \A v, w \in writing : v = w
    /\ entries \in SUBSET Entry
    /\ listening \in BOOLEAN
    /\ notified \in Seq(Nat)
    /\ stream \in {"none", "connecting", "failed"} \cup Subscribed
    /\ pending \in Nat
    /\ check \in {"idle", "lookup", "write"}
    /\ looking \in Nat
    /\ queued \in BOOLEAN
    /\ wire \in Seq({"ready", "hint"})
    /\ shown \in SUBSET Entry
    /\ cursor \in Cursor
    /\ base \in Nat
    /\ identified \in BOOLEAN
    /\ recovering \in BOOLEAN
    /\ again \in BOOLEAN
    /\ request \in Request
    /\ faults \in 0..MaxFaults

Init ==
    /\ sequence = 0 /\ writing = {} /\ entries = {}
    /\ listening = TRUE /\ notified = <<>>
    /\ stream = "none" /\ pending = 0 /\ check = "idle" /\ looking = 0 /\ queued = FALSE
    /\ wire = <<>>
    /\ shown = {} /\ cursor = NoCursor /\ base = 0
    /\ identified = FALSE /\ recovering = FALSE /\ again = FALSE /\ request = NoRequest
    /\ faults = 0

-----------------------------------------------------------------------------
(* Writers.                                                                 *)

\* A transaction inserts an entry with the next sequence number.
Insert ==
    /\ sequence < MaxEntries
    /\ sequence' = sequence + 1
    /\ \E r \in Ranks \ {e.rank : e \in entries \cup writing} :
        writing' = writing \cup {[seq |-> sequence + 1, rank |-> r]}
    /\ UNCHANGED <<entries, listener, client, page, faults>>

\* Mutant: the number is drawn without the writer lock.
BeginWriteUnlocked == Insert

\* The writer lock is taken before the number is drawn and held to the end.
BeginWrite == writing = {} /\ Insert

\* The transaction commits, and only then PostgreSQL notifies.
CommitWrite ==
    /\ \E w \in writing :
        /\ writing' = writing \ {w}
        /\ entries' = entries \cup {w}
        /\ notified' = IF listening THEN Append(notified, w.seq) ELSE notified
    /\ UNCHANGED <<sequence, listening, client, page, faults>>

\* The transaction rolls back; its sequence number stays used.
RollbackWrite ==
    /\ \E w \in writing : writing' = writing \ {w}
    /\ UNCHANGED <<sequence, entries, listener, client, page, faults>>

-----------------------------------------------------------------------------
(* Pages of the Timeline API: one REPEATABLE READ snapshot.                 *)

Matches(c) ==
    {e \in entries : /\ c.kind = "history" => e.rank > c.at
                     /\ c.kind = "live" => e.seq > c.at}

\* The order of a page: by sequence for a live cursor, else by history order.
Key(c, e) == IF c.kind = "live" THEN e.seq ELSE e.rank

\* S is the first Limit matches.
FirstOf(c, S) ==
    /\ S \subseteq Matches(c)
    /\ \A e \in S, f \in Matches(c) : Key(c, f) < Key(c, e) => f \in S
    /\ Cardinality(S) <= Limit
    /\ S = Matches(c) \/ Cardinality(S) = Limit

\* After a page with more behind it, a cursor at its last entry.
NextCursor(c, S, next) ==
    IF S = Matches(c)
    THEN next = NoCursor
    ELSE \E e \in S :
            /\ \A f \in S : Key(c, f) <= Key(c, e)
            /\ next = [kind |-> IF c.kind = "live" THEN "live" ELSE "history", at |-> Key(c, e)]

\* With a page that is not empty, a live cursor at the end of the Timeline.
ResumeCursor(S, resume) ==
    IF S = {}
    THEN resume = NoCursor
    ELSE \E m \in entries : (\A e \in entries : e.seq <= m.seq) /\ resume = Live(m.seq)

Cursors == {NoCursor} \cup {[kind |-> k, at |-> n] : k \in {"live", "history"},
                                                     n \in UNION {{e.seq, e.rank} : e \in entries}}

-----------------------------------------------------------------------------
(* The event stream in the web process.                                     *)

\* sendAuthorizedHint starts with notification p if it may.
Kick(p, may) ==
    IF may /\ p # 0
    THEN check' = "lookup" /\ looking' = p /\ pending' = 0
    ELSE pending' = p /\ UNCHANGED <<check, looking>>

\* A notification arrives: the newest one waits, or is looked up at once.
Notify ==
    /\ notified # <<>>
    /\ notified' = Tail(notified)
    /\ IF stream \in Subscribed
       THEN Kick(Head(notified), stream = "open" /\ check = "idle" /\ ~queued)
       ELSE UNCHANGED <<pending, check, looking>>
    /\ UNCHANGED <<database, listening, stream, queued, wire, page, faults>>

\* The entry has been looked up for this Workspace: the hint is written.
SendHint ==
    /\ check = "lookup"
    /\ queued' = TRUE
    /\ check' = "write"
    /\ wire' = Append(wire, "hint")
    /\ UNCHANGED <<database, listener, stream, pending, looking, page, faults>>

\* The write has settled; a notification that came meanwhile is taken up,
\* unless the page has not fetched since the hint.
HintWritten ==
    /\ check = "write"
    /\ IF pending # 0 /\ ~queued
       THEN check' = "lookup" /\ looking' = pending /\ pending' = 0
       ELSE check' = "idle" /\ UNCHANGED <<looking, pending>>
    /\ UNCHANGED <<database, listener, stream, queued, wire, page, faults>>

\* The stream request subscribes; LISTEN is re-established when it was lost.
Subscribe ==
    /\ stream = "connecting"
    /\ stream' = "subscribed"
    /\ listening' = TRUE
    /\ UNCHANGED <<database, notified, pending, check, looking, queued, wire, page, faults>>

\* The ready event is written ...
WriteReady ==
    /\ stream = "subscribed"
    /\ stream' = "readying"
    /\ wire' = Append(wire, "ready")
    /\ UNCHANGED <<database, listener, pending, check, looking, queued, page, faults>>

\* ... and hints may follow it.
ReadySent ==
    /\ stream = "readying"
    /\ stream' = "open"
    /\ Kick(pending, check = "idle")
    /\ UNCHANGED <<database, listener, queued, wire, page, faults>>

\* The stream is over: the server forgets the client, unread events are lost,
\* and the page no longer has a client id.
Drop(next) ==
    /\ stream' = next
    /\ pending' = 0 /\ check' = "idle" /\ looking' = 0 /\ queued' = FALSE
    /\ wire' = <<>>
    /\ identified' = FALSE

Unnamed(r) == [r EXCEPT !.named = FALSE]

Fault(f) ==
    /\ f \in Faults
    /\ faults < MaxFaults
    /\ faults' = faults + 1

\* The connection breaks, or the lookup of a hint fails and the server closes
\* the stream: EventSource connects again by itself.
StreamBreaks ==
    /\ Fault("disconnect") \/ (check = "lookup" /\ Fault("database"))
    /\ stream \in Subscribed
    /\ Drop("connecting")
    /\ request' = Unnamed(request)
    /\ UNCHANGED <<database, listener, shown, cursor, base, recovering, again>>

\* The LISTEN connection fails: every stream is closed.
ListenFails ==
    /\ Fault("listen")
    /\ listening
    /\ listening' = FALSE
    /\ notified' = <<>>
    /\ IF stream \in Subscribed
       THEN Drop("connecting") /\ request' = Unnamed(request)
       ELSE UNCHANGED <<client, identified, request>>
    /\ UNCHANGED <<database, shown, cursor, base, recovering, again>>

\* LISTEN is still down when the stream connects again: the answer is 503, and
\* an EventSource does not retry an answer other than 200.
StreamRefused ==
    /\ "refused" \in Faults
    /\ stream = "connecting" /\ ~listening
    /\ stream' = "failed"
    /\ UNCHANGED <<database, listener, pending, check, looking, queued, wire, page, faults>>

-----------------------------------------------------------------------------
(* The page.                                                                *)

\* The page is rendered, with its first entries and a resume cursor if it has
\* any, and its script connects.
LoadPage ==
    /\ stream = "none"
    /\ entries # {} \/ "emptyPage" \in Faults
    /\ \E S \in SUBSET entries, resume \in Cursors :
        /\ FirstOf(NoCursor, S)
        /\ ResumeCursor(S, resume)
        /\ shown' = S
        /\ cursor' = resume
        /\ base' = resume.at
    /\ stream' = "connecting"
    /\ UNCHANGED <<database, listener, pending, check, looking, queued, wire,
                   identified, recovering, again, request, faults>>

\* recover(): one loop at a time; a call during the loop makes it run again.
Recover(name) ==
    IF recovering
    THEN again' = TRUE /\ UNCHANGED <<recovering, request>>
    ELSE recovering' = TRUE /\ again' = FALSE /\ request' = Fetch(name)

\* Mutant: the page only remembers its client id when the stream is ready.
OnReadyNoRecovery ==
    /\ wire # <<>> /\ Head(wire) = "ready"
    /\ wire' = Tail(wire)
    /\ identified' = TRUE
    /\ UNCHANGED <<database, listener, stream, pending, check, looking, queued,
                   shown, cursor, base, recovering, again, request, faults>>

\* The stream is ready: recover what was committed before LISTEN was active.
OnReady ==
    /\ wire # <<>> /\ Head(wire) = "ready"
    /\ wire' = Tail(wire)
    /\ identified' = TRUE
    /\ Recover(TRUE)
    /\ UNCHANGED <<database, listener, stream, pending, check, looking, queued,
                   shown, cursor, base, faults>>

\* A hint: recover.
OnHint ==
    /\ wire # <<>> /\ Head(wire) = "hint"
    /\ wire' = Tail(wire)
    /\ Recover(identified)
    /\ UNCHANGED <<database, listener, stream, pending, check, looking, queued,
                   shown, cursor, base, identified, faults>>

\* The handler of GET /api/timeline reads its page.
ReadPage ==
    /\ request.stage = "sent"
    /\ \E S \in SUBSET Matches(cursor), next \in Cursors, resume \in Cursors :
        /\ FirstOf(cursor, S)
        /\ NextCursor(cursor, S, next)
        /\ ResumeCursor(S, resume)
        /\ request' = [request EXCEPT !.stage = "read", !.entries = S,
                                      !.next = next, !.resume = resume]
    /\ UNCHANGED <<database, listener, client, shown, cursor, base, identified,
                   recovering, again, faults>>

\* Mutant: a notification that waits for the page's fetch is dropped by it.
RespondForgetful ==
    /\ request.stage = "read"
    /\ request' = [request EXCEPT !.stage = "answered"]
    /\ IF request.named
       THEN queued' = FALSE /\ pending' = 0 /\ UNCHANGED <<check, looking>>
       ELSE UNCHANGED <<queued, pending, check, looking>>
    /\ UNCHANGED <<database, listener, stream, wire, shown, cursor, base, identified,
                   recovering, again, faults>>

\* The handler answers; for the page's own stream, hints are allowed again and
\* a notification that came since the last hint is sent.
Respond ==
    /\ request.stage = "read"
    /\ request' = [request EXCEPT !.stage = "answered"]
    /\ IF request.named
       THEN queued' = FALSE /\ Kick(pending, stream = "open" /\ check = "idle")
       ELSE UNCHANGED <<queued, pending, check, looking>>
    /\ UNCHANGED <<database, listener, stream, wire, shown, cursor, base, identified,
                   recovering, again, faults>>

\* Where the page goes on after an answer.
After(c, r) ==
    IF r.next # NoCursor THEN r.next ELSE IF r.resume # NoCursor THEN r.resume ELSE c

\* The page appends what it does not show yet, moves its cursor, and fetches
\* again while there is more or recover() was called meanwhile.
Receive ==
    /\ request.stage = "answered"
    /\ shown' = shown \cup request.entries
    /\ cursor' = After(cursor, request)
    /\ again' = FALSE
    /\ IF again \/ request.next # NoCursor
       THEN request' = Fetch(identified) /\ UNCHANGED recovering
       ELSE request' = NoRequest /\ recovering' = FALSE
    /\ UNCHANGED <<database, listener, client, base, identified, faults>>

\* A fetch fails: the page drops its stream and connects anew; a recover()
\* that was asked for meanwhile runs at once.
FetchFails ==
    /\ Fault("fetch")
    /\ request.stage # "none"
    /\ Drop("connecting")
    /\ again' = FALSE
    /\ recovering' = again
    /\ request' = IF again THEN Fetch(FALSE) ELSE NoRequest
    /\ UNCHANGED <<database, listener, shown, cursor, base>>

-----------------------------------------------------------------------------
\* What the web process and the page do on their own.
SystemStep ==
    \/ Notify \/ SendHint \/ HintWritten \/ Subscribe \/ WriteReady \/ ReadySent
    \/ OnReady \/ OnHint \/ ReadPage \/ Respond \/ Receive

\* Writers, the visitor and faults.
Environment ==
    \/ BeginWrite \/ CommitWrite \/ RollbackWrite \/ LoadPage
    \/ StreamBreaks \/ ListenFails \/ StreamRefused \/ FetchFails

Next == SystemStep \/ Environment

Spec == Init /\ [][Next]_vars

\* Requests and events arrive, and event loops run what is ready.
FairSpec == Spec /\ WF_vars(SystemStep)

-----------------------------------------------------------------------------
(* Properties.                                                              *)

\* The live cursor never passes an entry the page does not show: everything
\* committed after the page was rendered, up to its cursor, is on the page.
\* (Numbers are committed in order: a writer still running has a larger one.)
NothingPassed ==
    cursor.kind = "live"
    => \A e \in entries \cup writing : base < e.seq /\ e.seq <= cursor.at => e \in shown

\* Wake-ups are not lost: an open stream on which nothing is under way -- no
\* notification, hint, event or fetch -- means that the page is complete.
NoLostWakeup ==
    (/\ stream = "open" /\ notified = <<>> /\ check = "idle" /\ wire = <<>>
     /\ ~recovering)
    => \A e \in entries : e.seq > base => e \in shown

\* Every entry committed after the page was rendered is shown in the end, unless
\* a request for the event stream was refused.
EventuallyShown ==
    \A n \in 1..MaxEntries :
        (stream # "none" /\ n > base /\ \E e \in entries : e.seq = n)
        ~> (stream = "failed" \/ \E e \in shown : e.seq = n)
=============================================================================
