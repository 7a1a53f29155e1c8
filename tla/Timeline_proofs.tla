---------------------------- MODULE Timeline_proofs ----------------------------
(***************************************************************************)
(* Proofs about how Timeline entries reach a page: nothing is passed by its  *)
(* cursor, and no wake-up is lost, for pages, Timelines, faults and numbers  *)
(* of writers of any size.                                                   *)
(*                                                                         *)
(* A page that was rendered without entries has no live cursor yet; what is   *)
(* said here of cursors and wake-ups is about pages rendered with entries.    *)
(***************************************************************************)
EXTENDS TimelineFeed, FiniteSetTheorems, TLAPS

\* Numbers are drawn under the writer lock: who writes has the last one, and no
\* two entries share a number.
Numbered ==
    /\ \A e \in entries : 1 <= e.seq /\ e.seq <= sequence
    /\ \A w \in writing : 1 <= w.seq /\ w.seq = sequence
    /\ \A e \in entries, w \in writing : e.seq < w.seq
    /\ \A e, f \in entries : e.seq = f.seq => e = f

\* The page was rendered with entries.
Rendered == base # 0

IsCommitted(n) == \E e \in entries : e.seq = n

\* What a page that was rendered with entries goes on from.
CursorInv ==
    Rendered =>
        /\ stream # "none"
        /\ cursor.kind = "live" /\ IsCommitted(cursor.at)
        /\ \A e \in entries : base < e.seq /\ e.seq <= cursor.at => e \in shown

\* From the cursor, S leaves no gap up to a live cursor.
Reaches(to, S) ==
    /\ to.kind = "live" /\ IsCommitted(to.at)
    /\ \A e \in entries : cursor.at < e.seq /\ e.seq <= to.at => e \in S

\* An answer holds everything between the cursor and where the page goes on.
AnswerInv ==
    Rendered /\ request.stage \in {"read", "answered"} =>
        Reaches(After(cursor, request), request.entries)

\* The event stream is ready or about to be: hints may come.
Streaming == stream \in {"readying", "open"}

HintOnWire == \E i \in 1..Len(wire) : wire[i] = "hint"

\* ready is the first event of a stream; the page knows its name from then on.
WireInv ==
    /\ ~Streaming => wire = <<>>
    /\ \A i \in 2..Len(wire) : wire[i] = "hint"
    /\ Streaming => identified \/ (wire # <<>> /\ wire[1] = "ready")

\* A stream is subscribed only while LISTEN is active, and only an open one has
\* hints under way.
ClientInv ==
    /\ stream \in Subscribed => listening
    /\ stream # "open" => check = "idle" /\ ~queued
    /\ stream = "open" /\ pending # 0 => check # "idle" \/ queued
    /\ recovering <=> request.stage # "none"
    /\ again => recovering
    /\ stream = "none" => request.stage = "none"

\* No hint is held back but for one the page has not fetched for yet.
QueueInv ==
    queued =>
        \/ HintOnWire
        \/ identified /\ (again \/ (request.named /\ request.stage \in {"sent", "read"}))

\* The page will fetch after this state.
Due ==
    \/ wire # <<>>
    \/ again
    \/ request.stage = "sent"
    \/ request.stage \in {"read", "answered"} /\ request.next # NoCursor

\* A notification is on its way to become a hint.
Waking == pending # 0 \/ check = "lookup"

Notified(n) == \E i \in 1..Len(notified) : notified[i] = n

\* Every entry the page lacks is fetched, announced or in an answer.
WakeInv ==
    Rendered /\ Streaming =>
        \A e \in entries : base < e.seq /\ e \notin shown =>
            \/ Due \/ Waking \/ Notified(e.seq)
            \/ request.stage \in {"read", "answered"} /\ e \in request.entries

NotifiedInv == \A i \in 1..Len(notified) : notified[i] # 0

FeedInv ==
    /\ TypeOK
    /\ Numbered /\ CursorInv /\ AnswerInv
    /\ WireInv /\ ClientInv /\ QueueInv /\ WakeInv /\ NotifiedInv

-----------------------------------------------------------------------------
(* Types.                                                                   *)

LEMMA InitialTypes == Init => TypeOK
<1>1. NoCursor \in Cursor /\ NoRequest \in Request
  BY DEF NoCursor, Cursor, NoRequest, Request, Stages
<1>2. 0 \in 0..MaxEntries /\ 0 \in 0..MaxFaults
  BY FeedAssumption
<1>3. <<>> \in Seq({"ready", "hint"}) /\ <<>> \in Seq(Nat)
  OBVIOUS
<1>4. SUFFICES ASSUME Init PROVE TypeOK
  OBVIOUS
<1>5. notified \in Seq(Nat) /\ wire \in Seq({"ready", "hint"})
  BY <1>3, <1>4 DEF Init
<1>6. /\ sequence \in 0..MaxEntries /\ faults \in 0..MaxFaults
      /\ cursor \in Cursor /\ request \in Request
  BY <1>1, <1>2, <1>4 DEF Init
<1>7. /\ writing \in SUBSET Entry /\ (\A v, w \in writing : v = w)
      /\ entries \in SUBSET Entry /\ shown \in SUBSET Entry
  BY <1>4 DEF Init
<1>8. /\ stream \in {"none", "connecting", "failed"} \cup Subscribed
      /\ check \in {"idle", "lookup", "write"}
      /\ pending \in Nat /\ looking \in Nat /\ base \in Nat
  BY <1>4 DEF Init
<1>9. /\ listening \in BOOLEAN /\ queued \in BOOLEAN /\ identified \in BOOLEAN
      /\ recovering \in BOOLEAN /\ again \in BOOLEAN
  BY <1>4 DEF Init
<1> QED BY <1>5, <1>6, <1>7, <1>8, <1>9 DEF TypeOK

LEMMA FetchTyped == ASSUME NEW name \in BOOLEAN PROVE Fetch(name) \in Request
BY DEF Fetch, NoRequest, Request, NoCursor, Cursor, Stages

LEMMA CursorsTyped == ASSUME entries \in SUBSET Entry PROVE Cursors \subseteq Cursor
<1>1. ASSUME NEW c \in Cursors PROVE c \in Cursor
  <2>1. CASE c = NoCursor
    BY <2>1 DEF Cursor, NoCursor
  <2>2. CASE c # NoCursor
    <3>1. PICK k \in {"live", "history"}, n \in UNION {{e.seq, e.rank} : e \in entries} :
              c = [kind |-> k, at |-> n]
      BY <1>1, <2>2 DEF Cursors
    <3>2. PICK e \in entries : n = e.seq \/ n = e.rank
      OBVIOUS
    <3>3. n \in Nat
      BY <3>2, FeedAssumption DEF Entry
    <3> QED BY <3>1, <3>3 DEF Cursor
  <2> QED BY <2>1, <2>2
<1> QED BY <1>1

\* Writers.
LEMMA WriterTypes ==
    ASSUME TypeOK, BeginWrite \/ CommitWrite \/ RollbackWrite
    PROVE  TypeOK'
<1>1. CASE BeginWrite
  <2>1. PICK r \in Ranks : writing' = {[seq |-> sequence + 1, rank |-> r]}
    BY <1>1 DEF BeginWrite, Insert
  <2>2. sequence' \in 0..MaxEntries /\ sequence' \in Nat
    BY <1>1, FeedAssumption DEF BeginWrite, Insert, TypeOK
  <2>3. writing' \in SUBSET Entry /\ \A v, w \in writing' : v = w
    BY <1>1, <2>1, <2>2 DEF BeginWrite, Insert, TypeOK, Entry
  <2> QED BY <1>1, <2>2, <2>3 DEF BeginWrite, Insert, TypeOK, listener, client, page
<1>2. CASE CommitWrite
  <2>1. PICK w \in writing : /\ writing' = writing \ {w}
                             /\ entries' = entries \cup {w}
                             /\ notified' = IF listening THEN Append(notified, w.seq) ELSE notified
    BY <1>2 DEF CommitWrite
  <2>2. w \in Entry /\ w.seq \in Nat
    BY DEF TypeOK, Entry
  <2>3. writing' \in SUBSET Entry /\ (\A v, x \in writing' : v = x) /\ entries' \in SUBSET Entry
    BY <2>1, <2>2 DEF TypeOK
  <2>4. notified' \in Seq(Nat)
    BY <2>1, <2>2 DEF TypeOK
  <2> QED BY <1>2, <2>3, <2>4 DEF CommitWrite, TypeOK, client, page
<1>3. CASE RollbackWrite
  BY <1>3 DEF RollbackWrite, TypeOK, listener, client, page
<1> QED BY <1>1, <1>2, <1>3

\* The web process.
LEMMA ClientTypes ==
    ASSUME TypeOK, Notify \/ SendHint \/ HintWritten \/ Subscribe \/ WriteReady \/ ReadySent
    PROVE  TypeOK'
<1>1. CASE Notify
  <2>1. Head(notified) \in Nat /\ Tail(notified) \in Seq(Nat)
    BY <1>1 DEF Notify, TypeOK
  <2> QED BY <1>1, <2>1 DEF Notify, Kick, TypeOK, database, page
<1>2. CASE SendHint
  <2>1. wire' \in Seq({"ready", "hint"})
    BY <1>2 DEF SendHint, TypeOK
  <2> QED BY <1>2, <2>1 DEF SendHint, TypeOK, database, listener, page
<1>3. CASE HintWritten
  BY <1>3 DEF HintWritten, TypeOK, database, listener, page
<1>4. CASE Subscribe
  BY <1>4 DEF Subscribe, TypeOK, database, page, Subscribed
<1>5. CASE WriteReady
  <2>1. wire' \in Seq({"ready", "hint"})
    BY <1>5 DEF WriteReady, TypeOK
  <2> QED BY <1>5, <2>1 DEF WriteReady, TypeOK, database, listener, page, Subscribed
<1>6. CASE ReadySent
  BY <1>6 DEF ReadySent, Kick, TypeOK, database, listener, page, Subscribed
<1> QED BY <1>1, <1>2, <1>3, <1>4, <1>5, <1>6

\* Streams that end.
LEMMA FaultTypes ==
    ASSUME TypeOK, StreamBreaks \/ ListenFails \/ StreamRefused \/ FetchFails
    PROVE  TypeOK'
<1>1. \A f : Fault(f) => faults' \in 0..MaxFaults
  BY FeedAssumption DEF Fault, TypeOK
<1>2. Unnamed(request) \in Request
  BY DEF Unnamed, TypeOK, Request
<1>3. <<>> \in Seq({"ready", "hint"}) /\ <<>> \in Seq(Nat)
  OBVIOUS
<1>4. CASE StreamBreaks
  <2>1. faults' \in 0..MaxFaults
    BY <1>1, <1>4 DEF StreamBreaks
  <2>2. Drop("connecting") /\ request' = Unnamed(request)
        /\ UNCHANGED <<database, listener, shown, cursor, base, recovering, again>>
    BY <1>4 DEF StreamBreaks
  <2>3. /\ stream' = "connecting" /\ check' = "idle" /\ pending' = 0 /\ looking' = 0 /\ queued' = FALSE
        /\ wire' \in Seq({"ready", "hint"}) /\ identified' = FALSE /\ request' \in Request
    BY <1>2, <1>3, <2>2 DEF Drop
  <2> QED BY <2>1, <2>2, <2>3 DEF TypeOK, database, listener
<1>5. CASE ListenFails
  <2>1. /\ faults' \in 0..MaxFaults /\ listening' = FALSE /\ notified' = <<>>
        /\ UNCHANGED <<database, shown, cursor, base, recovering, again>>
    BY <1>1, <1>5 DEF ListenFails
  <2>2. CASE stream \in Subscribed
    <3>1. /\ stream' = "connecting" /\ check' = "idle" /\ pending' = 0 /\ looking' = 0 /\ queued' = FALSE
          /\ wire' \in Seq({"ready", "hint"}) /\ identified' = FALSE /\ request' \in Request
      BY <1>2, <1>3, <1>5, <2>2 DEF ListenFails, Drop
    <3> QED BY <1>3, <2>1, <3>1 DEF TypeOK, database
  <2>3. CASE stream \notin Subscribed
    <3>1. UNCHANGED <<client, identified, request>>
      BY <1>5, <2>3 DEF ListenFails
    <3> QED BY <1>3, <2>1, <3>1 DEF TypeOK, database, client
  <2> QED BY <2>2, <2>3
<1>6. CASE StreamRefused
  BY <1>6 DEF StreamRefused, TypeOK, database, listener, page
<1>7. CASE FetchFails
  <2>1. request' \in Request
    BY <1>7, FetchTyped DEF FetchFails, Request, NoRequest, NoCursor, Cursor, Stages
  <2> QED BY <1>1, <1>3, <1>7, <2>1 DEF FetchFails, Drop, TypeOK, database, listener
<1> QED BY <1>4, <1>5, <1>6, <1>7

\* The page and its requests.
LEMMA PageTypes ==
    ASSUME TypeOK, LoadPage \/ OnReady \/ OnHint \/ ReadPage \/ Respond \/ Receive
    PROVE  TypeOK'
<1>1. CASE LoadPage
  <2>1. PICK S \in SUBSET entries, resume \in Cursors :
            shown' = S /\ cursor' = resume /\ base' = resume.at
    BY <1>1 DEF LoadPage
  <2>2. resume \in Cursor
    BY CursorsTyped DEF TypeOK
  <2>3. shown' \in SUBSET Entry /\ cursor' \in Cursor /\ base' \in Nat
    BY <2>1, <2>2 DEF TypeOK, Cursor
  <2> QED BY <1>1, <2>3 DEF LoadPage, TypeOK, database, listener
<1>2. wire # <<>> => Tail(wire) \in Seq({"ready", "hint"})
  BY DEF TypeOK
<1>3. CASE OnReady
  BY <1>2, <1>3, FetchTyped DEF OnReady, Recover, TypeOK, database, listener
<1>4. CASE OnHint
  BY <1>2, <1>4, FetchTyped DEF OnHint, Recover, TypeOK, database, listener
<1>5. CASE ReadPage
  <2>1. PICK S \in SUBSET Matches(cursor), next \in Cursors, resume \in Cursors :
            request' = [request EXCEPT !.stage = "read", !.entries = S, !.next = next, !.resume = resume]
    BY <1>5 DEF ReadPage
  <2>2. next \in Cursor /\ resume \in Cursor /\ S \in SUBSET Entry
    BY CursorsTyped DEF TypeOK, Matches
  <2>3. request' \in Request
    BY <2>1, <2>2 DEF TypeOK, Request, Stages
  <2> QED BY <1>5, <2>3 DEF ReadPage, TypeOK, database, listener, client
<1>6. CASE Respond
  <2>1. request' \in Request
    BY <1>6 DEF Respond, TypeOK, Request, Stages
  <2>2. check' \in {"idle", "lookup", "write"} /\ looking' \in Nat /\ pending' \in Nat /\ queued' \in BOOLEAN
    <3>1. \/ queued' = FALSE /\ Kick(pending, stream = "open" /\ check = "idle")
          \/ UNCHANGED <<queued, pending, check, looking>>
      BY <1>6, Zenon DEF Respond
    <3>2. CASE queued' = FALSE /\ Kick(pending, stream = "open" /\ check = "idle")
      <4>1. pending \in Nat /\ looking \in Nat /\ check \in {"idle", "lookup", "write"}
        BY DEF TypeOK
      <4>2. check' \in {"idle", "lookup", "write"} /\ looking' \in Nat /\ pending' \in Nat
        BY <3>2, <4>1 DEF Kick
      <4> QED BY <3>2, <4>2
    <3>3. CASE UNCHANGED <<queued, pending, check, looking>>
      BY <3>3 DEF TypeOK
    <3> QED BY <3>1, <3>2, <3>3
  <2> QED BY <1>6, <2>1, <2>2 DEF Respond, TypeOK, database, listener
<1>7. CASE Receive
  <2>1. request' \in Request
    <3>1. NoRequest \in Request /\ Fetch(identified) \in Request
      BY FetchTyped DEF TypeOK, NoRequest, NoCursor, Request, Cursor, Stages
    <3> QED BY <1>7, <3>1 DEF Receive
  <2>2. cursor' \in Cursor /\ shown' \in SUBSET Entry
    BY <1>7 DEF Receive, After, TypeOK, Request
  <2> QED BY <1>7, <2>1, <2>2 DEF Receive, TypeOK, database, listener, client
<1> QED BY <1>1, <1>3, <1>4, <1>5, <1>6, <1>7

LEMMA TypesStep == TypeOK /\ [Next]_vars => TypeOK'
<1> SUFFICES ASSUME TypeOK, [Next]_vars PROVE TypeOK'
  OBVIOUS
<1>1. CASE UNCHANGED vars
  BY <1>1 DEF vars, database, listener, client, page, TypeOK
<1> QED BY <1>1, WriterTypes, ClientTypes, FaultTypes, PageTypes DEF Next, SystemStep, Environment

-----------------------------------------------------------------------------
(* Numbers.                                                                 *)

LEMMA OnlyWritersWrite ==
    ASSUME [Next]_vars, ~BeginWrite, ~CommitWrite, ~RollbackWrite
    PROVE  UNCHANGED database
BY DEF Next, SystemStep, Environment, Notify, SendHint, HintWritten, Subscribe, WriteReady, ReadySent,
       OnReady, OnHint, ReadPage, Respond, Receive, LoadPage, StreamBreaks, ListenFails, StreamRefused,
       FetchFails, vars

\* A commit adds the entry of the only writer, which has the last number.
LEMMA CommitAdds ==
    ASSUME TypeOK, Numbered, CommitWrite
    PROVE  \E w \in writing :
               /\ entries' = entries \cup {w} /\ writing' = {}
               /\ w.seq \in Nat /\ 1 <= w.seq /\ w.seq = sequence
               /\ \A e \in entries : e.seq < w.seq
               /\ notified' = IF listening THEN Append(notified, w.seq) ELSE notified
<1>1. PICK w \in writing : /\ writing' = writing \ {w}
                           /\ entries' = entries \cup {w}
                           /\ notified' = IF listening THEN Append(notified, w.seq) ELSE notified
  BY DEF CommitWrite
<1>2. writing' = {}
  BY <1>1 DEF TypeOK
<1>3. w.seq \in Nat /\ 1 <= w.seq /\ w.seq = sequence
  BY DEF TypeOK, Entry, Numbered
<1>4. \A e \in entries : e.seq < w.seq
  BY DEF Numbered
<1> QED BY <1>1, <1>2, <1>3, <1>4

LEMMA NumbersStep == TypeOK /\ Numbered /\ [Next]_vars => Numbered'
<1> SUFFICES ASSUME TypeOK, Numbered, [Next]_vars PROVE Numbered'
  OBVIOUS
<1>1. /\ sequence \in Nat
      /\ \A e \in entries \cup writing : e.seq \in Nat
  BY FeedAssumption DEF TypeOK, Entry
<1>2. CASE BeginWrite
  <2>1. /\ writing = {} /\ sequence' = sequence + 1 /\ entries' = entries
        /\ \E r \in Ranks : writing' = {[seq |-> sequence + 1, rank |-> r]}
    BY <1>2 DEF BeginWrite, Insert
  <2> QED BY <1>1, <2>1 DEF Numbered
<1>3. CASE CommitWrite
  <2>1. sequence' = sequence
    BY <1>3 DEF CommitWrite
  <2> QED BY <1>1, <1>3, <2>1, CommitAdds DEF Numbered
<1>4. CASE RollbackWrite
  BY <1>4 DEF RollbackWrite, Numbered
<1>5. CASE UNCHANGED database
  BY <1>5 DEF database, Numbered
<1> QED BY <1>2, <1>3, <1>4, <1>5, OnlyWritersWrite

-----------------------------------------------------------------------------
(* The cursor.                                                              *)

\* A step that leaves what the page shows and its cursor alone, and does to its
\* request nothing but start, name, answer or drop it.
QuietPage ==
    /\ UNCHANGED <<entries, shown, cursor, base>>
    /\ stream # "none" => stream' # "none"
    /\ \/ request' = request
       \/ request' = Unnamed(request)
       \/ request.stage = "read" /\ request' = [request EXCEPT !.stage = "answered"]
       \/ request'.stage \in {"none", "sent"}

LEMMA FetchStage == \A name : Fetch(name).stage = "sent" /\ NoRequest.stage = "none"
BY DEF Fetch, NoRequest

LEMMA QuietSteps ==
    ASSUME TypeOK, [Next]_vars, ~CommitWrite, ~LoadPage, ~ReadPage, ~Receive
    PROVE  QuietPage
<1>1. CASE BeginWrite \/ RollbackWrite
  BY <1>1 DEF BeginWrite, Insert, RollbackWrite, client, page, QuietPage
<1>2. CASE Notify \/ SendHint \/ HintWritten
  BY <1>2 DEF Notify, SendHint, HintWritten, database, page, QuietPage
<1>3. CASE Subscribe \/ WriteReady \/ ReadySent \/ StreamRefused
  BY <1>3 DEF Subscribe, WriteReady, ReadySent, StreamRefused, database, page, QuietPage
<1>4. CASE OnReady \/ OnHint
  BY <1>4, FetchStage DEF OnReady, OnHint, Recover, database, QuietPage
<1>5. CASE Respond
  BY <1>5 DEF Respond, database, QuietPage
<1>6. CASE StreamBreaks
  BY <1>6 DEF StreamBreaks, Drop, database, QuietPage
<1>7. CASE ListenFails
  <2>1. UNCHANGED <<database, shown, cursor, base>>
    BY <1>7 DEF ListenFails
  <2>2. (stream' = "connecting" /\ request' = Unnamed(request)) \/ UNCHANGED <<client, request>>
    BY <1>7 DEF ListenFails, Drop
  <2> QED BY <2>1, <2>2 DEF database, client, QuietPage
<1>8. CASE FetchFails
  BY <1>8, FetchStage DEF FetchFails, Drop, database, QuietPage
<1>9. CASE UNCHANGED vars
  BY <1>9 DEF vars, database, client, page, QuietPage
<1> QED BY <1>1, <1>2, <1>3, <1>4, <1>5, <1>6, <1>7, <1>8, <1>9 DEF Next, SystemStep, Environment

LEMMA QuietKeepsCursor ==
    ASSUME TypeOK, CursorInv, AnswerInv, QuietPage
    PROVE  CursorInv' /\ AnswerInv'
<1>1. CursorInv'
  BY DEF CursorInv, QuietPage, Rendered, IsCommitted
<1>2. request \in Request
  BY DEF TypeOK
<1>3. request'.stage \in {"read", "answered"} =>
          /\ request.stage \in {"read", "answered"}
          /\ request'.entries = request.entries /\ request'.next = request.next
          /\ request'.resume = request.resume
  BY <1>2 DEF QuietPage, Unnamed, Request
<1>4. AnswerInv'
  BY <1>3 DEF QuietPage, AnswerInv, Reaches, Rendered, IsCommitted, After
<1> QED BY <1>1, <1>4

\* A commit only adds beyond every cursor.
LEMMA CommitKeepsCursor ==
    ASSUME TypeOK, Numbered, CursorInv, AnswerInv, CommitWrite
    PROVE  CursorInv' /\ AnswerInv'
<1>1. PICK w \in writing : /\ entries' = entries \cup {w} /\ w.seq \in Nat
                           /\ \A e \in entries : e.seq < w.seq
  BY CommitAdds
<1>2. UNCHANGED <<client, page>>
  BY DEF CommitWrite
<1>3. \A n \in Nat : IsCommitted(n) => IsCommitted(n)' /\ n < w.seq
  BY <1>1 DEF IsCommitted
<1>4. \A e \in entries : e.seq \in Nat
  BY DEF TypeOK, Entry
<1>5. cursor \in Cursor /\ request.next \in Cursor /\ request.resume \in Cursor
  BY DEF TypeOK, Request
<1>6. CursorInv'
  BY <1>1, <1>2, <1>3, <1>4, <1>5 DEF CursorInv, Rendered, client, page, Cursor, IsCommitted
<1>7. After(cursor, request) \in Cursor /\ After(cursor, request)' = After(cursor, request)
  BY <1>2, <1>5 DEF After, page
<1>8. AnswerInv'
  BY <1>1, <1>2, <1>3, <1>4, <1>5, <1>7 DEF AnswerInv, Reaches, Rendered, page, Cursor, IsCommitted
<1> QED BY <1>6, <1>8

\* A page that is rendered with entries has a cursor at the end of the Timeline.
LEMMA LoadGivesCursor ==
    ASSUME TypeOK, Numbered, ClientInv, CursorInv, AnswerInv, LoadPage
    PROVE  CursorInv' /\ AnswerInv'
<1>1. PICK S \in SUBSET entries, resume \in Cursors :
          /\ FirstOf(NoCursor, S) /\ ResumeCursor(S, resume)
          /\ shown' = S /\ cursor' = resume /\ base' = resume.at
  BY DEF LoadPage
<1>2. stream' = "connecting" /\ entries' = entries /\ request' = request
  BY DEF LoadPage, database
<1>3. \A e \in entries : e.seq \in Nat
  BY DEF TypeOK, Entry
<1>4. CASE S = {}
  <2>1. base' = 0
    BY <1>1, <1>4 DEF ResumeCursor, NoCursor
  <2> QED BY <2>1 DEF CursorInv, AnswerInv, Rendered
<1>5. CASE S # {}
  <2>1. PICK m \in entries : (\A e \in entries : e.seq <= m.seq) /\ resume = Live(m.seq)
    BY <1>1, <1>5 DEF ResumeCursor
  <2>2. cursor' = [kind |-> "live", at |-> m.seq] /\ base' = m.seq
    BY <1>1, <2>1 DEF Live
  <2>3. CursorInv'
    BY <1>2, <1>3, <2>1, <2>2 DEF CursorInv, IsCommitted
  <2>4. request.stage \notin {"read", "answered"}
    BY DEF ClientInv, LoadPage
  <2> QED BY <1>2, <2>3, <2>4 DEF AnswerInv
<1> QED BY <1>4, <1>5

\* A page that is read for a live cursor reaches the next one without a gap.
LEMMA PageHasNoGap ==
    ASSUME TypeOK, Numbered, cursor.kind = "live", IsCommitted(cursor.at),
           NEW S \in SUBSET Matches(cursor), NEW next \in Cursors, NEW resume \in Cursors,
           FirstOf(cursor, S), NextCursor(cursor, S, next), ResumeCursor(S, resume),
           NEW answer \in Request, answer.next = next, answer.resume = resume
    PROVE  Reaches(After(cursor, answer), S)
<1>1. \A e \in entries : e.seq \in Nat
  BY DEF TypeOK, Entry
<1>2. \A e \in entries : e \in Matches(cursor) <=> cursor.at < e.seq
  <2>1. cursor.at \in Nat
    BY DEF TypeOK, Cursor
  <2> QED BY <1>1, <2>1 DEF Matches
<1>3. \A e \in entries : Key(cursor, e) = e.seq
  BY DEF Key
<1>4. S \subseteq entries
  BY DEF Matches
<1>5. CASE S = Matches(cursor)
  <2>1. next = NoCursor
    BY <1>5 DEF NextCursor
  <2>2. resume = NoCursor => After(cursor, answer) = cursor
    BY <2>1 DEF After
  <2>3. resume # NoCursor => After(cursor, answer) = resume /\ \E m \in entries : resume = Live(m.seq)
    BY <2>1 DEF After, ResumeCursor
  <2>4. \A m \in entries : Live(m.seq).kind = "live" /\ Live(m.seq).at = m.seq
    BY DEF Live
  <2> QED BY <1>2, <1>5, <2>2, <2>3, <2>4 DEF IsCommitted, Reaches
<1>6. CASE S # Matches(cursor)
  <2>1. PICK e \in S : /\ \A f \in S : Key(cursor, f) <= Key(cursor, e)
                       /\ next = [kind |-> IF cursor.kind = "live" THEN "live" ELSE "history",
                                  at |-> Key(cursor, e)]
    BY <1>6 DEF NextCursor
  <2>2. next = Live(e.seq) /\ next # NoCursor
    BY <1>3, <1>4, <2>1 DEF Live, NoCursor
  <2>3. After(cursor, answer) = Live(e.seq)
    BY <2>2 DEF After
  <2>4. ASSUME NEW f \in entries, cursor.at < f.seq, f.seq <= e.seq PROVE f \in S
    <3>1. f \in Matches(cursor)
      BY <1>2, <2>4
    <3>2. CASE f.seq = e.seq
      BY <1>4, <3>2 DEF Numbered
    <3>3. CASE f.seq # e.seq
      <4>1. Key(cursor, f) < Key(cursor, e)
        BY <1>1, <1>3, <1>4, <2>4, <3>3
      <4> QED BY <3>1, <4>1 DEF FirstOf
    <3> QED BY <3>2, <3>3
  <2> QED BY <1>4, <2>3, <2>4 DEF Live, IsCommitted, Reaches
<1> QED BY <1>5, <1>6

LEMMA ReadKeepsCursor ==
    ASSUME TypeOK, TypeOK', Numbered, CursorInv, ReadPage
    PROVE  CursorInv' /\ AnswerInv'
<1>1. PICK S \in SUBSET Matches(cursor), next \in Cursors, resume \in Cursors :
          /\ FirstOf(cursor, S) /\ NextCursor(cursor, S, next) /\ ResumeCursor(S, resume)
          /\ request' = [request EXCEPT !.stage = "read", !.entries = S, !.next = next, !.resume = resume]
  BY DEF ReadPage
<1>2. UNCHANGED <<entries, stream, shown, cursor, base>>
  BY DEF ReadPage, database, client
<1>3. CursorInv'
  BY <1>2 DEF CursorInv, Rendered, IsCommitted
<1>4. request' \in Request /\ request'.entries = S /\ request'.next = next /\ request'.resume = resume
  BY <1>1 DEF TypeOK, Request
<1>5. CASE ~Rendered
  BY <1>2, <1>3, <1>5 DEF AnswerInv, Rendered
<1>6. CASE Rendered
  <2>1. cursor.kind = "live" /\ IsCommitted(cursor.at)
    BY <1>6 DEF CursorInv
  <2>2. PICK answer \in Request : /\ answer = request' /\ answer.next = next
                                  /\ answer.resume = resume /\ answer.entries = S
    BY <1>4
  <2>3. Reaches(After(cursor, answer), S)
    BY <1>1, <2>1, <2>2, PageHasNoGap
  <2>4. After(cursor, request)' = After(cursor, answer)
    BY <1>2, <2>2 DEF After
  <2>5. Reaches(After(cursor, request), request.entries)'
    BY <1>2, <2>2, <2>3, <2>4 DEF Reaches, IsCommitted
  <2> QED BY <1>3, <2>5 DEF AnswerInv
<1> QED BY <1>5, <1>6

LEMMA ReceiveKeepsCursor ==
    ASSUME TypeOK, CursorInv, AnswerInv, Receive
    PROVE  CursorInv' /\ AnswerInv'
<1>1. /\ UNCHANGED <<entries, stream, base>>
      /\ shown' = shown \cup request.entries /\ cursor' = After(cursor, request)
      /\ request'.stage \in {"none", "sent"}
  BY FetchStage DEF Receive, database, client
<1>2. AnswerInv'
  BY <1>1 DEF AnswerInv
<1>3. \A e \in entries : e.seq \in Nat
  BY DEF TypeOK, Entry
<1>4. cursor.at \in Nat
  BY DEF TypeOK, Cursor
<1>5. CASE ~Rendered
  BY <1>1, <1>2, <1>5 DEF CursorInv, Rendered
<1>6. CASE Rendered
  <2>1. Reaches(After(cursor, request), request.entries)
    BY <1>6 DEF AnswerInv, Receive
  <2>2. \A e \in entries : base < e.seq /\ e.seq <= cursor.at => e \in shown
    BY <1>6 DEF CursorInv
  <2>3. \A e \in entries : e.seq <= cursor.at \/ cursor.at < e.seq
    BY <1>3, <1>4
  <2>4. stream # "none"
    BY <1>6 DEF CursorInv
  <2>5. CursorInv'
    BY <1>1, <2>1, <2>2, <2>3, <2>4 DEF CursorInv, IsCommitted, Reaches
  <2> QED BY <1>2, <2>5
<1> QED BY <1>5, <1>6

LEMMA CursorStep ==
    ASSUME TypeOK, Numbered, ClientInv, CursorInv, AnswerInv, [Next]_vars
    PROVE  CursorInv' /\ AnswerInv'
BY TypesStep, QuietSteps, QuietKeepsCursor, CommitKeepsCursor, LoadGivesCursor, ReadKeepsCursor,
   ReceiveKeepsCursor

-----------------------------------------------------------------------------
(* Wake-ups.                                                                *)

StreamInv == WireInv /\ ClientInv /\ QueueInv /\ WakeInv /\ NotifiedInv

LEMMA TailElements ==
    ASSUME NEW T, NEW s \in Seq(T), s # <<>>
    PROVE  /\ Head(s) = s[1] /\ Len(s) \in Nat \ {0}
           /\ Tail(s) \in Seq(T) /\ Len(Tail(s)) = Len(s) - 1
           /\ \A i \in 1..Len(Tail(s)) : i + 1 \in 2..Len(s) /\ Tail(s)[i] = s[i + 1]
           /\ \A i \in 2..Len(s) : i - 1 \in 1..Len(Tail(s)) /\ Tail(s)[i - 1] = s[i]
OBVIOUS

LEMMA AppendElements ==
    ASSUME NEW T, NEW s \in Seq(T), NEW x \in T
    PROVE  /\ Append(s, x) \in Seq(T) /\ Append(s, x) # <<>>
           /\ Len(Append(s, x)) = Len(s) + 1 /\ Len(s) \in Nat
           /\ \A i \in 1..Len(s) : Append(s, x)[i] = s[i]
           /\ Append(s, x)[Len(s) + 1] = x
OBVIOUS

\* What a broken stream leaves behind.
LEMMA DropKeeps ==
    ASSUME TypeOK, StreamInv,
           stream' = "connecting", check' = "idle", queued' = FALSE, wire' = <<>>,
           recovering' <=> request'.stage # "none", again' => recovering',
           NotifiedInv'
    PROVE  StreamInv'
<1>1. ~Streaming'
  BY DEF Streaming
<1>2. WireInv'
  BY <1>1 DEF WireInv
<1>3. ClientInv'
  BY DEF ClientInv, Subscribed
<1> QED BY <1>1, <1>2, <1>3 DEF StreamInv, QueueInv, WakeInv

\* Steps of writers that do not commit, and steps that change nothing.
LEMMA StillKeeps ==
    ASSUME StreamInv, UNCHANGED <<entries, listener, client, page>>
    PROVE  StreamInv'
BY DEF StreamInv, WireInv, ClientInv, QueueInv, WakeInv, NotifiedInv, listener, client, page, Streaming,
       HintOnWire, Due, Waking, Notified, Rendered

\* What is committed is announced: a stream is only subscribed under LISTEN.
LEMMA CommitWakes ==
    ASSUME TypeOK, Numbered, StreamInv, CommitWrite
    PROVE  StreamInv'
<1>1. PICK w \in writing : /\ entries' = entries \cup {w} /\ w.seq \in Nat /\ 1 <= w.seq
                           /\ notified' = IF listening THEN Append(notified, w.seq) ELSE notified
  BY CommitAdds
<1>2. UNCHANGED <<listening, client, page>>
  BY DEF CommitWrite
<1>3. notified \in Seq(Nat)
  BY DEF TypeOK
<1>4. \A n \in Nat : Notified(n) => Notified(n)'
  BY <1>1, <1>3, AppendElements DEF Notified
<1>5. listening => Notified(w.seq)'
  <2>1. SUFFICES ASSUME listening PROVE Notified(w.seq)'
    OBVIOUS
  <2>2. notified'[Len(notified) + 1] = w.seq /\ Len(notified') = Len(notified) + 1 /\ Len(notified) \in Nat
    BY <1>1, <1>3, <2>1, AppendElements
  <2>3. Len(notified) + 1 \in 1..Len(notified')
    BY <2>2
  <2> QED BY <2>2, <2>3 DEF Notified
<1>6. NotifiedInv'
  <2>1. CASE listening
    <3>1. /\ Len(notified') = Len(notified) + 1 /\ notified'[Len(notified) + 1] = w.seq
          /\ \A i \in 1..Len(notified) : notified'[i] = notified[i]
      BY <1>1, <1>3, <2>1, AppendElements
    <3> QED BY <1>1, <1>3, <3>1 DEF StreamInv, NotifiedInv
  <2>2. CASE ~listening
    BY <1>1, <2>2 DEF StreamInv, NotifiedInv
  <2> QED BY <2>1, <2>2
<1>7. WireInv' /\ ClientInv' /\ QueueInv'
  BY <1>2 DEF StreamInv, WireInv, ClientInv, QueueInv, Streaming, HintOnWire, client, page
<1>8. WakeInv'
  <2>1. Rendered' = Rendered /\ Streaming' = Streaming /\ Due' = Due /\ Waking' = Waking
        /\ base' = base /\ shown' = shown /\ request' = request
    BY <1>2 DEF Rendered, Streaming, Due, Waking, client, page
  <2>2. Streaming => listening
    BY DEF StreamInv, ClientInv, Streaming, Subscribed
  <2>3. \A e \in entries : e.seq \in Nat
    BY DEF TypeOK, Entry
  <2> QED BY <1>1, <1>4, <1>5, <2>1, <2>2, <2>3 DEF StreamInv, WakeInv
<1> QED BY <1>6, <1>7, <1>8 DEF StreamInv

LEMMA LoadKeeps ==
    ASSUME TypeOK, StreamInv, LoadPage
    PROVE  StreamInv'
<1>1. /\ stream = "none" /\ stream' = "connecting"
      /\ UNCHANGED <<listener, pending, check, queued, wire, recovering, again, request>>
  BY DEF LoadPage
<1>2. ~Streaming /\ ~Streaming'
  BY <1>1 DEF Streaming
<1>3. check = "idle" /\ ~queued /\ wire = <<>> /\ (recovering <=> request.stage # "none") /\ (again => recovering)
  BY <1>1, <1>2 DEF StreamInv, ClientInv, WireInv
<1>4. NotifiedInv'
  BY <1>1 DEF StreamInv, NotifiedInv, listener
<1>5. queued' = FALSE
  BY <1>1, <1>3 DEF TypeOK
<1> QED BY <1>1, <1>3, <1>4, <1>5, DropKeeps

\* A notification wakes a streaming client: it is looked up, or it waits.
LEMMA NotifyKeeps ==
    ASSUME TypeOK, StreamInv, Notify
    PROVE  StreamInv'
<1>1. /\ notified # <<>> /\ notified' = Tail(notified)
      /\ UNCHANGED <<database, listening, stream, queued, wire, page, faults>>
  BY DEF Notify
<1>2. notified \in Seq(Nat)
  BY DEF TypeOK
<1>3. Head(notified) = notified[1] /\ Head(notified) # 0
  BY <1>1, <1>2, TailElements DEF StreamInv, NotifiedInv
<1>4. NotifiedInv'
  BY <1>1, <1>2, TailElements DEF StreamInv, NotifiedInv
<1>5. WireInv' /\ QueueInv'
  BY <1>1 DEF StreamInv, WireInv, QueueInv, Streaming, HintOnWire, page
<1>6. CASE stream \in Subscribed
  <2>1. \/ /\ stream = "open" /\ check = "idle" /\ ~queued
           /\ check' = "lookup" /\ pending' = 0
        \/ /\ ~(stream = "open" /\ check = "idle" /\ ~queued)
           /\ pending' = Head(notified) /\ check' = check
    BY <1>3, <1>6 DEF Notify, Kick
  <2>2. ClientInv'
    BY <1>1, <2>1 DEF StreamInv, ClientInv, page
  <2>3. Waking'
    BY <1>3, <2>1 DEF Waking
  <2>4. WakeInv'
    BY <2>3 DEF WakeInv
  <2> QED BY <1>4, <1>5, <2>2, <2>4 DEF StreamInv
<1>7. CASE stream \notin Subscribed
  <2>1. UNCHANGED <<pending, check>>
    BY <1>7 DEF Notify
  <2>2. ClientInv'
    BY <1>1, <2>1 DEF StreamInv, ClientInv, page
  <2>3. ~Streaming'
    BY <1>1, <1>7 DEF Streaming, Subscribed
  <2> QED BY <1>4, <1>5, <2>2, <2>3 DEF StreamInv, WakeInv
<1> QED BY <1>6, <1>7

LEMMA SendHintKeeps ==
    ASSUME TypeOK, StreamInv, SendHint
    PROVE  StreamInv'
<1>1. /\ check = "lookup" /\ check' = "write" /\ queued' = TRUE /\ wire' = Append(wire, "hint")
      /\ UNCHANGED <<database, listener, stream, pending, page>>
  BY DEF SendHint
<1>2. stream = "open"
  BY <1>1 DEF StreamInv, ClientInv
<1>3. wire \in Seq({"ready", "hint"})
  BY DEF TypeOK
<1>4. /\ wire' # <<>> /\ Len(wire') = Len(wire) + 1 /\ Len(wire) \in Nat /\ wire'[Len(wire) + 1] = "hint"
      /\ \A i \in 1..Len(wire) : wire'[i] = wire[i]
  BY <1>1, <1>3, AppendElements
<1>5. WireInv'
  <2>1. \A i \in 2..Len(wire') : wire'[i] = "hint"
    BY <1>4 DEF StreamInv, WireInv
  <2>2. identified' \/ (wire' # <<>> /\ wire'[1] = "ready")
    <3>1. identified \/ (wire # <<>> /\ wire[1] = "ready")
      BY <1>2 DEF StreamInv, WireInv, Streaming
    <3>2. wire # <<>> => 1 \in 1..Len(wire)
      BY <1>3
    <3> QED BY <1>1, <1>4, <3>1, <3>2 DEF page
  <2> QED BY <1>1, <1>2, <2>1, <2>2 DEF WireInv, Streaming
<1>6. Len(wire') \in 1..Len(wire') /\ wire'[Len(wire')] = "hint"
  BY <1>4
<1>7. HintOnWire'
  BY <1>6 DEF HintOnWire
<1>8. ClientInv' /\ NotifiedInv'
  BY <1>1, <1>2 DEF StreamInv, ClientInv, NotifiedInv, listener, page, Subscribed
<1> QED BY <1>4, <1>5, <1>7, <1>8 DEF StreamInv, QueueInv, WakeInv, Due

LEMMA HintWrittenKeeps ==
    ASSUME TypeOK, StreamInv, HintWritten
    PROVE  StreamInv'
<1>1. /\ check = "write"
      /\ UNCHANGED <<database, listener, stream, queued, wire, page>>
      /\ \/ pending # 0 /\ ~queued /\ check' = "lookup" /\ pending' = 0
         \/ ~(pending # 0 /\ ~queued) /\ check' = "idle" /\ pending' = pending
  BY DEF HintWritten
<1>2. stream = "open"
  BY <1>1 DEF StreamInv, ClientInv
<1>3. WireInv' /\ QueueInv' /\ NotifiedInv'
  BY <1>1 DEF StreamInv, WireInv, QueueInv, NotifiedInv, Streaming, HintOnWire, listener, page
<1>4. ClientInv'
  BY <1>1, <1>2 DEF StreamInv, ClientInv, listener, page
<1>5. Waking => Waking'
  BY <1>1 DEF Waking
<1>6. WakeInv'
  BY <1>1, <1>5 DEF StreamInv, WakeInv, Rendered, Streaming, Due, Notified, database, listener, page
<1> QED BY <1>3, <1>4, <1>6 DEF StreamInv

LEMMA SubscribeKeeps ==
    ASSUME TypeOK, StreamInv, Subscribe
    PROVE  StreamInv'
<1>1. /\ stream = "connecting" /\ stream' = "subscribed" /\ listening' = TRUE
      /\ UNCHANGED <<database, notified, pending, check, queued, wire, page>>
  BY DEF Subscribe
<1>2. ~Streaming /\ ~Streaming'
  BY <1>1 DEF Streaming
<1> QED BY <1>1, <1>2 DEF StreamInv, WireInv, ClientInv, QueueInv, WakeInv, NotifiedInv, HintOnWire, page

LEMMA WriteReadyKeeps ==
    ASSUME TypeOK, StreamInv, WriteReady
    PROVE  StreamInv'
<1>1. /\ stream = "subscribed" /\ stream' = "readying" /\ wire' = Append(wire, "ready")
      /\ UNCHANGED <<database, listener, pending, check, queued, page>>
  BY DEF WriteReady
<1>2. wire = <<>> /\ listening /\ check = "idle" /\ ~queued
  BY <1>1 DEF StreamInv, WireInv, ClientInv, Streaming, Subscribed
<1>3. wire' = <<"ready">>
  BY <1>1, <1>2
<1>4. WireInv' /\ wire' # <<>>
  <2>1. Len(wire') = 1 /\ wire'[1] = "ready" /\ wire' # <<>>
    BY <1>3
  <2> QED BY <1>1, <2>1 DEF WireInv, Streaming
<1>5. ClientInv'
  BY <1>1, <1>2 DEF StreamInv, ClientInv, listener, page
<1> QED BY <1>1, <1>2, <1>4, <1>5 DEF StreamInv, QueueInv, WakeInv, Due, NotifiedInv, listener

LEMMA ReadySentKeeps ==
    ASSUME TypeOK, StreamInv, ReadySent
    PROVE  StreamInv'
<1>1. /\ stream = "readying" /\ stream' = "open"
      /\ UNCHANGED <<database, listener, queued, wire, page>>
      /\ \/ check = "idle" /\ pending # 0 /\ check' = "lookup" /\ pending' = 0
         \/ ~(check = "idle" /\ pending # 0) /\ pending' = pending /\ check' = check
  BY DEF ReadySent, Kick
<1>2. Streaming /\ Streaming' /\ check = "idle" /\ ~queued
  BY <1>1 DEF Streaming, StreamInv, ClientInv
<1>3. WireInv' /\ QueueInv' /\ NotifiedInv'
  BY <1>1, <1>2 DEF StreamInv, WireInv, QueueInv, NotifiedInv, listener, page
<1>4. ClientInv'
  BY <1>1, <1>2 DEF StreamInv, ClientInv, listener, page, Subscribed
<1>5. Waking => Waking'
  BY <1>1 DEF Waking
<1>6. WakeInv'
  BY <1>1, <1>2, <1>5 DEF StreamInv, WakeInv, Rendered, Due, Notified, database, listener, page
<1> QED BY <1>3, <1>4, <1>6 DEF StreamInv

\* An event that makes the page recover, read from the front of the wire by a
\* page that knows its name.
LEMMA RecoverKeeps ==
    ASSUME TypeOK, StreamInv, wire # <<>>, wire' = Tail(wire), identified' = TRUE, Recover(TRUE),
           UNCHANGED <<database, listener, stream, pending, check, queued, shown, cursor, base>>
    PROVE  StreamInv'
<1>1. wire \in Seq({"ready", "hint"})
  BY DEF TypeOK
<1>2. Streaming /\ Streaming'
  BY DEF StreamInv, WireInv, Streaming
<1>3. WireInv'
  <2>1. /\ Len(wire) \in Nat \ {0} /\ Len(Tail(wire)) = Len(wire) - 1
        /\ \A i \in 1..Len(Tail(wire)) : i + 1 \in 2..Len(wire) /\ Tail(wire)[i] = wire[i + 1]
    BY <1>1, TailElements
  <2>2. \A i \in 2..Len(wire') : wire'[i] = "hint"
    BY <2>1 DEF StreamInv, WireInv
  <2> QED BY <1>2, <2>2 DEF WireInv
<1>4. \/ recovering /\ again' = TRUE /\ UNCHANGED <<recovering, request>>
      \/ recovering' = TRUE /\ again' = FALSE /\ request'.stage = "sent" /\ request'.named = TRUE
  <2>1. Fetch(TRUE).stage = "sent" /\ Fetch(TRUE).named = TRUE
    BY DEF Fetch, NoRequest
  <2> QED BY <2>1 DEF Recover
<1>5. ClientInv'
  <2>1. stream # "none"
    BY <1>2 DEF Streaming
  <2> QED BY <1>4, <2>1 DEF StreamInv, ClientInv, listener
<1>6. QueueInv' /\ Due'
  BY <1>4 DEF QueueInv, Due
<1>7. NotifiedInv'
  BY DEF StreamInv, NotifiedInv, listener
<1> QED BY <1>3, <1>5, <1>6, <1>7 DEF StreamInv, WakeInv

LEMMA OnReadyKeeps ==
    ASSUME TypeOK, StreamInv, OnReady
    PROVE  StreamInv'
BY RecoverKeeps DEF OnReady

\* A page that handles a hint has handled ready before.
LEMMA OnHintKeeps ==
    ASSUME TypeOK, StreamInv, OnHint
    PROVE  StreamInv'
<1>1. /\ wire # <<>> /\ Head(wire) = "hint" /\ wire' = Tail(wire) /\ Recover(identified)
      /\ UNCHANGED <<database, listener, stream, pending, check, queued, shown, cursor, base, identified>>
  BY DEF OnHint
<1>2. wire[1] = "hint"
  BY <1>1, TailElements DEF TypeOK
<1>3. identified = TRUE
  BY <1>1, <1>2 DEF StreamInv, WireInv, TypeOK
<1> QED BY <1>1, <1>3, RecoverKeeps

\* An entry the page lacks is beyond its cursor: it is in the page that is read,
\* or more is behind that page.
LEMMA ReadKeeps ==
    ASSUME TypeOK, CursorInv, StreamInv, ReadPage
    PROVE  StreamInv'
<1>1. PICK S \in SUBSET Matches(cursor), next \in Cursors, resume \in Cursors :
          /\ NextCursor(cursor, S, next)
          /\ request' = [request EXCEPT !.stage = "read", !.entries = S, !.next = next, !.resume = resume]
  BY DEF ReadPage
<1>2. /\ request.stage = "sent"
      /\ UNCHANGED <<database, listener, client, shown, cursor, base, identified, recovering, again>>
  BY DEF ReadPage
<1>3. /\ request'.stage = "read" /\ request'.named = request.named
      /\ request'.entries = S /\ request'.next = next
  BY <1>1 DEF TypeOK, Request
<1>4. WireInv' /\ ClientInv' /\ NotifiedInv'
  BY <1>2, <1>3 DEF StreamInv, WireInv, ClientInv, NotifiedInv, Streaming, listener, client
<1>5. QueueInv'
  BY <1>2, <1>3 DEF StreamInv, QueueInv, HintOnWire, client
<1>6. CASE S # Matches(cursor)
  <2>1. next # NoCursor
    BY <1>1, <1>6 DEF NextCursor, NoCursor
  <2>2. Due'
    BY <1>3, <2>1 DEF Due
  <2> QED BY <1>4, <1>5, <2>2 DEF StreamInv, WakeInv
<1>7. CASE S = Matches(cursor)
  <2>1. ASSUME Rendered, NEW e \in entries, base < e.seq, e \notin shown PROVE e \in S
    <3>1. cursor.kind = "live" /\ ~(e.seq <= cursor.at)
      BY <2>1 DEF CursorInv
    <3>2. e.seq \in Nat /\ cursor.at \in Nat
      BY DEF TypeOK, Entry, Cursor
    <3> QED BY <1>7, <3>1, <3>2 DEF Matches
  <2>2. Rendered' = Rendered /\ base' = base /\ shown' = shown /\ entries' = entries
    BY <1>2 DEF Rendered, database
  <2>3. WakeInv'
    BY <1>3, <2>1, <2>2 DEF WakeInv
  <2> QED BY <1>4, <1>5, <2>3 DEF StreamInv
<1> QED BY <1>6, <1>7

\* An answer to the page's own stream lets hints through again.
LEMMA RespondKeeps ==
    ASSUME TypeOK, StreamInv, Respond
    PROVE  StreamInv'
<1>1. /\ request.stage = "read" /\ request' = [request EXCEPT !.stage = "answered"]
      /\ UNCHANGED <<database, listener, stream, wire, shown, cursor, base, identified, recovering, again>>
  BY DEF Respond
<1>2. /\ request'.stage = "answered" /\ request'.named = request.named
      /\ request'.entries = request.entries /\ request'.next = request.next
  BY <1>1 DEF TypeOK, Request
<1>3. \/ queued' = FALSE /\ Kick(pending, stream = "open" /\ check = "idle")
      \/ ~request.named /\ UNCHANGED <<queued, pending, check>>
  BY Zenon DEF Respond
<1>4. \/ /\ queued' = FALSE /\ stream = "open" /\ check = "idle" /\ pending # 0
         /\ check' = "lookup" /\ pending' = 0
      \/ /\ queued' = FALSE /\ ~(stream = "open" /\ check = "idle" /\ pending # 0)
         /\ pending' = pending /\ check' = check
      \/ ~request.named /\ UNCHANGED <<queued, pending, check>>
  BY <1>3 DEF Kick
<1>5. WireInv' /\ NotifiedInv'
  BY <1>1 DEF StreamInv, WireInv, NotifiedInv, Streaming, listener
<1>6. ClientInv'
  BY <1>1, <1>2, <1>4 DEF StreamInv, ClientInv, listener
<1>7. QueueInv'
  BY <1>1, <1>2, <1>4 DEF StreamInv, QueueInv, HintOnWire
<1>8. (Waking => Waking') /\ (Due => Due')
  BY <1>1, <1>2, <1>4 DEF Waking, Due
<1>9. WakeInv'
  BY <1>1, <1>2, <1>8 DEF StreamInv, WakeInv, Rendered, Streaming, Notified, database, listener
<1> QED BY <1>5, <1>6, <1>7, <1>9 DEF StreamInv

\* The page shows its answer, and fetches again if anything may be left.
LEMMA ReceiveKeeps ==
    ASSUME TypeOK, StreamInv, Receive
    PROVE  StreamInv'
<1>1. /\ request.stage = "answered" /\ shown' = shown \cup request.entries /\ again' = FALSE
      /\ UNCHANGED <<database, listener, client, base, identified>>
      /\ \/ /\ again \/ request.next # NoCursor
            /\ request' = Fetch(identified) /\ recovering' = recovering
         \/ /\ ~again /\ request.next = NoCursor
            /\ request' = NoRequest /\ recovering' = FALSE
  BY DEF Receive
<1>2. /\ Fetch(identified).stage = "sent" /\ Fetch(identified).named = identified
      /\ NoRequest.stage = "none"
  BY DEF Fetch, NoRequest
<1>3. WireInv' /\ NotifiedInv'
  BY <1>1 DEF StreamInv, WireInv, NotifiedInv, Streaming, listener, client
<1>4. ClientInv'
  BY <1>1, <1>2 DEF StreamInv, ClientInv, listener, client
<1>5. queued => HintOnWire \/ (identified /\ again)
  BY <1>1 DEF StreamInv, QueueInv
<1>6. QueueInv'
  <2>1. queued' = queued /\ HintOnWire' = HintOnWire /\ identified' = identified
    BY <1>1 DEF HintOnWire, client
  <2>2. again => request'.stage = "sent" /\ request'.named = identified
    BY <1>1, <1>2
  <2> QED BY <1>5, <2>1, <2>2 DEF QueueInv
<1>7. WakeInv'
  <2>1. CASE again \/ request.next # NoCursor
    <3>1. Due'
      BY <1>1, <1>2, <2>1 DEF Due
    <3> QED BY <3>1 DEF WakeInv
  <2>2. CASE ~again /\ request.next = NoCursor
    <3>1. Due => Due'
      BY <1>1, <2>2 DEF Due, client
    <3> QED BY <1>1, <3>1 DEF StreamInv, WakeInv, Rendered, Streaming, Waking, Notified, database,
                              listener, client
  <2> QED BY <2>1, <2>2
<1> QED BY <1>3, <1>4, <1>6, <1>7 DEF StreamInv

\* Streams that end.
LEMMA FaultsKeep ==
    ASSUME TypeOK, StreamInv, StreamBreaks \/ ListenFails \/ StreamRefused \/ FetchFails
    PROVE  StreamInv'
<1>1. Unnamed(request).stage = request.stage
  BY DEF Unnamed, TypeOK, Request
<1>2. (recovering <=> request.stage # "none") /\ (again => recovering)
  BY DEF StreamInv, ClientInv
<1>3. CASE StreamBreaks
  <2>1. NotifiedInv'
    BY <1>3 DEF StreamBreaks, StreamInv, NotifiedInv, listener
  <2>2. /\ stream' = "connecting" /\ check' = "idle" /\ queued' = FALSE /\ wire' = <<>>
        /\ request' = Unnamed(request) /\ UNCHANGED <<recovering, again>>
    BY <1>3 DEF StreamBreaks, Drop
  <2> QED BY <1>1, <1>2, <2>1, <2>2, DropKeeps
<1>4. CASE ListenFails
  <2>1. /\ listening' = FALSE /\ notified' = <<>>
        /\ UNCHANGED <<database, shown, cursor, base, recovering, again>>
    BY <1>4 DEF ListenFails
  <2>2. NotifiedInv'
    BY <2>1 DEF NotifiedInv
  <2>3. CASE stream \in Subscribed
    <3>1. /\ stream' = "connecting" /\ check' = "idle" /\ queued' = FALSE /\ wire' = <<>>
          /\ request' = Unnamed(request)
      BY <1>4, <2>3 DEF ListenFails, Drop
    <3> QED BY <1>1, <1>2, <2>1, <2>2, <3>1, DropKeeps
  <2>4. CASE stream \notin Subscribed
    <3>1. UNCHANGED <<client, identified, request>>
      BY <1>4, <2>4 DEF ListenFails
    <3>2. ~Streaming /\ ~Streaming'
      BY <2>4, <3>1 DEF Streaming, Subscribed, client
    <3>3. ClientInv'
      BY <2>1, <2>4, <3>1 DEF StreamInv, ClientInv, client
    <3>4. WireInv' /\ QueueInv'
      BY <2>1, <3>1, <3>2 DEF StreamInv, WireInv, QueueInv, HintOnWire, client
    <3> QED BY <2>2, <3>2, <3>3, <3>4 DEF StreamInv, WakeInv
  <2> QED BY <2>3, <2>4
<1>5. CASE StreamRefused
  <2>1. /\ stream = "connecting" /\ stream' = "failed"
        /\ UNCHANGED <<database, listener, pending, check, queued, wire, page>>
    BY <1>5 DEF StreamRefused
  <2>2. ~Streaming /\ ~Streaming' /\ stream' \notin Subscribed
    BY <2>1 DEF Streaming, Subscribed
  <2>3. WireInv' /\ ClientInv'
    BY <2>1, <2>2 DEF StreamInv, WireInv, ClientInv, page
  <2>4. QueueInv' /\ NotifiedInv'
    BY <2>1 DEF StreamInv, QueueInv, NotifiedInv, HintOnWire, listener, page
  <2> QED BY <2>2, <2>3, <2>4 DEF StreamInv, WakeInv
<1>6. CASE FetchFails
  <2>1. NotifiedInv'
    BY <1>6 DEF FetchFails, StreamInv, NotifiedInv, listener
  <2>2. /\ stream' = "connecting" /\ check' = "idle" /\ queued' = FALSE /\ wire' = <<>>
        /\ again' = FALSE /\ recovering' = again
        /\ request' = IF again THEN Fetch(FALSE) ELSE NoRequest
    BY <1>6 DEF FetchFails, Drop
  <2>3. again \in BOOLEAN
    BY DEF TypeOK
  <2> QED BY <2>1, <2>2, <2>3, FetchStage, DropKeeps
<1> QED BY <1>3, <1>4, <1>5, <1>6

LEMMA StreamStep ==
    ASSUME TypeOK, Numbered, CursorInv, StreamInv, [Next]_vars
    PROVE  StreamInv'
<1>1. CASE BeginWrite \/ RollbackWrite \/ UNCHANGED vars
  BY <1>1, StillKeeps DEF BeginWrite, Insert, RollbackWrite, vars, database
<1> QED BY <1>1, CommitWakes, LoadKeeps, NotifyKeeps, SendHintKeeps, HintWrittenKeeps, SubscribeKeeps,
           WriteReadyKeeps, ReadySentKeeps, OnReadyKeeps, OnHintKeeps, ReadKeeps, RespondKeeps,
           ReceiveKeeps, FaultsKeep DEF Next, SystemStep, Environment

-----------------------------------------------------------------------------
(* The theorems.                                                            *)

LEMMA InitialFeed == Init => FeedInv
<1> SUFFICES ASSUME Init PROVE FeedInv
  OBVIOUS
<1>1. TypeOK
  BY InitialTypes
<1>2. Numbered /\ CursorInv /\ AnswerInv
  BY DEF Init, Numbered, CursorInv, AnswerInv, Rendered
<1>3. NoRequest.stage = "none"
  BY DEF NoRequest
<1>4. WireInv /\ ClientInv
  BY <1>3 DEF Init, WireInv, ClientInv, Streaming, Subscribed
<1>5. QueueInv /\ WakeInv /\ NotifiedInv
  BY DEF Init, QueueInv, WakeInv, NotifiedInv, Rendered
<1> QED BY <1>1, <1>2, <1>4, <1>5 DEF FeedInv

LEMMA FeedStep == FeedInv /\ [Next]_vars => FeedInv'
<1> SUFFICES ASSUME FeedInv, [Next]_vars PROVE FeedInv'
  OBVIOUS
<1>1. TypeOK' /\ Numbered'
  BY TypesStep, NumbersStep DEF FeedInv
<1>2. CursorInv' /\ AnswerInv'
  BY CursorStep DEF FeedInv
<1>3. StreamInv'
  BY StreamStep DEF FeedInv, StreamInv
<1> QED BY <1>1, <1>2, <1>3 DEF FeedInv, StreamInv

\* The inductive invariant of the feed.
THEOREM FeedInvKept == Spec => []FeedInv
BY InitialFeed, FeedStep, PTL DEF Spec

\* Every state of the feed is well typed, whatever faults happen.
THEOREM FeedTypesKept == Spec => []TypeOK
<1>1. FeedInv => TypeOK
  BY DEF FeedInv
<1> QED BY <1>1, FeedInvKept, PTL

\* A page that was rendered with entries never moves its live cursor past an
\* entry it does not show, whatever order writers commit and faults happen in.
THEOREM NothingIsPassed == Spec => [](Rendered => NothingPassed)
<1>1. ASSUME FeedInv, Rendered PROVE NothingPassed
  <2>1. IsCommitted(cursor.at) /\ \A e \in entries : base < e.seq /\ e.seq <= cursor.at => e \in shown
    BY <1>1 DEF FeedInv, CursorInv
  <2>2. \A w \in writing : cursor.at < w.seq
    BY <1>1, <2>1 DEF FeedInv, Numbered, IsCommitted
  <2>3. cursor.at \in Nat /\ \A w \in writing : w.seq \in Nat
    BY <1>1 DEF FeedInv, TypeOK, Cursor, Entry
  <2> QED BY <2>1, <2>2, <2>3 DEF NothingPassed
<1> QED BY <1>1, FeedInvKept, PTL

\* An open stream on which nothing is under way belongs to a complete page: no
\* notification is lost between the database, the web process and the page.
THEOREM NoWakeupIsLost == Spec => [](Rendered => NoLostWakeup)
<1>1. ASSUME FeedInv, Rendered, stream = "open", notified = <<>>, check = "idle", wire = <<>>, ~recovering,
             NEW e \in entries, e.seq > base
      PROVE  e \in shown
  <2>1. request.stage = "none" /\ ~again
    BY <1>1 DEF FeedInv, ClientInv
  <2>2. ~Due /\ ~Notified(e.seq)
    BY <1>1, <2>1 DEF Due, Notified
  <2>3. ~HintOnWire
    BY <1>1 DEF HintOnWire
  <2>4. ~queued
    BY <1>1, <2>1, <2>3 DEF FeedInv, QueueInv
  <2>5. ~Waking
    BY <1>1, <2>4 DEF FeedInv, ClientInv, Waking
  <2>6. base < e.seq
    BY <1>1 DEF FeedInv, TypeOK, Entry
  <2> QED BY <1>1, <2>1, <2>2, <2>5, <2>6 DEF FeedInv, WakeInv, Streaming
<1>2. FeedInv /\ Rendered => NoLostWakeup
  BY <1>1 DEF NoLostWakeup
<1> QED BY <1>2, FeedInvKept, PTL

-----------------------------------------------------------------------------
(* Without pages of an empty Timeline, every page is rendered with entries.  *)

\* Whoever has no page yet has no cursor; a page has entries to go on from.
StartInv ==
    /\ stream = "none" => cursor.kind = "none"
    /\ stream # "none" => Rendered

LEMMA StreamStays ==
    ASSUME ClientInv, WireInv, [Next]_vars, ~LoadPage
    PROVE  (stream = "none") <=> (stream' = "none")
<1>1. CASE BeginWrite \/ CommitWrite \/ RollbackWrite
  BY <1>1 DEF BeginWrite, Insert, CommitWrite, RollbackWrite, client
<1>2. CASE Notify \/ SendHint \/ HintWritten \/ Respond
  BY <1>2 DEF Notify, SendHint, HintWritten, Respond
<1>3. CASE Subscribe \/ WriteReady \/ ReadySent \/ StreamRefused
  BY <1>3 DEF Subscribe, WriteReady, ReadySent, StreamRefused
<1>4. CASE OnReady \/ OnHint \/ ReadPage \/ Receive
  BY <1>4 DEF OnReady, OnHint, ReadPage, Receive, client
<1>5. CASE StreamBreaks
  BY <1>5 DEF StreamBreaks, Drop, Subscribed
<1>6. CASE ListenFails
  BY <1>6 DEF ListenFails, Drop, Subscribed, client
<1>7. CASE FetchFails
  BY <1>7 DEF FetchFails, Drop, ClientInv
<1>8. CASE UNCHANGED vars
  BY <1>8 DEF vars, client
<1> QED BY <1>1, <1>2, <1>3, <1>4, <1>5, <1>6, <1>7, <1>8 DEF Next, SystemStep, Environment

\* The first page of a Timeline with entries is not empty.
LEMMA FirstPageHasEntries ==
    ASSUME entries # {}, NEW S \in SUBSET entries, FirstOf(NoCursor, S)
    PROVE  S # {}
<1>1. Matches(NoCursor) = entries
  BY DEF Matches, NoCursor
<1>2. S = entries \/ Cardinality(S) = Limit
  BY <1>1 DEF FirstOf
<1> QED BY <1>2, FeedAssumption, FS_EmptySet

LEMMA StartStep ==
    ASSUME "emptyPage" \notin Faults, FeedInv, StartInv, [Next]_vars
    PROVE  StartInv'
<1>1. CASE LoadPage
  <2>1. PICK S \in SUBSET entries, resume \in Cursors :
            FirstOf(NoCursor, S) /\ ResumeCursor(S, resume) /\ base' = resume.at
    BY <1>1 DEF LoadPage
  <2>2. S # {}
    BY <1>1, <2>1, FirstPageHasEntries DEF LoadPage
  <2>3. PICK m \in entries : resume = Live(m.seq)
    BY <2>1, <2>2 DEF ResumeCursor
  <2>4. base' # 0 /\ stream' = "connecting"
    BY <1>1, <2>1, <2>3 DEF LoadPage, Live, FeedInv, TypeOK, Entry, Numbered
  <2> QED BY <2>4 DEF StartInv, Rendered
<1>2. CASE ~LoadPage
  <2>1. (stream = "none") <=> (stream' = "none")
    BY <1>2, StreamStays DEF FeedInv
  <2>2. base' = base
    BY <1>2, QuietSteps DEF FeedInv, QuietPage, CommitWrite, page, ReadPage, Receive
  <2>3. stream = "none" => cursor' = cursor
    BY <1>2, QuietSteps DEF FeedInv, QuietPage, CommitWrite, page, ReadPage, Receive, ClientInv
  <2> QED BY <2>1, <2>2, <2>3 DEF StartInv, Rendered
<1> QED BY <1>1, <1>2

\* Without pages of an empty Timeline the live cursor of no page passes an
\* entry the page does not show.
THEOREM NothingPassedKept == ASSUME "emptyPage" \notin Faults PROVE Spec => []NothingPassed
<1>1. Init => StartInv
  BY DEF Init, StartInv, NoCursor
<1>2. FeedInv /\ StartInv /\ [Next]_vars => StartInv'
  BY StartStep
<1>3. Spec => []StartInv
  BY <1>1, <1>2, FeedInvKept, PTL DEF Spec
<1>4. StartInv /\ (Rendered => NothingPassed) => NothingPassed
  BY DEF StartInv, NothingPassed
<1> QED BY <1>3, <1>4, NothingIsPassed, PTL

\* Without pages of an empty Timeline, no wake-up of a page is lost.
THEOREM NoLostWakeupKept == ASSUME "emptyPage" \notin Faults PROVE Spec => []NoLostWakeup
<1>1. Init => StartInv
  BY DEF Init, StartInv, NoCursor
<1>2. FeedInv /\ StartInv /\ [Next]_vars => StartInv'
  BY StartStep
<1>3. Spec => []StartInv
  BY <1>1, <1>2, FeedInvKept, PTL DEF Spec
<1>4. StartInv /\ (Rendered => NoLostWakeup) => NoLostWakeup
  BY DEF StartInv, NoLostWakeup
<1> QED BY <1>3, <1>4, NoWakeupIsLost, PTL
=============================================================================
