------------------------ MODULE KubernetesAdapter_proofs ------------------------
(***************************************************************************)
(* Proofs about KubernetesAdapter, for any collections, objects, numbers of  *)
(* changes and size of the buffer.  The argument: a list of one collection   *)
(* is answered by one request, so that it is a snapshot; what is buffered    *)
(* follows what was yielded change by change; and as long as the watch has   *)
(* neither failed nor been aborted, the buffer ends where the wire does.     *)
(***************************************************************************)
EXTENDS KubernetesAdapter, TLAPS

Before == {"idle", "listing", "listed"}
Active == {"opened", "busy", "waiting", "woken"}

\* The list: what it has gathered, and what it has left alone.
ListInv ==
    /\ caller = "idle" => scope = <<>> /\ listed = 0
    /\ caller # "idle" => scope # <<>>
    /\ caller = "listing" => listed < Len(scope)
    /\ caller \in {"idle", "listing"} /\ listed = 0 => items = {} /\ top = 0
    /\ top <= Len(history)
    /\ ListIsSnapshot

Untouched == events = <<>> /\ ~complete /\ failure = "none" /\ given = <<>>

\* The request of a watch, by where its caller is.
RequestInv ==
    /\ caller \in Before => request = "none" /\ ~hooked /\ sent = 0 /\ Untouched
    /\ caller = "opening" => request = "opening" /\ ~aborted /\ sent = ListedVersion /\ Untouched
    /\ caller \in Active => request \in {"open", "ending", "closed"}
    /\ request = "open" => ~aborted
    /\ failure # "none" => complete
    /\ ReleasedOnceOver

\* The last change that was buffered or yielded.
Latest == IF events = <<>> THEN Taken ELSE events[Len(events)]

\* The buffer continues what was yielded, change by change.
Consecutive ==
    /\ Taken <= sent
    /\ \A k \in 1..Len(events) : events[k] <= sent
    /\ events # <<>> => Stream!NextOf(Taken, events[1])
    /\ \A k \in 1..Len(events) : k + 1 <= Len(events) => Stream!NextOf(events[k], events[k + 1])

\* It holds all that was sent unless the watch has failed or been aborted.
Whole ==
    caller \in Active /\ ~aborted /\ failure = "none" =>
        sent = Latest /\ (complete => request # "open")

BufferInv == request # "none" => Consecutive /\ Whole

IInv == TypeOK /\ ListInv /\ RequestInv /\ BufferInv

-----------------------------------------------------------------------------
(* What histories and steps have in common.                                  *)

\* The history only grows.
LEMMA HistoryGrows ==
    ASSUME AdapterAssumption, TypeOK, [Next]_vars
    PROVE  /\ history' \in Seq(Change) /\ Len(history) \in Nat /\ Len(history') \in Nat
           /\ Len(history) <= Len(history')
           /\ \A i \in 1..Len(history) : history'[i] = history[i]
           /\ Revisions \subseteq Revisions'
<1>1. history' = history \/ \E h \in Change : history' = Append(history, h)
  BY DEF Next, vars, List, StartList, ListCollection, ListFails, OpenWatch, Answer, Accepted, Refused,
         CannotRequest, Settle, AbortSettles, LateAnswer, Serve, Receive, ReceiveMalformed, Disconnected,
         Pull, Yield, Throw, Return, Wait, Abort, Leave, ClusterChange
<1>2. history \in Seq(Change)
  BY DEF TypeOK
<1>3. /\ history' \in Seq(Change) /\ Len(history) \in Nat /\ Len(history') \in Nat
      /\ Len(history) <= Len(history')
      /\ \A i \in 1..Len(history) : history'[i] = history[i]
  BY <1>1, <1>2
<1> QED BY <1>3 DEF Revisions

\* What the parts of a type-correct state are.
LEMMA Typed ==
    ASSUME TypeOK
    PROVE  /\ Len(history) \in Nat /\ Len(events) \in Nat /\ Len(given) \in Nat
           /\ \A k \in 1..Len(events) : events[k] \in Revisions /\ events[k] \in Nat
           /\ \A k \in 1..Len(given) : given[k] \in Revisions /\ given[k] \in Nat
           /\ events # <<>> => 1 \in 1..Len(events) /\ Len(events) \in 1..Len(events)
           /\ given # <<>> => Len(given) \in 1..Len(given)
           /\ ListedVersion \in Nat /\ Taken \in Nat
<1>1. history \in Seq(Change) /\ events \in Seq(Revisions) /\ given \in Seq(Revisions) /\ top \in Nat
  BY DEF TypeOK
<1>2. /\ Len(history) \in Nat /\ Len(events) \in Nat /\ Len(given) \in Nat
      /\ \A k \in 1..Len(events) : events[k] \in Revisions
      /\ \A k \in 1..Len(given) : given[k] \in Revisions
      /\ events # <<>> => 1 \in 1..Len(events) /\ Len(events) \in 1..Len(events)
      /\ given # <<>> => Len(given) \in 1..Len(given)
  BY <1>1
<1>3. \A i \in Revisions : i \in Nat
  BY <1>2 DEF Revisions
<1>4. ListedVersion \in Nat
  BY <1>1 DEF ListedVersion
<1>5. Taken \in Nat
  BY <1>2, <1>3, <1>4 DEF Taken, Last
<1> QED BY <1>2, <1>3, <1>4, <1>5

\* Only the caller that pulls has an open request.
LEMMA OpenRequest ==
    ASSUME TypeOK, RequestInv, request = "open"
    PROVE  caller \in Active /\ ~aborted
BY DEF TypeOK, RequestInv, ReleasedOnceOver, Before, Active, Over

-----------------------------------------------------------------------------
(* Types.                                                                    *)

LEMMA TypeInit == ASSUME AdapterAssumption, Init PROVE TypeOK
<1>1. PICK h \in Change : history = <<h>>
  BY DEF Init
<1>2. history \in Seq(Change) /\ Len(history) = 1
  BY <1>1
<1>3. events \in Seq(Revisions) /\ given \in Seq(Revisions) /\ Len(events) <= BufferLimit
  BY DEF Init, AdapterAssumption
<1>4. scope \in Requested \cup {<<>>} /\ listed \in 0..Len(scope)
  BY DEF Init
<1> QED BY <1>2, <1>3, <1>4 DEF Init, TypeOK, Over

LEMMA TypeStep ==
    ASSUME AdapterAssumption, TypeOK, ListInv, [Next]_vars
    PROVE  TypeOK'
<1>1. history' \in Seq(Change) /\ Revisions \subseteq Revisions' /\ Len(history') \in Nat
  BY HistoryGrows
<1>2. /\ items \in SUBSET Revisions' /\ events \in Seq(Revisions') /\ given \in Seq(Revisions')
      /\ Len(events) \in Nat /\ sent \in Nat /\ top \in Nat /\ BufferLimit \in Nat
  BY <1>1 DEF TypeOK, AdapterAssumption
<1>3. CASE UNCHANGED vars
  BY <1>2, <1>3 DEF TypeOK, vars, list, buffer, watch, Revisions
<1>4. CASE ClusterChange
  BY <1>1, <1>2, <1>4 DEF TypeOK, ClusterChange, list, buffer, watch
<1>5. CASE StartList
  BY <1>1, <1>2, <1>5 DEF TypeOK, StartList, ListInv, buffer, watch, AdapterAssumption, Revisions
<1>6. CASE ListCollection
  <2>1. Snapshot(scope[listed + 1], Len(history)) \subseteq Revisions
    BY DEF Snapshot, Revisions
  <2>2. listed + 1 \in 0..Len(scope)
    BY <1>6 DEF TypeOK, ListCollection, ListInv, AdapterAssumption
  <2> QED BY <1>1, <1>2, <1>6, <2>1, <2>2, Typed
          DEF TypeOK, ListCollection, buffer, watch, Revisions
<1>7. CASE ListFails \/ OpenWatch \/ Accepted \/ Refused \/ CannotRequest \/ LateAnswer
  BY <1>1, <1>2, <1>7, Typed DEF TypeOK, ListFails, OpenWatch, Accepted, Refused, CannotRequest, LateAnswer,
     list, buffer, watch, Revisions, Over
<1>8. CASE Receive
  <2>1. PICK i \in Revisions : sent' = i /\ Push(i)
    BY <1>8 DEF Receive
  <2>2. i \in Revisions' /\ i \in Nat
    BY <1>1, <2>1, Typed DEF Revisions
  <2>3. events' \in Seq(Revisions') /\ Len(events') <= BufferLimit
    <3>1. events' = events \/ (Len(events) < BufferLimit /\ events' = Append(events, i))
      BY <1>2, <2>1 DEF Push, Finish
    <3>2. Append(events, i) \in Seq(Revisions') /\ Len(Append(events, i)) = Len(events) + 1
      BY <1>2, <2>2
    <3> QED BY <1>2, <3>1, <3>2 DEF TypeOK
  <2>4. /\ caller' \in {caller, "woken"} /\ request' \in {request, "ending"} /\ complete' \in BOOLEAN
        /\ failure' \in {failure, "overflow"}
    BY <2>1 DEF Push, Finish, TypeOK
  <2> QED BY <1>1, <1>2, <1>8, <2>1, <2>2, <2>3, <2>4 DEF TypeOK, Receive, list
<1>9. CASE ReceiveMalformed \/ Disconnected \/ AbortSettles
  <2>1. sent' \in Nat
    BY <1>2, <1>9, Typed DEF ReceiveMalformed, Disconnected, AbortSettles, Revisions
  <2>2. /\ caller' \in {caller, "woken"} /\ complete' = TRUE
        /\ failure' \in {failure, "none", "disconnected", "gone"}
    BY <1>9 DEF ReceiveMalformed, Disconnected, AbortSettles, Finish
  <2> QED BY <1>1, <1>2, <1>9, <2>1, <2>2 DEF TypeOK, ReceiveMalformed, Disconnected, AbortSettles, list
<1>10. CASE Yield
  <2>1. Tail(events) \in Seq(Revisions') /\ Append(given, Head(events)) \in Seq(Revisions')
        /\ Len(Tail(events)) <= BufferLimit
    BY <1>2, <1>10 DEF Yield, TypeOK
  <2> QED BY <1>1, <1>2, <1>10, <2>1 DEF TypeOK, Yield, list
<1>11. CASE Throw \/ Return \/ Wait \/ Leave \/ Abort
  BY <1>1, <1>2, <1>11 DEF TypeOK, Throw, Return, Wait, Leave, Abort, Finally, list, buffer, watch, Over
<1> QED BY <1>3, <1>4, <1>5, <1>6, <1>7, <1>8, <1>9, <1>10, <1>11
        DEF Next, List, Answer, Settle, Serve, Pull

-----------------------------------------------------------------------------
(* The list.                                                                 *)

LEMMA ListInit == ASSUME AdapterAssumption, Init PROVE ListInv
<1>1. Len(history) \in Nat
  BY TypeInit, Typed
<1> QED BY <1>1 DEF Init, ListInv, ListIsSnapshot

LEMMA ListStep ==
    ASSUME AdapterAssumption, TypeOK, ListInv, [Next]_vars
    PROVE  ListInv'
<1>1. Len(history) \in Nat /\ Len(history') \in Nat /\ Len(history) <= Len(history') /\ top \in Nat
  BY HistoryGrows DEF TypeOK
<1>2. CASE StartList
  BY <1>1, <1>2 DEF StartList, ListInv, ListIsSnapshot, AdapterAssumption
<1>3. CASE ListCollection
  <2>1. /\ scope \in Seq(Collections) /\ scope # <<>> /\ listed \in Nat /\ listed < Len(scope)
        /\ Len(scope) \in Nat /\ listed' = listed + 1 /\ scope' = scope /\ Len(scope') = Len(scope)
        /\ history' = history /\ Len(history') = Len(history)
    BY <1>3 DEF ListCollection, ListInv, TypeOK, AdapterAssumption
  <2>2. top' \in Nat /\ top' <= Len(history) /\ top <= top'
    BY <1>1, <1>3 DEF ListCollection, ListInv
  <2>3. CASE Len(scope) = 1
    <3>1. listed = 0 /\ top = 0 /\ items = {}
      BY <1>3, <2>1, <2>3 DEF ListCollection, ListInv
    <3>2. top' = Len(history) /\ items' = Snapshot(scope[1], Len(history))
      BY <1>1, <1>3, <3>1 DEF ListCollection
    <3>3. Snapshot(Watched, ListedVersion)' = Snapshot(scope[1], Len(history))
      BY <2>1, <2>3, <3>2 DEF Snapshot, Newest, Watched, ListedVersion
    <3> QED BY <1>1, <1>3, <2>1, <2>2, <3>2, <3>3 DEF ListCollection, ListInv, ListIsSnapshot
  <2>4. CASE Len(scope) # 1
    BY <1>1, <1>3, <2>1, <2>2, <2>4 DEF ListCollection, ListInv, ListIsSnapshot, ListedVersion
  <2> QED BY <2>3, <2>4
<1>4. ASSUME UNCHANGED list, caller' = caller \/ caller' \notin {"idle", "listing", "listed"},
             caller # "idle" \/ caller' = "idle"
      PROVE  ListInv'
  <2>1. ListedVersion' = ListedVersion /\ Watched' = Watched /\ items' = items
    BY <1>4 DEF list, ListedVersion, Watched
  <2>2. ListedVersion \in Nat /\ ListedVersion <= Len(history)
    BY <1>1 DEF ListedVersion, ListInv
  <2>3. Snapshot(Watched, ListedVersion)' = Snapshot(Watched, ListedVersion)
    <3>1. Snapshot(Watched, ListedVersion)' = {i \in 1..ListedVersion : Newest(Watched, i, ListedVersion)' /\ history'[i].live}
      BY <2>1 DEF Snapshot
    <3>2. \A i \in 1..ListedVersion : history'[i] = history[i]
      BY <1>1, <2>2, HistoryGrows
    <3> QED BY <2>1, <2>2, <3>2 DEF Snapshot, Newest
  <2>4. ListIsSnapshot'
    BY <1>4, <2>1, <2>3 DEF ListIsSnapshot, ListInv
  <2> QED BY <1>1, <1>4, <2>4 DEF ListInv, list
<1>5. CASE ListFails \/ OpenWatch \/ Accepted \/ Refused \/ CannotRequest \/ LateAnswer \/ UNCHANGED vars \/ ClusterChange
  BY <1>4, <1>5 DEF ListFails, OpenWatch, Accepted, Refused, CannotRequest, LateAnswer, vars, ClusterChange
<1>6. CASE Serve \/ AbortSettles
  BY <1>4, <1>6 DEF Serve, Receive, Push, ReceiveMalformed, Disconnected, AbortSettles, Finish
<1>7. CASE Pull \/ Leave \/ Abort
  BY <1>4, <1>7 DEF Pull, Pulling, Yield, Throw, Return, Wait, Leave, Abort, Over
<1> QED BY <1>2, <1>3, <1>5, <1>6, <1>7 DEF Next, List, Answer, Settle

-----------------------------------------------------------------------------
(* The request.                                                              *)

LEMMA RequestInit == ASSUME AdapterAssumption, Init PROVE RequestInv
BY DEF Init, RequestInv, ReleasedOnceOver, Untouched, Before, Active, Over

LEMMA RequestStep ==
    ASSUME AdapterAssumption, TypeOK, RequestInv, [Next]_vars
    PROVE  RequestInv'
<1> USE DEF RequestInv, ReleasedOnceOver, Untouched, Before, Active, Over
<1>1. CASE UNCHANGED vars \/ ClusterChange
  BY <1>1 DEF vars, ClusterChange, list, watch, buffer, ListedVersion
<1>2. CASE StartList \/ ListCollection \/ ListFails
  BY <1>2 DEF StartList, ListCollection, ListFails, watch, buffer
<1>3. CASE OpenWatch
  BY <1>3 DEF OpenWatch, list, ListedVersion
<1>4. CASE Accepted \/ Refused \/ CannotRequest \/ LateAnswer
  BY <1>4 DEF Accepted, Refused, CannotRequest, LateAnswer, list, buffer, ListedVersion, TypeOK
<1>5. CASE Serve
  BY <1>5, OpenRequest DEF Serve, Receive, Push, ReceiveMalformed, Disconnected, Finish
<1>6. CASE AbortSettles
  BY <1>6 DEF AbortSettles, Finish, TypeOK
<1>7. CASE Pull
  BY <1>7 DEF Pull, Pulling, Yield, Throw, Return, Wait, Finally, watch, buffer
<1>8. CASE Leave
  BY <1>8 DEF Leave, Finally
<1>9. CASE Abort
  BY <1>9 DEF Abort, list, buffer, ListedVersion, TypeOK
<1> QED BY <1>1, <1>2, <1>3, <1>4, <1>5, <1>6, <1>7, <1>8, <1>9 DEF Next, List, Answer, Settle

-----------------------------------------------------------------------------
(* The buffer.                                                               *)

\* What follows a change goes on following it while the history grows.
LEMMA FollowsKept ==
    ASSUME AdapterAssumption, TypeOK, [Next]_vars, UNCHANGED scope,
           NEW r \in Nat, NEW i \in Nat, Stream!NextOf(r, i)
    PROVE  Stream!NextOf(r, i)'
<1>1. /\ i \in (r + 1)..Len(history) /\ i \in (r + 1)..Len(history')
      /\ \A j \in (r + 1)..i : history'[j] = history[j]
  BY HistoryGrows DEF Stream!NextOf
<1> QED BY <1>1 DEF Stream!NextOf, Watched

LEMMA BufferInit == ASSUME AdapterAssumption, Init PROVE BufferInv
BY DEF Init, BufferInv

\* A step that neither fills nor empties the buffer.
LEMMA BufferLeft ==
    ASSUME AdapterAssumption, TypeOK, Consecutive, [Next]_vars,
           UNCHANGED <<list, events, given>>, sent' \in Nat, sent <= sent'
    PROVE  Consecutive' /\ Latest' = Latest
<1>1. Taken' = Taken /\ Latest' = Latest /\ UNCHANGED scope
  BY DEF Taken, Latest, ListedVersion, list
<1>2. \A r, i \in Nat : Stream!NextOf(r, i) => Stream!NextOf(r, i)'
  BY <1>1, FollowsKept
<1>3. Taken \in Nat /\ sent \in Nat /\ \A k \in 1..Len(events) : events[k] \in Nat
  BY Typed DEF TypeOK
<1>4. events # <<>> => Stream!NextOf(Taken, events[1])'
  BY <1>1, <1>2, <1>3, Typed DEF Consecutive
<1>5. \A k \in 1..Len(events) : k + 1 <= Len(events) => Stream!NextOf(events[k], events[k + 1])'
  <2> SUFFICES ASSUME NEW k \in 1..Len(events), k + 1 <= Len(events)
               PROVE  Stream!NextOf(events[k], events[k + 1])'
    OBVIOUS
  <2>1. k + 1 \in 1..Len(events) /\ Stream!NextOf(events[k], events[k + 1])
    BY Typed DEF Consecutive
  <2> QED BY <1>2, <1>3, <2>1
<1> QED BY <1>1, <1>3, <1>4, <1>5 DEF Consecutive

\* The change that the API server sends next follows the one before, r.
LEMMA SentFollows ==
    ASSUME AdapterAssumption, TypeOK, ListInv, RequestInv, [Next]_vars, request = "open",
           UNCHANGED <<history, scope>>, NEW i \in Revisions, NextChange(i), NEW r \in Nat, r = sent
    PROVE  Stream!NextOf(r, i)' /\ r < i /\ i \in Nat
<1>1. scope # <<>>
  BY OpenRequest DEF ListInv, Active
<1>2. Len(history) \in Nat
  BY Typed
<1>3. Stream!NextOf(r, i) /\ r < i /\ i \in Nat
  BY <1>1, <1>2 DEF NextChange, Stream!NextOf, Revisions, Watched
<1> QED BY <1>3, FollowsKept

\* Receive: the change is appended, or the watch has failed, or it fails now.
LEMMA BufferFilled ==
    ASSUME AdapterAssumption, TypeOK, ListInv, RequestInv, BufferInv, Receive, [Next]_vars
    PROVE  BufferInv'
<1>1. PICK i \in Revisions : NextChange(i) /\ sent' = i /\ Push(i)
  BY DEF Receive
<1>2. PICK r \in Nat : r = sent
  BY DEF TypeOK
<1>3. /\ request = "open" /\ UNCHANGED <<history, list, given, aborted>> /\ UNCHANGED scope
      /\ caller \in Active /\ ~aborted /\ Consecutive /\ Whole
  BY OpenRequest DEF Receive, list, BufferInv
<1>4. Stream!NextOf(r, i)' /\ r < i /\ i \in Nat
  BY <1>1, <1>2, <1>3, SentFollows
<1>5. CASE complete
  <2>1. failure # "none" /\ UNCHANGED <<events, failure, request>>
    BY <1>1, <1>3, <1>5 DEF Whole, Push
  <2>2. Consecutive'
    BY <1>1, <1>2, <1>3, <1>4, <2>1, BufferLeft
  <2> QED BY <2>1, <2>2 DEF BufferInv, Whole
<1>6. CASE ~complete /\ Len(events) >= BufferLimit
  <2>1. UNCHANGED events /\ failure' = "overflow"
    BY <1>1, <1>3, <1>6 DEF Push, Finish
  <2>2. Consecutive'
    BY <1>1, <1>2, <1>3, <1>4, <2>1, BufferLeft
  <2> QED BY <2>1, <2>2 DEF BufferInv, Whole
<1>7. CASE ~complete /\ ~(Len(events) >= BufferLimit)
  <2>1. events' = Append(events, i) /\ complete' = FALSE /\ request' = request
    BY <1>1, <1>3, <1>7 DEF Push
  <2>2. Latest = r /\ Taken' = Taken /\ Taken \in Nat
    BY <1>2, <1>3, <1>7, Typed DEF Whole, RequestInv, Taken, ListedVersion, list
  <2>3. /\ events \in Seq(Revisions) /\ Len(events) \in Nat /\ Len(events') = Len(events) + 1
        /\ events' # <<>> /\ events'[Len(events) + 1] = i
        /\ \A k \in 1..Len(events) : events'[k] = events[k] /\ events[k] \in Nat
    BY <2>1, Typed DEF TypeOK
  <2>4. \A q, j \in Nat : Stream!NextOf(q, j) => Stream!NextOf(q, j)'
    BY <1>3, FollowsKept
  <2>5. Latest' = i
    BY <2>3 DEF Latest
  <2>6. Taken' <= sent' /\ \A k \in 1..Len(events') : events'[k] <= sent'
    BY <1>1, <1>2, <1>3, <1>4, <2>2, <2>3 DEF Consecutive
  <2>7. Stream!NextOf(Taken, events[1])'
    <3>1. PICK t \in Nat : t = Taken
      BY <2>2
    <3>2. CASE events = <<>>
      <4>1. t = r /\ events'[1] = i
        BY <2>2, <2>3, <3>1, <3>2 DEF Latest
      <4> QED BY <1>4, <2>2, <3>1, <4>1 DEF Stream!NextOf
    <3>3. CASE events # <<>>
      <4>1. PICK e \in Nat : e = events[1] /\ e = events'[1]
        BY <2>3, <3>3
      <4>2. Stream!NextOf(t, e)
        BY <1>3, <3>1, <3>3, <4>1 DEF Consecutive
      <4>3. Stream!NextOf(t, e)'
        BY <2>4, <4>2
      <4> QED BY <2>2, <3>1, <4>1, <4>3 DEF Stream!NextOf
    <3> QED BY <3>2, <3>3
  <2>8. ASSUME NEW k \in 1..Len(events'), k + 1 <= Len(events')
        PROVE  Stream!NextOf(events[k], events[k + 1])'
    <3>1. CASE k + 1 <= Len(events)
      <4>1. k \in 1..Len(events) /\ k + 1 \in 1..Len(events)
        BY <2>3, <3>1
      <4>2. PICK a \in Nat, b \in Nat : /\ a = events[k] /\ a = events'[k]
                                        /\ b = events[k + 1] /\ b = events'[k + 1]
        BY <2>3, <4>1
      <4>3. Stream!NextOf(a, b)
        BY <1>3, <3>1, <4>1, <4>2 DEF Consecutive
      <4>4. Stream!NextOf(a, b)'
        BY <2>4, <4>3
      <4> QED BY <4>2, <4>4 DEF Stream!NextOf
    <3>2. CASE k = Len(events)
      <4>1. events'[k] = r /\ events'[k + 1] = i
        BY <2>2, <2>3, <3>2 DEF Latest
      <4> QED BY <1>4, <4>1 DEF Stream!NextOf
    <3> QED BY <2>3, <2>8, <3>1, <3>2
  <2>9. Consecutive'
    BY <2>6, <2>7, <2>8 DEF Consecutive
  <2> QED BY <1>1, <2>1, <2>5, <2>9 DEF BufferInv, Whole
<1> QED BY <1>5, <1>6, <1>7

\* Yield: what is yielded is the next of the buffer, and the rest moves up.
LEMMA BufferEmptied ==
    ASSUME AdapterAssumption, TypeOK, RequestInv, BufferInv, Yield, [Next]_vars
    PROVE  BufferInv'
<1>1. /\ caller \in Active /\ request # "none" /\ events # <<>> /\ Consecutive /\ Whole
      /\ UNCHANGED <<history, list, aborted, request, sent, complete, failure>> /\ UNCHANGED scope
  BY DEF Yield, Pulling, Active, RequestInv, BufferInv, list
<1>2. /\ events \in Seq(Revisions) /\ Len(events) \in Nat /\ Len(events) >= 1
      /\ events' = Tail(events) /\ given' = Append(given, events[1]) /\ Len(given) \in Nat /\ sent \in Nat
  BY <1>1, Typed DEF Yield, TypeOK
<1>3. /\ Len(events') = Len(events) - 1
      /\ \A k \in 1..Len(events') : events'[k] = events[k + 1] /\ k + 1 \in 1..Len(events)
      /\ events' = <<>> <=> Len(events) = 1
      /\ \A k \in 1..Len(events) : events[k] \in Nat
  <2>1. Len(events') = Len(events) - 1 /\ \A k \in 1..Len(events') : events'[k] = events[k + 1]
    BY <1>2
  <2>2. events' \in Seq(Revisions)
    BY <1>2
  <2>3. events' = <<>> <=> Len(events') = 0
    BY <2>2
  <2> QED BY <1>2, <2>1, <2>3, Typed
<1>4. Taken' = events[1] /\ events[1] \in Nat
  <2>1. given \in Seq(Revisions) /\ events[1] \in Revisions
    BY <1>2 DEF TypeOK
  <2>2. given' # <<>> /\ given'[Len(given')] = events[1]
    BY <1>2, <2>1
  <2> QED BY <1>2, <1>3, <2>2 DEF Taken, Last
<1>5. \A q, j \in Nat : Stream!NextOf(q, j) => Stream!NextOf(q, j)'
  BY <1>1, FollowsKept
<1>6. Latest' = Latest
  BY <1>1, <1>2, <1>3, <1>4 DEF Latest
<1>7. Taken' <= sent' /\ \A k \in 1..Len(events') : events'[k] <= sent'
  BY <1>1, <1>2, <1>3, <1>4 DEF Consecutive
<1>8. ASSUME NEW k \in 1..Len(events), k + 1 <= Len(events)
      PROVE  \E a, b \in Nat : a = events[k] /\ b = events[k + 1] /\ Stream!NextOf(a, b)'
  <2>1. PICK a \in Nat, b \in Nat : a = events[k] /\ b = events[k + 1]
    BY <1>2, <1>3, <1>8
  <2>2. Stream!NextOf(a, b)
    BY <1>1, <1>8, <2>1 DEF Consecutive
  <2> QED BY <1>5, <2>1, <2>2
<1>9. events' # <<>> => Stream!NextOf(Taken, events[1])'
  <2> SUFFICES ASSUME events' # <<>>
               PROVE  Stream!NextOf(Taken, events[1])'
    OBVIOUS
  <2>1. 1 \in 1..Len(events) /\ 1 + 1 <= Len(events) /\ 1 \in 1..Len(events')
    BY <1>2, <1>3
  <2>2. PICK a \in Nat, b \in Nat : a = events[1] /\ b = events[1 + 1] /\ Stream!NextOf(a, b)'
    BY <1>8, <2>1
  <2>3. Taken' = a /\ events'[1] = b
    BY <1>3, <1>4, <2>1, <2>2
  <2> QED BY <2>2, <2>3 DEF Stream!NextOf
<1>10. ASSUME NEW k \in 1..Len(events'), k + 1 <= Len(events')
       PROVE  Stream!NextOf(events[k], events[k + 1])'
  <2>1. k + 1 \in 1..Len(events) /\ (k + 1) + 1 <= Len(events) /\ k + 1 \in 1..Len(events')
    BY <1>2, <1>3, <1>10
  <2>2. PICK a \in Nat, b \in Nat : a = events[k + 1] /\ b = events[(k + 1) + 1] /\ Stream!NextOf(a, b)'
    BY <1>8, <2>1
  <2>3. events'[k] = a /\ events'[k + 1] = b
    BY <1>3, <2>1, <2>2
  <2> QED BY <2>2, <2>3 DEF Stream!NextOf
<1>11. Consecutive'
  BY <1>7, <1>9, <1>10 DEF Consecutive
<1> QED BY <1>1, <1>6, <1>11 DEF BufferInv, Whole

\* Each step.
LEMMA BufferStep ==
    ASSUME AdapterAssumption, TypeOK, ListInv, RequestInv, BufferInv, [Next]_vars
    PROVE  BufferInv'
<1> DEFINE Same == UNCHANGED <<list, sent, events, given>>
<1>1. sent \in Nat
  BY DEF TypeOK
<1>2. ASSUME Same, request # "none",
             Whole, Latest' = Latest =>
               (caller' \in Active /\ ~aborted' /\ failure' = "none" =>
                    sent = Latest /\ (complete' => request' # "open"))
      PROVE  BufferInv'
  BY <1>1, <1>2, BufferLeft DEF BufferInv, Whole
<1>3. CASE UNCHANGED vars \/ ClusterChange
  <2>1. Same /\ UNCHANGED <<caller, aborted, failure, complete, request>>
    BY <1>3 DEF vars, ClusterChange, list, watch, buffer
  <2> QED BY <1>2, <2>1 DEF BufferInv, Whole
<1>4. CASE List
  BY <1>4 DEF List, StartList, ListCollection, ListFails, RequestInv, Before, BufferInv, watch
<1>5. CASE OpenWatch
  BY <1>5 DEF OpenWatch, RequestInv, Before, Active, Untouched, BufferInv, Whole, Consecutive, Taken, ListedVersion, list, TypeOK
<1>6. CASE Answer \/ LateAnswer
  BY <1>2, <1>6 DEF Answer, Accepted, Refused, CannotRequest, LateAnswer, RequestInv, Untouched, BufferInv, Whole,
     Active, Latest, Taken, list, buffer
<1>7. CASE Receive
  BY <1>7, BufferFilled
<1>8. CASE ReceiveMalformed
  <2>1. PICK i \in Revisions : NextChange(i) /\ sent' = i
    BY <1>8 DEF ReceiveMalformed
  <2>2. sent' \in Nat /\ sent <= sent'
    BY <1>1, <2>1, Typed DEF NextChange, Revisions
  <2>3. /\ request = "open" /\ caller \in Active /\ ~aborted /\ Consecutive /\ Whole
        /\ UNCHANGED <<list, events, given>> /\ failure' = IF complete THEN failure ELSE "disconnected"
    BY <1>8, OpenRequest DEF ReceiveMalformed, Finish, BufferInv, list
  <2>4. failure' # "none"
    BY <2>3 DEF Whole
  <2>5. Consecutive'
    BY <2>2, <2>3, BufferLeft
  <2> QED BY <2>4, <2>5 DEF BufferInv, Whole
<1>9. CASE Disconnected \/ AbortSettles
  <2>1. /\ Same /\ request # "none" /\ request' = "closed" /\ UNCHANGED aborted
        /\ caller' \in Active => caller \in Active
        /\ failure' = "none" => failure = "none" \/ ~complete
    BY <1>9 DEF Disconnected, AbortSettles, Finish, Active
  <2>2. failure' = "none" => failure = "none"
    BY <2>1 DEF RequestInv
  <2> QED BY <1>2, <2>1, <2>2 DEF BufferInv, Whole
<1>10. CASE Yield
  BY <1>10, BufferEmptied
<1>11. CASE Throw \/ Return \/ Wait \/ Leave \/ Abort
  BY <1>2, <1>11 DEF Throw, Return, Wait, Leave, Abort, Finally, Pulling, BufferInv, Whole, Active, TypeOK, Over,
     RequestInv, list, watch, buffer
<1> QED BY <1>3, <1>4, <1>5, <1>6, <1>7, <1>8, <1>9, <1>10, <1>11 DEF Next, Settle, Serve, Pull

-----------------------------------------------------------------------------
(* The invariant.                                                            *)

LEMMA InvariantInit == ASSUME AdapterAssumption, Init PROVE IInv
BY TypeInit, ListInit, RequestInit, BufferInit DEF IInv

LEMMA InvariantStep == ASSUME AdapterAssumption, IInv, [Next]_vars PROVE IInv'
BY TypeStep, ListStep, RequestStep, BufferStep DEF IInv

\* The inductive invariant holds in every reachable state.
THEOREM Invariant == Spec => []IInv
<1>1. Init => IInv
  BY InvariantInit, AdapterAssumption
<1>2. IInv /\ [Next]_vars => IInv'
  BY InvariantStep, AdapterAssumption
<1> QED BY <1>1, <1>2, PTL DEF Spec

\* Every variable keeps its type, and the buffer its limit, however many
\* changes the API server sends (watchNamespace).
THEOREM TypesKept == Spec => []TypeOK
<1>1. IInv => TypeOK
  BY DEF IInv
<1> QED BY <1>1, Invariant, PTL

\* The resourceVersion a list exposes is one at which the cluster looked like
\* the list says, for any number of collections and objects (listResult).
THEOREM ListsAreSnapshots == Spec => []ListIsSnapshot
<1>1. IInv => ListIsSnapshot
  BY DEF IInv, ListInv
<1> QED BY <1>1, Invariant, PTL

\* A watch that is over has left the signal and does not leave its request open,
\* in whatever order the answer, the abort and the last events come.
THEOREM ReleasedAlways == Spec => []ReleasedOnceOver
<1>1. IInv => ReleasedOnceOver
  BY DEF IInv, RequestInv
<1> QED BY <1>1, Invariant, PTL

-----------------------------------------------------------------------------
(* The adapter implements the stream.                                        *)

\* The mapping: the collection, the last change handed over and the state.
Collection == IF scope = <<>> THEN "nothing" ELSE Watched
Handed == IF caller \in Before \/ request = "none" THEN 0 ELSE Taken
State == CASE caller \in Before -> "before"
           [] caller \in Over -> caller
           [] OTHER -> "open"

\* The steps of the stream, in terms of the mapping.
LEMMA StreamSteps ==
    /\ Stream!StreamInit <=> sent = 0 /\ Handed = 0 /\ aborted = FALSE /\ State = "before"
    /\ Stream!Open <=> /\ State = "before" /\ State' = "open" /\ UNCHANGED aborted
                       /\ \E v \in 0..Len(history) : sent' = v /\ Handed' = v
    /\ Stream!Send <=> State = "open" /\ Stream!NextOf(sent, sent') /\ UNCHANGED <<Handed, aborted, State>>
    /\ Stream!Take <=> /\ State = "open" /\ Handed < sent /\ Stream!NextOf(Handed, Handed')
                       /\ UNCHANGED <<sent, aborted, State>>
    /\ Stream!Abort <=> /\ aborted' = TRUE /\ UNCHANGED <<sent, Handed>>
                        /\ State' \in {State, IF State \in {"before", "open"} THEN "failed" ELSE State}
    /\ Stream!Close <=> /\ State \in {"before", "open"}
                        /\ \/ State' = "ended" /\ (Handed = sent \/ aborted)
                           \/ State' \in {"failed", "left"}
                        /\ UNCHANGED <<sent, Handed, aborted>>
    /\ UNCHANGED Stream!streamVars <=> UNCHANGED <<sent, Handed, aborted, State>>
BY DEF Stream!StreamInit, Stream!Open, Stream!Send, Stream!Take, Stream!Abort, Stream!Close,
       Stream!streamVars, Handed, State, Before

LEMMA StreamInitially == ASSUME Init PROVE Stream!StreamInit
<1>1. sent = 0 /\ aborted = FALSE /\ caller = "idle"
  BY DEF Init
<1>2. Handed = 0 /\ State = "before"
  BY <1>1 DEF Handed, State, Before, Over
<1> QED BY <1>1, <1>2, StreamSteps

\* Every step is one of the stream or leaves it as it is.
LEMMA StreamStep ==
    ASSUME AdapterAssumption, IInv, [Next]_vars
    PROVE  Stream!StreamNext \/ UNCHANGED Stream!streamVars
<1> USE DEF Before, Over
<1>1. TypeOK /\ ListInv /\ RequestInv /\ BufferInv
  BY DEF IInv
<1>2. ASSUME UNCHANGED <<list, given, sent, aborted>>, State' = State,
             request # "none" \/ caller \in Before, request' # "none" \/ caller' \in Before
      PROVE  UNCHANGED Stream!streamVars
  <2>1. UNCHANGED <<Taken, ListedVersion>>
    BY <1>2 DEF Taken, ListedVersion, list
  <2>2. caller \in Before <=> caller' \in Before
    BY <1>2 DEF State
  <2> QED BY <1>2, <2>1, <2>2, StreamSteps DEF Handed
<1>3. ASSUME UNCHANGED <<list, given, sent, aborted>>, request # "none", request' # "none",
             State = "open", State' \in {"failed", "left"} \/ (State' = "ended" /\ (Taken = sent \/ aborted))
      PROVE  Stream!Close
  <2>1. UNCHANGED Taken /\ caller \notin Before /\ caller' \notin Before
    BY <1>3 DEF Taken, ListedVersion, list, State
  <2> QED BY <1>3, <2>1, StreamSteps DEF Handed
<1>4. ASSUME request # "none", caller \in Active \cup {"opening"}
      PROVE  State = "open" /\ Handed = Taken
  BY <1>4 DEF State, Handed, Active
<1>5. CASE UNCHANGED vars \/ ClusterChange
  <2>1. UNCHANGED <<scope, listed, items, top, given, sent, aborted, caller, request>>
    BY <1>5 DEF vars, ClusterChange, list, watch, buffer
  <2>2. UNCHANGED <<Taken, State, Handed>>
    BY <2>1 DEF State, Handed, Taken, ListedVersion
  <2> QED BY <2>1, <2>2, StreamSteps
<1>6. CASE StartList \/ ListCollection
  BY <1>6, StreamSteps DEF StartList, ListCollection, State, Handed, watch, buffer
<1>7. CASE ListFails
  BY <1>1, <1>7, StreamSteps DEF ListFails, State, Handed, watch, buffer, RequestInv, Stream!StreamNext
<1>8. CASE OpenWatch /\ caller' = "failed"
  <2>1. /\ caller = "listed" /\ request = "none" /\ UNCHANGED <<request, sent, aborted>>
    BY <1>1, <1>8 DEF OpenWatch, RequestInv
  <2> QED BY <1>8, <2>1, StreamSteps DEF State, Handed, Stream!StreamNext
<1>9. CASE OpenWatch /\ caller' # "failed"
  <2>1. /\ caller = "listed" /\ caller' = "opening" /\ request' = "opening" /\ UNCHANGED aborted
        /\ sent' = ListedVersion /\ given' = <<>> /\ ListedVersion' = ListedVersion
    BY <1>1, <1>9 DEF OpenWatch, RequestInv, Untouched, list, ListedVersion
  <2>2. ListedVersion \in 0..Len(history)
    BY <1>1, Typed DEF ListedVersion, ListInv, TypeOK
  <2>3. Handed' = ListedVersion
    BY <2>1 DEF Handed, Taken
  <2> QED BY <2>1, <2>2, <2>3, StreamSteps DEF State, Stream!StreamNext
<1>10. CASE Accepted \/ Refused
  BY <1>1, <1>2, <1>10 DEF Accepted, Refused, State, RequestInv, buffer
<1>11. CASE CannotRequest
  BY <1>1, <1>3, <1>11 DEF CannotRequest, State, RequestInv, buffer, Stream!StreamNext
<1>12. CASE LateAnswer
  BY <1>1, <1>2, <1>12 DEF LateAnswer, State, RequestInv, buffer
<1>13. CASE AbortSettles \/ Disconnected \/ Wait
  BY <1>1, <1>2, <1>13 DEF AbortSettles, Disconnected, Wait, Pulling, Finish, State, RequestInv, Active,
                           watch, buffer
<1>14. CASE Receive \/ ReceiveMalformed
  <2>1. /\ request = "open" /\ caller \in Active /\ ~aborted /\ UNCHANGED <<history, list, given, aborted>>
        /\ UNCHANGED scope
    BY <1>1, <1>14, OpenRequest DEF Receive, ReceiveMalformed, list
  <2>2. PICK i \in Revisions : NextChange(i) /\ sent' = i
    BY <1>14 DEF Receive, ReceiveMalformed
  <2>3. Stream!NextOf(sent, i)
    BY <1>1, <2>1, <2>2, Typed DEF NextChange, Stream!NextOf, Revisions, Watched, ListInv, Active, TypeOK
  <2>4. caller' \in Active /\ request' # "none"
    BY <1>14, <2>1 DEF Receive, ReceiveMalformed, Push, Finish, Active
  <2>5. Taken' = Taken /\ Handed = Taken /\ Handed' = Taken /\ State = "open" /\ State' = "open"
    BY <1>4, <2>1, <2>4 DEF Taken, ListedVersion, list, Handed, State, Active
  <2> QED BY <2>1, <2>2, <2>3, <2>5, StreamSteps DEF Stream!StreamNext
<1>15. CASE Yield
  <2>1. /\ caller \in Active /\ caller' = "busy" /\ request # "none" /\ events # <<>> /\ Consecutive
        /\ UNCHANGED <<sent, aborted, request>> /\ given' = Append(given, events[1])
    BY <1>1, <1>15 DEF Yield, Pulling, Active, RequestInv, BufferInv
  <2>2. given \in Seq(Revisions) /\ events[1] \in Revisions /\ Taken \in Nat /\ sent \in Nat
        /\ events[1] \in Nat /\ Len(events) \in Nat /\ 1 \in 1..Len(events)
    BY <1>1, <2>1, Typed DEF TypeOK
  <2>3. given' # <<>> /\ Last(given') = events[1]
    BY <2>1, <2>2 DEF Last
  <2>4. Taken' = events[1]
    BY <2>3 DEF Taken
  <2>5. Stream!NextOf(Taken, Taken') /\ Taken < sent
    <3>1. Stream!NextOf(Taken, events[1]) /\ events[1] <= sent
      BY <2>1, <2>2 DEF Consecutive
    <3>2. Taken < events[1]
      BY <1>1, <2>2, <3>1, Typed DEF Stream!NextOf
    <3> QED BY <2>2, <2>4, <3>1, <3>2
  <2>6. State = "open" /\ Handed = Taken /\ State' = "open" /\ Handed' = Taken'
    BY <1>4, <2>1 DEF State, Handed, Active
  <2> QED BY <2>1, <2>5, <2>6, StreamSteps DEF Stream!StreamNext
<1>16. CASE Throw \/ Return \/ Leave
  <2>1. /\ caller \in Active /\ request # "none" /\ request' # "none" /\ UNCHANGED <<list, given, sent, aborted>>
        /\ caller' \in {"failed", "left"} \/ (Return /\ caller' = "ended")
    BY <1>1, <1>16 DEF Throw, Return, Leave, Finally, Pulling, Active, RequestInv
  <2>2. Return => Taken = sent \/ aborted
    BY <1>1, <2>1 DEF Return, BufferInv, Whole, Latest
  <2> QED BY <1>3, <1>4, <2>1, <2>2 DEF State, Stream!StreamNext
<1>17. CASE Abort
  <2>1. /\ aborted' = TRUE /\ UNCHANGED <<sent, list, given>> /\ caller \notin Over
        /\ \/ caller' = caller
           \/ caller = "opening" /\ caller' = "failed"
        /\ request # "none" \/ caller \in Before
        /\ request' = "none" <=> request = "none"
    BY <1>1, <1>17 DEF Abort, buffer, RequestInv, Active, TypeOK
  <2>2. UNCHANGED Taken
    BY <2>1 DEF Taken, ListedVersion, list
  <2>3. UNCHANGED Handed /\ State' \in {State, IF State \in {"before", "open"} THEN "failed" ELSE State}
    BY <2>1, <2>2 DEF Handed, State
  <2> QED BY <2>1, <2>3, StreamSteps DEF Stream!StreamNext
<1> QED BY <1>5, <1>6, <1>7, <1>8, <1>9, <1>10, <1>11, <1>12, <1>13, <1>14, <1>15, <1>16, <1>17
        DEF Next, List, Answer, Settle, Serve, Pull

\* The adapter hands over what the API server sends, in order and without a gap,
\* and ends quietly only when nothing is missing, for any size of its buffer and
\* any number of changes (watchNamespace).
THEOREM AdapterImplementsStream == Spec => ImplementsStream
<1>1. Init => Stream!StreamInit
  BY StreamInitially
<1>2. IInv /\ [Next]_vars => [Stream!StreamNext]_(Stream!streamVars)
  BY StreamStep, AdapterAssumption
<1> QED BY <1>1, <1>2, Invariant, PTL DEF Spec, ImplementsStream, Stream!StreamSpec

=============================================================================
