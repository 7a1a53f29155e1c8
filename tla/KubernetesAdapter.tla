--------------------------- MODULE KubernetesAdapter ---------------------------
(***************************************************************************)
(* ConfiguredKubernetesAdapter of packages/cluster: a list of one or more   *)
(* (namespace, resource kind) collections, and the watch that follows the   *)
(* list of a single one.                                                    *)
(*                                                                         *)
(* The watch joins three parties that run on their own: the HTTP client,    *)
(* which calls push and finish as the API server sends; the collector, which *)
(* pulls events out of an asynchronous generator and may leave it; and the  *)
(* abort signal.  Between them are a bounded buffer and one wake-up.        *)
(***************************************************************************)
EXTENDS Naturals, Sequences, FiniteSets, SequencesExt

CONSTANTS
    Collections,  \* (namespace, resource kind) pairs
    Objects,      \* object UIDs
    Requested,    \* the scopes that are listed, as sequences of collections
    MaxRevision,  \* bound: changes Kubernetes makes
    BufferLimit   \* KUBERNETES_WATCH_BUFFER_LIMIT

ASSUME AdapterAssumption ==
    /\ Requested \subseteq Seq(Collections) \ {<<>>}
    /\ MaxRevision \in Nat
    /\ BufferLimit \in Nat \ {0}

VARIABLES
    history,    \* Kubernetes: the changes so far; the i-th has resourceVersion i
    caller,     \* where the collector is in its calls
    scope,      \* the collections of the list
    listed,     \* how many of them have been listed
    items,      \* resourceVersions of the resources the list has gathered
    top,        \* listResourceVersion, 0 for null
    aborted,    \* signal.aborted
    hooked,     \* the abort listener is registered on the signal
    request,    \* the HTTP watch request
    sent,       \* resourceVersion of the last change the request carried
    events,     \* the buffer
    complete,   \* complete
    failure,    \* failure, "none" for null
    given       \* the changes the generator has yielded

list   == <<scope, listed, items, top>>
buffer == <<sent, events, complete, failure>>
watch  == <<hooked, request, buffer, given>>
vars   == <<history, caller, list, aborted, watch>>

Revisions == 1..Len(history)
Change == [collection : Collections, object : Objects, live : BOOLEAN]

Over == {"ended", "failed", "left"}

\* Types; the buffer never holds more than its limit (watchNamespace).
TypeOK ==
    /\ history \in Seq(Change)
    /\ caller \in Over \cup {"idle", "listing", "listed", "opening", "opened", "busy", "waiting", "woken"}
    /\ scope \in Requested \cup {<<>>}
    /\ listed \in 0..Len(scope)
    /\ items \in SUBSET Revisions
    /\ top \in Nat
    /\ aborted \in BOOLEAN
    /\ hooked \in BOOLEAN
    /\ request \in {"none", "opening", "unwanted", "open", "ending", "closed"}
    /\ sent \in Nat
    /\ events \in Seq(Revisions) /\ Len(events) <= BufferLimit
    /\ complete \in BOOLEAN
    /\ failure \in {"none", "disconnected", "overflow", "gone"}
    /\ given \in Seq(Revisions)

\* Change i is what collection c holds of its object at resourceVersion r.
Newest(c, i, r) ==
    /\ history[i].collection = c
    /\ \A j \in (i + 1)..r :
           ~(history[j].collection = c /\ history[j].object = history[i].object)

\* The resources of collection c at resourceVersion r.
Snapshot(c, r) == {i \in 1..r : Newest(c, i, r) /\ history[i].live}

Init ==
    /\ history \in {<<h>> : h \in {x \in Change : x.live}}
    /\ caller = "idle"
    /\ scope = <<>> /\ listed = 0 /\ items = {} /\ top = 0
    /\ aborted = FALSE /\ hooked = FALSE
    /\ request = "none"
    /\ sent = 0 /\ events = <<>> /\ complete = FALSE /\ failure = "none"
    /\ given = <<>>

\* An object is created, modified or deleted.
ClusterChange ==
    /\ Len(history) < MaxRevision
    /\ \E h \in Change :
        /\ h.live \/ \E i \in Snapshot(h.collection, Len(history)) : history[i].object = h.object
        /\ history' = Append(history, h)
    /\ UNCHANGED <<caller, list, aborted, watch>>

-----------------------------------------------------------------------------
(* listResult: the collections one after the other.                         *)

StartList ==
    /\ caller = "idle"
    /\ \E s \in Requested : scope' = s
    /\ caller' = "listing"
    /\ UNCHANGED <<history, listed, items, top, aborted, watch>>

\* One collection answers; the signal is looked at before and after.
ListCollection ==
    /\ caller = "listing" /\ ~aborted
    /\ items' = items \cup Snapshot(scope[listed + 1], Len(history))
    /\ top' = IF Len(history) > top THEN Len(history) ELSE top
    /\ listed' = listed + 1
    /\ caller' = IF listed + 1 = Len(scope) THEN "listed" ELSE "listing"
    /\ UNCHANGED <<history, scope, aborted, watch>>

\* A request fails (410 becomes KubernetesWatchGoneError), or the signal is up.
ListFails ==
    /\ caller = "listing"
    /\ caller' = "failed"
    /\ UNCHANGED <<history, list, aborted, watch>>

\* Mutant: the greatest resourceVersion of all collections is exposed.
ListedVersionOfAny == top

\* The resourceVersion of the result: only one collection has one.
ListedVersion == IF Len(scope) = 1 THEN top ELSE 0

-----------------------------------------------------------------------------
(* watchNamespace: the request.                                             *)

\* The watched collection.
Watched == scope[1]

\* The call: a request, and a listener on the signal.
OpenWatch ==
    /\ caller = "listed"
    /\ IF aborted \/ Len(scope) # 1
       THEN caller' = "failed" /\ UNCHANGED <<hooked, request, sent>>
       ELSE /\ caller' = "opening"
            /\ request' = "opening"
            /\ hooked' = TRUE
            /\ sent' = ListedVersion
    /\ UNCHANGED <<history, list, aborted, events, complete, failure, given>>

\* Mutant: the first call decides, and nobody is woken.
FinishSilently(why) ==
    /\ complete' = TRUE
    /\ failure' = IF complete THEN failure ELSE why
    /\ UNCHANGED caller

\* finish: the first call decides, and wakes the generator.
Finish(why) ==
    /\ complete' = TRUE
    /\ failure' = IF complete THEN failure ELSE why
    /\ caller' = IF caller = "waiting" /\ ~complete THEN "woken" ELSE caller

\* The API server accepts the request: the generator is returned.
Accepted ==
    /\ caller = "opening"
    /\ caller' = "opened"
    /\ request' = "open"
    /\ UNCHANGED <<history, list, aborted, hooked, buffer, given>>

\* The API server refuses it: the HTTP client reports the error and answers.
Refused ==
    /\ caller = "opening"
    /\ caller' = "opened"
    /\ request' = "closed"
    /\ complete' = TRUE
    /\ failure' \in {"gone", "disconnected"}
    /\ UNCHANGED <<history, list, aborted, hooked, sent, events, given>>

\* The request cannot be made at all: watch throws.
CannotRequest ==
    /\ caller = "opening"
    /\ caller' = "failed"
    /\ request' = "closed"
    /\ hooked' = FALSE
    /\ UNCHANGED <<history, list, aborted, buffer, given>>

\* The request that lost the race against the signal is answered, or not.
LateAnswer ==
    /\ request = "unwanted"
    /\ request' \in {"ending", "closed"}
    /\ UNCHANGED <<history, caller, list, aborted, hooked, buffer, given>>

\* Mutant: an event that finds the buffer full is dropped.
PushDropping(i) ==
    /\ IF complete \/ aborted \/ Len(events) >= BufferLimit
       THEN UNCHANGED <<events, complete, failure, request, caller>>
       ELSE /\ events' = Append(events, i)
            /\ caller' = IF caller = "waiting" THEN "woken" ELSE caller
            /\ UNCHANGED <<complete, failure, request>>

\* push: a full buffer ends the watch and its request.
Push(i) ==
    IF complete \/ aborted
    THEN UNCHANGED <<events, complete, failure, request, caller>>
    ELSE IF Len(events) >= BufferLimit
    THEN Finish("overflow") /\ request' = "ending" /\ UNCHANGED events
    ELSE /\ events' = Append(events, i)
         /\ caller' = IF caller = "waiting" THEN "woken" ELSE caller
         /\ UNCHANGED <<complete, failure, request>>

\* i is the first change of the collection that the request has not carried.
NextChange(i) ==
    /\ i \in (sent + 1)..Len(history)
    /\ history[i].collection = Watched
    /\ \A j \in (sent + 1)..(i - 1) : history[j].collection # Watched

\* The API server sends the next change.
Receive ==
    /\ request = "open"
    /\ \E i \in Revisions :
        /\ NextChange(i)
        /\ sent' = i
        /\ Push(i)
    /\ UNCHANGED <<history, list, aborted, hooked, given>>

\* ... or one that cannot be parsed: the watch fails, its request stays open.
ReceiveMalformed ==
    /\ request = "open"
    /\ \E i \in Revisions : NextChange(i) /\ sent' = i
    /\ Finish("disconnected")
    /\ UNCHANGED <<history, list, aborted, hooked, request, events, given>>

\* The server ends the request, or the connection breaks.
Disconnected ==
    /\ request = "open"
    /\ request' = "closed"
    /\ \E why \in {"none", "disconnected", "gone"} : Finish(why)
    /\ UNCHANGED <<history, list, aborted, hooked, sent, events, given>>

\* The HTTP client settles a request that was aborted: AbortError to finish,
\* which keeps no error under an aborted signal.
AbortSettles ==
    /\ request = "ending"
    /\ request' = "closed"
    /\ Finish(IF aborted THEN "none" ELSE "disconnected")
    /\ UNCHANGED <<history, list, aborted, hooked, sent, events, given>>

\* The collector aborts its signal: the request is aborted; a call that still
\* waits for its answer throws at once, and aborts the request when it comes.
Abort ==
    /\ ~aborted /\ caller \notin Over
    /\ aborted' = TRUE
    /\ request' = CASE request = "opening" -> "unwanted"
                    [] request = "open" -> "ending"
                    [] OTHER -> request
    /\ caller' = IF caller = "opening" THEN "failed" ELSE caller
    /\ hooked' = (hooked /\ caller # "opening")
    /\ UNCHANGED <<history, list, buffer, given>>

-----------------------------------------------------------------------------
(* The generator.                                                           *)

\* Mutant: the generator that is over leaves its request alone.
FinallyKeepingRequest ==
    /\ hooked' = FALSE
    /\ complete' = TRUE
    /\ UNCHANGED request

\* Its finally block.
Finally ==
    /\ hooked' = FALSE
    /\ request' = IF request = "open" THEN "ending" ELSE request
    /\ complete' = TRUE

\* The collector asks for the next event, or the generator has been woken.
Pulling == caller \in {"opened", "busy", "woken"}

Yield ==
    /\ Pulling /\ events # <<>>
    /\ given' = Append(given, Head(events))
    /\ events' = Tail(events)
    /\ caller' = "busy"
    /\ UNCHANGED <<history, list, aborted, hooked, request, sent, complete, failure>>

\* A failure is thrown once the buffer is empty.
Throw ==
    /\ Pulling /\ events = <<>> /\ failure # "none"
    /\ caller' = "failed"
    /\ Finally
    /\ UNCHANGED <<history, list, aborted, sent, events, failure, given>>

Return ==
    /\ Pulling /\ events = <<>> /\ failure = "none"
    /\ complete \/ aborted
    /\ caller' = "ended"
    /\ Finally
    /\ UNCHANGED <<history, list, aborted, sent, events, failure, given>>

Wait ==
    /\ Pulling /\ events = <<>> /\ failure = "none"
    /\ ~complete /\ ~aborted
    /\ caller' = "waiting"
    /\ UNCHANGED <<history, list, aborted, watch>>

Pull == Yield \/ Throw \/ Return \/ Wait

\* The loop body throws or returns: the generator's finally block runs.
Leave ==
    /\ caller = "busy"
    /\ caller' = "left"
    /\ Finally
    /\ UNCHANGED <<history, list, aborted, sent, events, failure, given>>

-----------------------------------------------------------------------------
List == StartList \/ ListCollection \/ ListFails
Answer == Accepted \/ Refused \/ CannotRequest
Settle == AbortSettles \/ LateAnswer
Serve == Receive \/ ReceiveMalformed \/ Disconnected

Next ==
    \/ List \/ OpenWatch \/ Answer \/ Settle \/ Serve \/ Pull
    \/ Abort \/ Leave \/ ClusterChange

Spec == Init /\ [][Next]_vars

\* The collector keeps pulling; the HTTP client answers or gives up, and
\* settles what was aborted.  The API server need not send anything.
Fairness ==
    /\ WF_vars(List)
    /\ WF_vars(OpenWatch)
    /\ WF_vars(Answer)
    /\ WF_vars(Settle)
    /\ WF_vars(Pull)

FairSpec == Spec /\ Fairness

-----------------------------------------------------------------------------
(* Properties.                                                              *)

\* What was yielded last, or where the watch started.
Taken == IF given = <<>> THEN ListedVersion ELSE Last(given)

Stream == INSTANCE ObservedStream WITH
    watched <- IF scope = <<>> THEN "nothing" ELSE Watched,
    sent <- sent,
    taken <- IF caller \in {"idle", "listing", "listed"} \/ request = "none" THEN 0 ELSE Taken,
    state <- CASE caller \in {"idle", "listing", "listed"} -> "before"
               [] caller \in Over -> caller
               [] OTHER -> "open"

\* The adapter hands over what the API server sent, in order and without a gap,
\* whatever the buffer, the wake-ups and the abort do; and it ends quietly only
\* when nothing is missing (watchNamespace).
ImplementsStream == Stream!StreamSpec

\* A resourceVersion that a list exposes is one at which the cluster looked
\* like the list says: a watch from there misses nothing (listResult).
ListIsSnapshot ==
    caller = "listed" /\ ListedVersion # 0 => items = Snapshot(Watched, ListedVersion)

\* When a watch is over, however it ended, its listener is off the signal and
\* its request is closed or being aborted, also one still to be answered.
ReleasedOnceOver ==
    caller \in Over => ~hooked /\ request \in {"none", "unwanted", "ending", "closed"}

\* No wake-up is lost: an abort ends the stream, and what is buffered is yielded
\* unless the collector leaves; it never goes on waiting (watchNamespace).
NoLostWakeup ==
    /\ aborted ~> caller \in Over
    /\ events # <<>> ~> (events = <<>> \/ caller = "left")
=============================================================================
