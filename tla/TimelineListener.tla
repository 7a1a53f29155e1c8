--------------------------- MODULE TimelineListener ---------------------------
(***************************************************************************)
(* The web process's LISTEN connection and who shares it: event streams,    *)
(* the readiness subscription that probes keep alive, and the shutdown      *)
(* (packages/db, PostgresObservationStore.subscribeTimeline and the two     *)
(* helpers around it; apps/web/src/server.ts, verifyTimelineNotifications,  *)
(* timelineStream and close).                                               *)
(*                                                                         *)
(* An actor is a request handler or the shutdown; at names the await it is  *)
(* suspended at.  Continuations that are ready (Resumable) run before the   *)
(* event loop takes the next I/O event or request.                          *)
(***************************************************************************)
EXTENDS Naturals, FiniteSets

CONSTANTS
    Probes,     \* handlers of /health and /metrics, each runs again and again
    Streams,    \* handlers of /api/timeline/stream
    Shutdown,   \* the actor of close()
    MaxTokens,  \* bound: subscriptions held at the same time
    MaxClients, \* bound: pool clients checked out at the same time
    MaxFaults,  \* bound: failures of the database
    InFlight    \* whether SIGTERM may find requests under way

ASSUME ListenerAssumption ==
    /\ Shutdown \notin Probes \cup Streams /\ Probes \cap Streams = {}
    /\ MaxTokens \in Nat \ {0} /\ MaxClients \in Nat \ {0} /\ MaxFaults \in Nat
    /\ InFlight \in BOOLEAN

VARIABLES
    listeners,  \* timelineListeners, as subscription tokens
    listening,  \* timelineListenerClient, 0 for null
    setup,      \* timelineListenerSetup: "none", or the await it is suspended at
    healthy,    \* timelineListenerHealthy
    out,        \* pool clients that are checked out for listening
    release,    \* releaseTimelineReadiness, 0 for undefined
    ready,      \* timelineReady
    stopping,   \* stopping
    at,         \* where an actor is
    mine,       \* the subscription an actor made or gives up
    held,       \* the client an actor unlistens
    after,      \* what follows once its subscription is released
    closed,     \* client.closed of a stream
    faults      \* failures so far

store == <<listeners, listening, setup, healthy, out>>
web   == <<release, ready, stopping>>
local == <<at, mine, held, after, closed>>

listenerVars == <<store, web, local, faults>>

Actors  == Probes \cup Streams \cup {Shutdown}
Tokens  == 1..MaxTokens
Clients == 1..MaxClients

\* Continuations that run as soon as the running code returns.
Resumable == {"subscribed", "rejected", "releasing", "released"}

\* Awaits of I/O, of the setup or of other handlers.
Suspended == {"request", "waiting", "draining", "unlisten", "open", "sweeping", "ending"}

Quiet == \A a \in Actors : at[a] \notin Resumable

ListenerTypeOK ==
    /\ listeners \in SUBSET Tokens
    /\ listening \in out \cup {0}
    /\ setup \in {"none", "connecting", "listen"}
    /\ healthy \in BOOLEAN
    /\ out \in SUBSET Clients
    /\ release \in Tokens \cup {0}
    /\ ready \in BOOLEAN
    /\ stopping \in BOOLEAN
    /\ at \in [Actors -> Resumable \cup Suspended \cup {"idle", "stopped"}]
    /\ mine \in [Actors -> Tokens \cup {0}]
    /\ held \in [Actors -> Clients \cup {0}]
    /\ after \in [Actors -> {"subscribe", "end"}]
    /\ closed \in [Streams -> BOOLEAN]
    /\ faults \in 0..MaxFaults

\* The process has started: the readiness subscription holds the connection.
ListenerInit ==
    /\ listeners = {1} /\ listening = 1 /\ setup = "none" /\ healthy = TRUE /\ out = {1}
    /\ release = 1 /\ ready = TRUE /\ stopping = FALSE
    /\ at = [a \in Actors |-> "idle"]
    /\ mine = [a \in Actors |-> 0]
    /\ held = [a \in Actors |-> 0]
    /\ after = [a \in Actors |-> "end"]
    /\ closed = [s \in Streams |-> FALSE]
    /\ faults = 0

Goto(a, place) == at' = [at EXCEPT ![a] = place]

-----------------------------------------------------------------------------
(* PostgresObservationStore.                                                *)

\* subscribeTimeline up to its await: the listener is added; without a client
\* the caller waits for the setup, which the first of them starts.
Subscribe(a) ==
    /\ \E t \in Tokens \ listeners :
        /\ \A u \in Tokens \ listeners : t <= u
        /\ listeners' = listeners \cup {t}
        /\ mine' = [mine EXCEPT ![a] = t]
    /\ IF listening # 0
       THEN Goto(a, "subscribed") /\ UNCHANGED <<setup, healthy>>
       ELSE /\ Goto(a, "waiting")
            /\ setup' = IF setup = "none" THEN "connecting" ELSE setup
            /\ healthy' = (healthy /\ setup # "none")
    /\ UNCHANGED <<listening, out, held>>

\* An unsubscribe: the last listener gone, the connection is released, after
\* the setup that is under way.
Unsubscribe(a, t, next) ==
    /\ listeners' = listeners \ {t}
    /\ Goto(a, IF listeners' # {} THEN "released"
               ELSE IF setup = "none" THEN "releasing" ELSE "draining")
    /\ after' = [after EXCEPT ![a] = next]
    /\ UNCHANGED <<listening, setup, healthy, out, mine, held>>

\* releaseTimelineListener: a subscriber that came meanwhile keeps the client.
DecideRelease(a) ==
    /\ at[a] = "releasing"
    /\ IF listeners # {}
       THEN Goto(a, "released") /\ UNCHANGED <<listening, healthy, held>>
       ELSE /\ listening' = 0
            /\ healthy' = TRUE
            /\ held' = [held EXCEPT ![a] = listening]
            /\ Goto(a, IF listening = 0 THEN "released" ELSE "unlisten")
    /\ UNCHANGED <<listeners, setup, out, web, mine, after, closed, faults>>

\* UNLISTEN is answered, or fails: the client goes back to the pool.
Unlisten(a) ==
    /\ Quiet
    /\ at[a] = "unlisten"
    /\ out' = out \ {held[a]}
    /\ held' = [held EXCEPT ![a] = 0]
    /\ Goto(a, "released")
    /\ UNCHANGED <<listeners, listening, setup, healthy, web, mine, after, closed, faults>>

\* The setup has its client and sends LISTEN.
Connected ==
    /\ Quiet
    /\ setup = "connecting"
    /\ \E c \in Clients \ out :
        /\ \A d \in Clients \ out : c <= d
        /\ out' = out \cup {c}
        /\ listening' = c
    /\ setup' = "listen"
    /\ UNCHANGED <<listeners, healthy, web, local, faults>>

\* Everyone who waits for the setup goes on.
Settle(outcome) ==
    at' = [a \in Actors |-> CASE at[a] = "waiting" -> outcome
                              [] at[a] = "draining" -> "releasing"
                              [] OTHER -> at[a]]

\* LISTEN is active.
ListenActive ==
    /\ Quiet
    /\ setup = "listen"
    /\ setup' = "none"
    /\ healthy' = TRUE
    /\ Settle("subscribed")
    /\ UNCHANGED <<listeners, listening, out, web, mine, held, after, closed, faults>>

Fault ==
    /\ faults < MaxFaults
    /\ faults' = faults + 1

\* Connecting or LISTEN fails: the client is released, every waiter rejects.
SetupFails ==
    /\ Quiet /\ Fault
    /\ setup # "none"
    /\ setup' = "none"
    /\ listening' = 0
    /\ out' = out \ {listening}
    /\ Settle("rejected")
    /\ UNCHANGED <<listeners, healthy, web, mine, held, after, closed>>

-----------------------------------------------------------------------------
(* Event streams.                                                           *)

\* A stream whose client is registered in liveSseClients.
IsLive(s) == at[s] \in {"waiting", "subscribed", "open"} /\ ~closed[s]

\* Every live stream closes; an open one gives up its subscription.
CloseLive ==
    LET open == {s \in Streams : at[s] = "open" /\ ~closed[s]} IN
    /\ closed' = [s \in Streams |-> closed[s] \/ IsLive(s)]
    /\ listeners' = listeners \ {mine[s] : s \in open}
    /\ after' = [a \in Actors |-> IF a \in open THEN "end" ELSE after[a]]

\* The LISTEN connection breaks: onError forgets and releases the client, and
\* the web process closes every stream (until the shutdown has begun).
ListenLost ==
    /\ Quiet /\ Fault
    /\ listening # 0 /\ setup = "none"
    /\ listening' = 0
    /\ healthy' = FALSE
    /\ out' = out \ {listening}
    /\ IF stopping
       THEN UNCHANGED <<listeners, at, after, closed, ready>>
       ELSE /\ CloseLive
            /\ ready' = FALSE
            /\ at' = [a \in Actors |->
                   IF a \in Streams /\ at[a] = "open"
                   THEN IF listeners' = {} THEN "releasing" ELSE "released"
                   ELSE at[a]]
    /\ UNCHANGED <<setup, release, stopping, mine, held>>

\* A request for a stream or a probe arrives; the session or the database
\* ping is awaited first.
Arrive(a) ==
    /\ Quiet /\ ~stopping
    /\ at[a] = "idle"
    /\ Goto(a, "request")
    /\ closed' = IF a \in Streams THEN [closed EXCEPT ![a] = FALSE] ELSE closed
    /\ UNCHANGED <<store, web, mine, held, after, faults>>

\* timelineStream registers its client and subscribes.
StreamSubscribes(s) ==
    /\ Quiet
    /\ at[s] = "request"
    /\ Subscribe(s)
    /\ UNCHANGED <<web, after, closed, faults>>

\* Mutant: the stream does not ask whether LISTEN is active.
StreamOpensUnchecked(s) ==
    /\ at[s] = "subscribed"
    /\ IF closed[s]
       THEN Unsubscribe(s, mine[s], "end") /\ UNCHANGED ready
       ELSE /\ Goto(s, "open")
            /\ ready' = TRUE
            /\ UNCHANGED <<store, mine, held, after>>
    /\ UNCHANGED <<release, stopping, closed, faults>>

\* The stream opens, unless it was closed meanwhile or LISTEN is not active.
StreamOpens(s) ==
    /\ at[s] = "subscribed"
    /\ IF closed[s] \/ ~healthy
       THEN Unsubscribe(s, mine[s], "end") /\ ready' = (ready /\ closed[s])
       ELSE /\ Goto(s, "open")
            /\ ready' = TRUE
            /\ UNCHANGED <<store, mine, held, after>>
    /\ UNCHANGED <<release, stopping, closed, faults>>

\* The browser disconnects.
StreamDisconnects(s) ==
    /\ Quiet
    /\ at[s] = "open"
    /\ closed' = [closed EXCEPT ![s] = TRUE]
    /\ Unsubscribe(s, mine[s], "end")
    /\ UNCHANGED <<web, faults>>

-----------------------------------------------------------------------------
(* Readiness.                                                               *)

\* verifyTimelineNotifications: nothing to do while the subscription is kept
\* and healthy; otherwise the old one is given up and a new one made.
Verify(p) ==
    /\ Quiet
    /\ at[p] = "request"
    /\ \/ /\ stopping \/ (release # 0 /\ healthy)
          /\ ready' = ~stopping
          /\ Goto(p, "idle")
          /\ UNCHANGED <<store, release, mine, held, after>>
       \/ /\ ~stopping /\ release # 0 /\ ~healthy
          /\ Unsubscribe(p, release, "subscribe")
          /\ release' = 0
          /\ UNCHANGED ready
       \/ /\ ~stopping /\ release = 0
          /\ Subscribe(p)
          /\ UNCHANGED <<release, ready, after>>
    /\ UNCHANGED <<stopping, closed, faults>>

\* The old subscription is gone: subscribe anew.
Resubscribe(p) ==
    /\ at[p] = "released" /\ after[p] = "subscribe"
    /\ Subscribe(p)
    /\ UNCHANGED <<web, after, closed, faults>>

\* The probe keeps its subscription for the process when LISTEN is active.
Keep(p) ==
    /\ at[p] = "subscribed"
    /\ IF healthy
       THEN /\ release' = mine[p]
            /\ ready' = TRUE
            /\ Goto(p, "idle")
            /\ UNCHANGED <<store, mine, held, after>>
       ELSE /\ Unsubscribe(p, mine[p], "end")
            /\ ready' = FALSE
            /\ UNCHANGED release
    /\ UNCHANGED <<stopping, closed, faults>>

\* The subscription failed: its listener is removed (stream: 503).
Rejected(a) ==
    /\ at[a] = "rejected"
    /\ listeners' = listeners \ {mine[a]}
    /\ ready' = FALSE
    /\ Goto(a, "idle")
    /\ UNCHANGED <<listening, setup, healthy, out, release, stopping, mine, held, after, closed, faults>>

\* A handler ends once its subscription is released.
Ended(a) ==
    /\ a # Shutdown
    /\ at[a] = "released" /\ after[a] = "end"
    /\ Goto(a, "idle")
    /\ UNCHANGED <<store, web, mine, held, after, closed, faults>>

-----------------------------------------------------------------------------
(* Shutdown.                                                                *)

\* close(): live streams are closed first.
Stop ==
    /\ Quiet /\ ~stopping
    /\ InFlight \/ \A a \in Probes \cup Streams : at[a] \in {"idle", "open"}
    /\ stopping' = TRUE
    /\ ready' = FALSE
    /\ CloseLive
    /\ at' = [a \in Actors |->
           CASE a = Shutdown -> "sweeping"
             [] a \in Streams /\ at[a] = "open" ->
                   IF listeners' # {} THEN "released" ELSE IF setup = "none" THEN "releasing" ELSE "draining"
             [] OTHER -> at[a]]
    /\ UNCHANGED <<listening, setup, healthy, out, release, mine, held, faults>>

\* Streams that are giving up their subscription.
Closing == {s \in Streams : closed[s] /\ at[s] \in {"releasing", "draining", "unlisten", "released"}}

\* Mutant: the shutdown leaves the readiness subscription alone.
StopKeepsReadiness ==
    /\ at[Shutdown] = "sweeping" /\ Closing = {}
    /\ Goto(Shutdown, "ending")
    /\ UNCHANGED <<store, mine, held, after, web, closed, faults>>

\* ... then the readiness subscription is given up.
StopReadiness ==
    /\ at[Shutdown] = "sweeping" /\ Closing = {}
    /\ IF release # 0
       THEN Unsubscribe(Shutdown, release, "end")
       ELSE Goto(Shutdown, "ending") /\ UNCHANGED <<store, mine, held, after>>
    /\ release' = 0
    /\ UNCHANGED <<ready, stopping, closed, faults>>

\* ... then the pool is ended,
StopPool ==
    /\ at[Shutdown] = "released"
    /\ Goto(Shutdown, "ending")
    /\ UNCHANGED <<store, web, mine, held, after, closed, faults>>

\* which takes until every client has been released.
Stopped ==
    /\ Quiet
    /\ at[Shutdown] = "ending"
    /\ out = {} /\ setup = "none"
    /\ Goto(Shutdown, "stopped")
    /\ UNCHANGED <<store, web, mine, held, after, closed, faults>>

-----------------------------------------------------------------------------
\* Continuations, which run before anything else.
Continue ==
    \/ \E a \in Actors : DecideRelease(a) \/ Rejected(a) \/ Ended(a)
    \/ \E s \in Streams : StreamOpens(s)
    \/ \E p \in Probes : Resubscribe(p) \/ Keep(p)
    \/ StopPool

\* The database connection that is being set up makes progress.
Setup == Connected \/ ListenActive

Environment ==
    \/ SetupFails \/ ListenLost \/ Stop
    \/ \E s \in Streams : Arrive(s) \/ StreamDisconnects(s)
    \/ \E p \in Probes : Arrive(p)

ListenerNext ==
    \/ Continue \/ Setup \/ StopReadiness \/ Stopped \/ Environment
    \/ \E a \in Actors : Unlisten(a)
    \/ \E s \in Streams : StreamSubscribes(s)
    \/ \E p \in Probes : Verify(p)

ListenerSpec == ListenerInit /\ [][ListenerNext]_listenerVars

\* The event loop takes every I/O event that is ready, however often others
\* come between; the database answers; each probe is sent again and again by
\* kubelet or by the metrics scraper.
ListenerFairSpec ==
    /\ ListenerSpec
    /\ WF_listenerVars(Continue)
    /\ SF_listenerVars(Setup)
    /\ SF_listenerVars(StopReadiness)
    /\ SF_listenerVars(Stopped)
    /\ \A a \in Actors : SF_listenerVars(Unlisten(a))
    /\ \A s \in Streams : SF_listenerVars(StreamSubscribes(s))
    /\ \A p \in Probes : SF_listenerVars(Verify(p)) /\ SF_listenerVars(Arrive(p))

-----------------------------------------------------------------------------
(* Properties.                                                              *)

\* Until the shutdown, a stream is open (its ready event is written) only while LISTEN is active:
\* the page's recovery after ready closes the gap between query and LISTEN.
OpenMeansListening ==
    ~stopping =>
        \A s \in Streams : at[s] = "open" => listening # 0 /\ setup = "none" /\ healthy

\* A pool client that was checked out for listening is the current one, or an
\* actor is about to return it: none is lost, however calls overlap and fail.
ClientsAccounted ==
    out = ({listening} \cup {held[a] : a \in Actors}) \ {0}

\* A graceful shutdown ends: no pool client stays checked out.
StopCompletes == stopping ~> at[Shutdown] = "stopped"
=============================================================================
